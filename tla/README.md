# A TLA+ model of esp32-wifi-manager

TLA+ modules, TLC configurations and TLAPS proofs for the ESP32 Wi-Fi manager
component (Ruuvi's fork): the part that owns the Wi-Fi driver, keeps the
station connected, scans, and serves the configuration pages. File names below
are those of `src/` of the repository unless a path is given.

Contents: 1 the system, 2 the modules and the code, 3 the runs, 4 the proofs,
5 where the code and its text disagree, 6 what is not modelled, 7 the plan.

## 1. The system

| component | state | operations | threads |
|---|---|---|---|
| message queue (`wifiman_msg.c`) | queue of 3 messages, watchdog flag | send (waiting or not), receive, delete | all send, the wifi_manager task receives |
| manager mutex (`wifi_manager_internal.c`) | recursive mutex | lock, unlock | all |
| wifi_manager task (`wifi_manager.c`, `wifi_manager_handle_msg.c`) | event group of 15 bits, WPS flag, scan info, AP records | 18 message handlers | wifi_manager task |
| Wi-Fi driver and event loop (ESP-IDF) | link, events | connect, disconnect, scan | event loop task runs `wifi_manager_event_handler` |
| timers | reconnect, scan delay, watchdog feed | send a message | FreeRTOS timer daemon |
| API (`wifi_manager.c`) | - | connect, disconnect, scan_sync, AP, WPS, stop, Ethernet status | application, HTTP server |
| network status (`json_network_info.c`) | reason, SSID, addresses, extra info; own mutex | clear, update, generate | all |
| configuration (`wifiman_config.c`, blobs) | AP and station configuration in RAM and NVS; own mutex | get, set, save, convert | all |
| DNS server (`dns_server.c`) | signal object, registered thread, socket | start, stop | own task, started and stopped by the wifi_manager task and the HTTP server |
| HTTP server (`http_server*.c`) | signal object, send semaphore, request buffer | accept, receive, route, respond | own task; TCP/IP task signals the semaphore |
| authentication (`http_server_auth*.c`) | login session, 4 authorised sessions, digest nonce | login, check, logout | HTTP server |
| ECDH (`http_server_ecdh.c`) | key pair, AES key | handshake, encrypt, decrypt | HTTP server |
| AP list (`access_points_list.c`) | array of records | unique, sort | wifi_manager task |

Everything that changes the connection goes through one queue to one task. The
hard part is around that task: several threads send to it, handlers send to
their own queue, the driver answers later with events that are queued behind
whatever was sent meanwhile, bits of the event group are read in one message
and written in another, timers fire at any time, and the task can be stopped
while others call. What makes each part correct:

* the queue is a FIFO channel, never used after its deletion; no call blocks
  for ever; the watchdog is fed but does not fill the queue;
* the connected bit, the status, the callbacks and the timer follow the link,
  in whatever order events and orders are handled; a lost link comes back;
  handlers that send to themselves come to rest, unless two orders to connect
  cross;
* one scan at a time, complete, whose waiter is woken;
* what is initialised once is never initialised again, and an end leaves of the
  event group the bits it does not clear and nothing else;
* the one thread of the HTTP server gives back what each connection took, never
  waits without a limit and obeys a stop, unless a handler of a request never
  returns; a request fits its buffer however it is cut;
* a request from the LAN acts only with the right to it, sessions are those of
  the present credentials, and a client can get one.

`PROJECT.json` lists the components and, under `hazards`, the lines where each
of these can go wrong.

## 2. Modules

**WifiChannel** - what the queue promises: `Put`, `Get`, `Delete` on a bounded
FIFO channel. Abstract; implemented by WifiMsg.

**WifiMsg** - the queue, the recursive mutex and all the threads, at the grain
of lock, NULL test, post, unlock. A thread's `pc` says where it is:

| pc | code |
|---|---|
| `idle`, `recv`, `init` | waits for its next job; the task's xQueueReceive; start of the task |
| `outer`, `guarded`, `leave` | wifi_manager_lock, body, wifi_manager_unlock of a section around the send or of a handler |
| `lock`, `check`, `post`, `unlock` | `wifiman_msg_send_with_timeout`, lines 161, 163, 168, 174 |
| `handle` | `wifi_manager_recv_and_handle_msg` after the receive |
| `done` | the task has ended |

`job` is the class of message in hand. The eighteen codes fall into five
classes by what their handlers do with mutex and queue (the module's header
lists them); a `relay` handler may or may not send. The scan handlers that only
sometimes lock are `locked`, which may also end without locking. `Init` is
inside `wifi_manager_start`, which holds the mutex, just before its own send.

**StaConnection** - the station handlers as whole actions, the driver, and the
other threads as *scripts*: `todo[a]` is the list of steps the thread `a` has
still to do (set the configuration, clear the status, set the CMD bit, send,
...), so that calls interleave at each of their effects. `bits` is the event
group, `air` the driver events not yet delivered, `json` the reason and SSID of
the status, `told` whether the last callback of the application said
"connected". The scripts of an order to connect are those of
`wifi_manager_connect_async`, which configures nothing, and of POST
/connect.json, which configures the SSID it names, empty or not, or keeps the one
there is; `Reconnect` is `wifi_manager_reconnect_sta`, which looks first whether
one is configured. `HandleX` is the handler of X with everything it calls, up to the
messages it sends at its end, which are a script too.
`wifi_manager_update_network_connection_info` is folded into `HandleGotIp`,
`HandleLost` and the steps `eth`, `ethjson`.

The driver is what its use in the code says: `esp_wifi_connect` does nothing if
the station is connected or connecting, and refuses an empty SSID without an
event; `esp_wifi_disconnect` causes an event
if it is not idle; a connection attempt ends with an address or a loss.

**WifiScan** - `wifi_manager_scan_sync` (three actions: create the semaphore and
send, be woken, delete it) and the chain start, timer, next, driver, done. A
disconnection clears SCAN_BIT, and may make the driver forget its scan
(`DropsScan`, what the comment at `wifi_manager_handle_msg.c:284` describes).

Handlers are atomic in the last two modules because one task runs them all and
each bit that another thread writes (CMD, ETH), the configuration and the status
are read or written once in a handler. The locks these are under, and the waits
for room in the queue, are the subject of WifiMsg.

**DnsServer** - the threads that run `dns_server_task`, the handlers of the
phones on the access point that start and stop them, and DELETE /connect.json,
which stops them too. `pc` follows a thread through the function: `created`,
`socket`, `bind`, `alloc`, `watch`, `arm`, the loop `signals`, `request`, and
the way out `unwatch`, `disarm`, `close`, `unregister`; every failure jumps to
where the code does. `owner` and `pending` are the signal object, `watched` the
task watchdog, `timer` the feed timer in its static memory. Whether the library
keeps the signals of a thread that unregisters is not known from this
repository, so both happen.

**WifiLife** - `wifi_manager_start` step by step, the orders about the access
point, the reconfiguration of the driver, and the end of the task. `pc` follows
a caller through the start: `lock`, `ecdh`, `init` (the test of IS_WORKING),
`loop`, `netif`, `servers`, `wifi`, `connect`; an order's name means that the
caller holds the mutex and waits for room to send it. `made` is what is created
once and kept, `up` what the end takes down, `bits` the event group as far as
the instance follows it (`Followed`): `EndClears` and `EndKeeps` are the bits that
`wifi_manager.c:365-370` clears and does not. `HandleConnect` is the handler of
the order, `Effects` what each other message clears and sets; `ReportEthernet` and
`ApStarts` are the two that change bits from outside the task. `StartWifi` reaches any step of
`wifi_manager_init_start_wifi`, whose result the code ignores. The first start
is taken to be made while no other is, because it creates the mutex unprotected.

**HttpRecv** - `http_server_handle_received_buf` as an operator: a fragment of any
length goes into the buffer, the header is found, the buffer is fitted to
Content-Length. A request is the two lengths it declares.

**HttpResp** - the replies: code, where the content is, whether it is to be freed,
whether a generator makes it. `Replies` is the set the handlers can return.

**HttpServer** - extends both with the thread of `http_server_task`:

| pc | code |
|---|---|
| `created`, `open`, `listen`, `arm` | registration, netconn, listening, timer and watchdog |
| `signals`, `accept`, `accepting`, `close`, `unlock` | the loop and `http_server_accept_and_handle_conn` |
| `serve`, `recv`, `frame`, `received` | `http_server_netconn_serve`, netbuf by netbuf, fragment by fragment |
| `handle` | in `http_server_handle_req`, which may never return |
| `penalty`, `header`, `body`, `write`, `delay`, `release` | `http_server_netconn_serve_handle_req`, `http_server_netconn_resp`, `http_server_netconn_write` |
| `unwatch`, `disarm`, `shut`, `unregister` | the way out |
| `gone`, `crashed` | returned while registered; NULL handed to the parser |

`held` is what the thread has to give back, `gateOwner` the mutex the application
may set and unset at any time (`http_server_mutex.c`), `late` that a timeout
under way is over. The two user requests are one signal.

**HttpAuth** - the configured authentication, the login session (one), the table
of authorised sessions, and the outcomes of GET, POST and DELETE /auth as sets.
`granted` is a history: the sessions opened with the present credentials. A
session id stands for id and challenge, a password for user and password.

**HttpHandle** - `http_server_handle_req`: route, check, handler, handshake before
and decryption after, each request one step. `done` keeps what a request did and
on what grounds: `page` is a GET that is left to the application, `change` a POST
or DELETE, the others have the names of what they do; what they order is in
StaConnection. `jar` and the steps
`UserAsks`, `UserAnswers` follow one client through a login.

**MCWifiMsg, MCStaConnection, MCWifiScan, MCDnsServer, MCWifiLife, MCHttpServer,
MCHttpHandle** - the modules TLC is run on.
**WifiMsg_proofs, StaConnection_proofs, WifiScan_proofs, DnsServer_proofs,
WifiLife_proofs, HttpHandle_proofs, HttpRecv_proofs, HttpServer_proofs** -
theorems, each about the module it is named for. HttpServer_proofs builds on
HttpRecv_proofs.

How they compose: WifiMsg says that a send is the `Put` of a channel; the other
modules of the manager send and take whole messages. StaConnection and
DnsServer have the callers of the HTTP server as scripts and as DELETE;
HttpHandle says which requests get so far, HttpServer that each is answered
before the next.

Definitions headed "Mutated form" are deliberate mistakes: each replaces the
definition it precedes to show that a property would notice. No specification
uses them.

## 3. Runs

| run | configuration | bounds | shows |
|---|---|---|---|
| msg_safety | MCWifiMsg | 1 client, timer, task, queue of 3 as in the code, unlimited calls | types, mutex count, queue outlives senders, one feed at a time, refinement of WifiChannel |
| msg_live | MCWifiMsgLive | the same, at most 2 commands under way | calls return, watchdog is fed, stop ends the task, no deadlock |
| sta_safety | MCStaConnection | 1 client, 1 network or none, any 2 of 5 calls, 2 failures | bit, status, callbacks, timer and CMD bit agree with the link |
| sta_live | MCStaLive | any 2 of 7 calls and failures together, Ethernet included | restored at start, repaired after a loss, no storm unless orders to connect cross |
| scan | MCWifiScan | 2 clients, 3 channels, 3 disconnections | one chain, one user of the semaphore, complete lists, waiters return |
| dns | MCDnsServer | 3 threads, 2 phones, queue of 2 | one server, everything given back, watchdog fed, starts and stops obeyed |
| life | MCWifiLife | 2 callers, queue of 3 as in the code, unlimited starts, stops, orders and failures, 6 bits of 15 | servers, queue, driver and task made once; what is left after the end |
| http | MCHttpServer | 2 threads, limits of 3 + 2 bytes, requests of up to 4 + 3, fragments of 1 to 6, netbufs of 2, contents of 2 chunks | everything released, the request fits its buffer, a stop ends the server unless a handler never returns |
| auth | MCHttpHandle | 2 addresses, 2 passwords, 4 session ids, 2 slots, every authentication and set of keys | sessions match credentials, logout ends them, only authorised requests act |
| login | MCHttpLogin | 2 clients, 2 addresses, 1 slot | a client left alone at last logs in |
| msg_stop, life_restart | MCWifiMsgStop, MCWifiRestart | | two disagreements of section 5, each a counterexample |

Why the bounds are enough. WifiMsg has three threads that send (client, timer,
task), which is one more than a lock needs to go wrong between two; `Window` = 8
exceeds what they and a queue of three can hold, so it restricts nothing, and in
msg_live `Window` = 2 keeps one slot free, the condition under which the
liveness is claimed (without it, section 5 shows the deadlock). A sender that
waits for room and a feed that is refused are therefore met in msg_safety only,
for what must not happen. In StaConnection
the first connection, two calls and two failures give up to five orders or
events in the queue at once, every pair of overlapping reasons to connect, and
failures before, during and after a connection; the events of the loop, of the
task's own sends and of the timer come on top. Three channels are a first, a
middle and a last one. DnsServer needs one thread that ends, one that serves or
gives up and one that is created; its events, starts, stops and failures are
not counted at all: only the queue is bounded, by 2 messages where the code has
3, because no event waits for room longer than the task takes to handle one.
Nothing is constrained otherwise:
`MaxCalls`, `MaxFaults`, `MaxEvents` (calls and failures together) and
`MaxLosses` are guards. In sta_live a storm needs two calls with nothing between
them, and a repair two failures; three events (two of them calls at most, without
Ethernet reports) were run once and show the same.

WifiLife needs two callers, one inside a start and one that sends or starts
meanwhile; its life goes on without a count. No handler there looks at a bit but
at IS_WORKING and STA_ACTIVE, so that the others do not influence each other and
`Followed` may be any set with these two: AP_ACTIVE, WIFI_CONNECTED,
ETH_CONNECTED and AP_STARTED are one of each kind (the end clears what the task
sets, what others set too, keeps it, clears it but the event loop sets it
again). The bits of the requests and of the order to connect, those of the scan,
of the phones and of the first connection, and BLOCK_REQ_FROM_LAN were run as
further sets; the theorem is for every one. In http a request of 1 to 4 bytes of
header where 3 are allowed can be cut before, at and after the end of its header,
with contents of 0 to 3 bytes where 2 are allowed, in fragments up to one that
never fits, so that each limit is met, passed and missed by one; two threads because a second start runs beside the first. In
auth two slots are one that is shifted and one that falls out; four ids are the
two slots, the login and one that is new. `Clients` is one there, because who
sends is no part of what the server sees; in login there are two, the user and
whoever else. login leaves "default" out, which HttpAuth treats like "ruuvi",
and changes the type between basic and ruuvi.

Deadlock is checked in msg_live, where it means that everybody waits. In
msg_safety, the runs of StaConnection, scan and http the system may stop: the
manager or the server has ended, or nobody calls any more. In dns, auth, login
and the runs of WifiLife deadlock is checked but says little: the bit of the
station may change, a request come or the driver be configured at any time.

Fairness. In WifiMsg every thread that can step does (a preemptive scheduler
with threads that block), with strong fairness on the two lock operations:
FreeRTOS serves the waiters of a mutex by priority and nobody here spins on one.
In DnsServer the wifi_manager task and the server's threads run; phones, the
timer and failures need not do anything, and `dns_server_handle_req` returns
after a second at the latest (SO_RCVTIMEO). In StaConnection and WifiScan the
task, the event loop, the timer and started scripts run; a connection attempt or
a scan the driver accepted ends. Calls and losses are never obliged to happen, and losses are bounded, which is what "comes
back" means. In HttpServer its threads run and time passes, nothing else: no peer
has to read or write, and `HandlerReturns` is not obliged to happen: GET /ap.json
waits in `wifi_manager_scan_sync` and an order for room in the queue, neither with
a limit (section 5), which is why StopEndsServer allows a thread that stays at
`handle`. In HttpHandle the answer is sent, the user opens the login
page again and again (weak), and now and then gets through with the answer before
somebody else opens a page (strong); ClientLogsIn is claimed once the others
leave it at that.

RestoresConnection and LossIsRepaired are claimed only for `MayRefuse` = FALSE:
when `esp_wifi_connect` returns an error no event follows and nothing retries.
Both are about the time before anybody calls; LossIsRepaired starts from a link
that was up. ScanReturns is not claimed for a chain that a disconnection cut, nor
StartIsObeyed for a start that finds the thread before still ending: section 5
says what happens then. StormNeedsTwoOrders allows the storm of section 5, which
runs under this fairness, by what makes it: two orders to connect under way at
once, again and again. Orders that are not to connect, a disconnection, and one
order to connect at a time always come to rest.

## 4. Proofs

Every invariant and action property that a run checks is proved, for every set of
threads, calls, clients and networks, every queue length, table size, limit and
bound:

| theorem | module | property |
|---|---|---|
| TypeCorrect, MutexCorrect, QueueOutlivesSenders | WifiMsg_proofs | TypeOK, MutexInv, NoSendOnDeletedQueue |
| OneFeedAtATime | WifiMsg_proofs | AtMostOneFeed |
| QueueIsChannel | WifiMsg_proofs | ImplementsChannel |
| TypeCorrect, TimerCorrect, CmdBitCorrect | StaConnection_proofs | TypeOK, TimerOnlyWhileDown, CmdBitIsCovered |
| ConnectedBitCorrect (without Ethernet reports) | StaConnection_proofs | ConnectedBitFollowsLink |
| ToldCorrect, JsonOkCorrect (the same) | StaConnection_proofs | ToldWhatBitSays, JsonOkOnlyWhileConnected |
| ScanInvCorrect | WifiScan_proofs | ScanInv, stated there |
| TypeCorrect, SemaphoreCorrect, OneChainCorrect | WifiScan_proofs | TypeOK, SemaphoreHasOneUser, OneChain |
| ScanBitCorrect, OrderCorrect, ScanCompleteCorrect | WifiScan_proofs | ScanBitIsCovered, OrderIsObeyed, ScanIsComplete |
| TypeCorrect, OneServerCorrect | DnsServer_proofs | TypeOK, OneServer |
| NothingLeftCorrect, WatchedIsFedCorrect | DnsServer_proofs | NothingLeft, WatchedIsFed |
| PortIsFreeCorrect | DnsServer_proofs | PortIsFree, stated there |
| InitRunsOnceCorrect, EndLeavesOnlyKeptCorrect | WifiLife_proofs | InitRunsOnce, EndLeavesOnlyKept |
| FragmentFits | HttpRecv_proofs | about HandleReceivedBuf |
| EverythingReleasedCorrect, RequestFitsBufferCorrect | HttpServer_proofs | EverythingReleased, RequestFitsBuffer |
| TypeCorrect, SessionsMatchCorrect | HttpHandle_proofs | TypeOK, SessionsMatchCredentials |
| LogoutCorrect, AuthorisationCorrect | HttpHandle_proofs | LogoutEndsSession, OnlyAuthorisedRequestsAct |

They assume only the named assumptions of the modules: threads and what stands
for nobody are distinct, sizes are numbers and, where the code needs one, not
zero, the calls and authentications are those the code has. Three have one
hypothesis more, given below.

*WifiMsg.* MutexInv alone is not inductive: to release, a thread must know how
deep it is, which depends on where it stands. `Levels(t)` gives the number of
locks thread t holds at its `pc`; the invariant says that the owner's count is its
`Levels` and everyone else's is zero. NoSendOnDeletedQueue needs that the task
deletes while it is itself in a section, so that no other thread is past its
NULL test (mutual exclusion), and that the task never sends afterwards:
`SectionInv` adds that the task's own sends are not nested and that the queue
exists until the task has reached its end. `WorkHasMessage` and `CallersNest`
tie `job` to `pc`. For AtMostOneFeed, `FlagCovers` says that a feed
command anywhere (in the queue, in the task's hand, about to be posted) implies
the flag, and `FeedOwners` that only the timer sends one; the flag is tested and
set in one section, so a second cannot start. Refinement then follows step by
step: `Post` is `Put`, `Recv` is `Get`, `Teardown` is `Delete`, using
NoSendOnDeletedQueue for the first; all the others stutter.

*StaConnection.* TimerOnlyWhileDown is inductive: the timer is armed only in
the handler that clears WIFI_CONNECTED, and whoever sets the bit stops it.

TypeOK is more than types: it says that a step which sets CMD_STA_CONNECT is
followed by the order it announces. `StaInv` adds what keeps it so, that every
thread's script is a sequence of steps with arguments of their kind (`ScriptOK`);
one lemma for each way a script is made (`ConnectAsyncScript`, `PostConnectScript`,
`CallScript`, ...) and one for doing its first step (`ScriptTail`) give it.
CmdBitIsCovered is inductive with it: whoever sets CMD_STA_CONNECT sends next, and
the handler of the order clears the bit before anything else.

ConnectedBitFollowsLink is about the newest link event of the queue followed by
what is in the air. The lemmas say what becomes of the newest event when one is
sent, delivered, taken or another order is queued between (`NewestAppend`,
`NewestTail`, `NewestConcat`, `MoveOne`); each action is one of these. It, and what the
callbacks and the status say, is proved with the hypothesis that nobody reports
Ethernet (`"eth_link" \notin Calls`), as the run is, and does not hold without:
such a report clears WIFI_CONNECTED and sets the status (section 5). A device
without Ethernet never makes that call.

*WifiScan.* SemaphoreHasOneUser is inductive with the type of `pc`: a handler
signals the semaphore but never creates or deletes it, so only the steps of
`scan_sync` matter. The others are not, and are proved together as `ScanInv`. A
chain is at one place at most, said without counting (`AtMostOne`); it runs only
while a caller waits who has not been signalled (`ChainIsAwaited`), which is what
keeps a second order from the queue; SCAN_BIT is clear while an order is in the
queue, and set only for a chain that runs or whose disconnection is queued
(`BitInv`); the channels before `curChan` have been read (`Progress`), all of them
when the caller is signalled (`Complete`).

*DnsServer.* OneServer is inductive with the types, the other two are not:
`SocketInv`, `WatchInv` and `TimerInv` say at which places of `dns_server_task` a
thread may have a socket, be watched and have the timer in which state. The
owner is the only thread at such a place, so nobody else holds anything, and
nothing is held while there is no owner. The signals play no part: the proof
holds for any `DnsStop`. The types of the queue and the signals are an invariant
of their own (`AirTypes`).

*WifiLife.* Neither is inductive. `Holds` says that whoever is inside a start, sends
or takes down has the mutex; `LoopFirst` that nothing behind the event loop
exists before it does; `FirstStart` that the start which created it, and is
still inside, finds everything as at first; `Left` what the task has taken down,
that of the bits the end cleared none is set again but IS_WORKING and AP_STARTED
(`StaysCleared`, because only handlers of the task set the others), and that
IS_WORKING after the end is that of a start under way. `Harmless` is the property
of a change of bits that keeps it. The event loop is
created once and never deleted, so a start that passes it is the first to, and
IS_WORKING plays no part in that.

*HttpRecv.* A request that goes on has room for more in its buffer, or none yet
(`Going`); one that ends is inside it (`Fits`). FragmentFits says that one call
of `http_server_handle_received_buf` leads from the first to the second, and to
the first again when the request is not complete, by one lemma for each of its
steps: the allocation or growth, the copy, the fitting to Content-Length, the
test for the end. It is a theorem about the operator, for every limit, every
length of header, content and fragment, and every result of the allocator. That
the header keeps to its limit is part of it: the buffer does not grow beyond
HTTP_SERVER_MAX_REQUEST_SIZE before the content is known (`BufferOK`), so a header
that is found was never longer.

*HttpServer.* EverythingReleased looks only at the places between two connections.
`HoldInv` says at every `pc` what the registered thread holds (`HeldAt`), where
there may be a buffer (`BufferAt`) and where it may have the application's mutex
(`GateAt`), the place inside the handler of the request included; the registered thread is the only one inside (`OwnerInv`), so what it
does not hold nobody does. RequestFitsBuffer is `FitInv`: `Going` at `recv` and
`frame`, where fragments come, `Fits` elsewhere; the step that takes a fragment
is FragmentFits.

*HttpHandle.* SessionsMatchCredentials is not inductive: that a session in the
table is granted needs that the one which leaves by logging out or by being
shifted out is not there a second time (`Distinct`), and that the login session
is not in the table already (`LoginApart`, except with "allow", where both places
are given the same session but nobody completes it). `Sound` is their
conjunction, stated of the outcomes of GET, POST and DELETE /auth as well, so that
each operator of HttpAuth has its lemma and a request is a choice among outcomes.
LogoutEndsSession follows from `Distinct` and `LoginApart`. For
OnlyAuthorisedRequestsAct one group of lemmas says, route by route, which check
stands before what a request does (`GetAnswers`, `DeleteAnswers`, `PostAnswers`),
and another that a check which answers 200 to a request from the LAN rests on a
right (`CheckGivesRight`): a session in the table is one by the invariant, and a
key is the one for writing where the effect is a scan, a logout or a change
(`Writing`).

Only model-checked is what this prover does not reach, all of it liveness:
CallsReturn, WatchdogIsFed, StopEndsTask, RestoresConnection, LossIsRepaired,
StormNeedsTwoOrders, ScanReturns, StopIsObeyed, StartIsObeyed, StopEndsServer,
ClientLogsIn. The type invariants of HttpServer and WifiLife are in no run; what
their proofs need of types is part of `HoldInv`, `FitInv` and the invariant of
WifiLife.

## 5. Where the code and its text disagree

With a run each (`findings` in `PROJECT.json` has the lines):

* **msg_stop.** Calling while the manager stops is announced as safe; a caller
  that waits for room in the queue holds the mutex the ending task needs.
* **life_restart.** "wifi_manager can be re-started after stopping"
  (`wifi_manager.c:96`): the default event loop is created by the first start and
  never deleted, so that `esp_event_loop_create_default` fails in every later one.
  If an application deleted it, `dns_server_init` would assert.

Counterexamples of the models, without a run kept for them:

* A feed command refused by a full queue leaves the flag set: "previous command
  is not handled yet" (`wifiman_msg.c:215`) is then logged for ever, and the task
  watchdog is never fed again.
* The order to connect that ORDER_DISCONNECT_STA sends can overtake the event of
  the disconnection, which then clears STA_ACTIVE of the new attempt; a later
  loss of that connection is not retried.
* Two orders of the user can disconnect and reconnect each other without end, by
  the same two senders of the next order: StormNeedsTwoOrders fails without its
  second disjunct.
* With no slot kept free the manager can deadlock (msg_live with `Window` = 8): the
  task waits for room in the queue only it empties, in a handler that sends, or
  for the mutex of a caller that waits for room.
* After the end of the task `wifi_manager_is_sta_active` and
  `wifi_manager_is_connected_to_ethernet` may answer true: `wifi_manager.c:365-370`
  clears neither bit. AP_STARTED, which it clears, may be set once more by the
  event loop before its handler is unregistered.
* With no network configured, or an empty SSID, `wifi_manager_connect_async` and
  POST /connect.json set STA_ACTIVE and the driver refuses: no event follows and
  nothing is retried; the next order to connect disconnects first.
* SCAN_BIT is cleared when a disconnection kills a scan
  (`wifi_manager_handle_msg.c:284`), the waiter of the scan is not signalled:
  scanning stays refused.
* A phone leaves and joins again while the DNS server's thread is still ending
  (it looks at its signals once a second): the new thread gives up because
  "another DNS-Server is already working", and none is left.
* A start while the manager runs returns false and clears IS_WORKING
  ("indicates that wifi_manager is working", `wifi_manager_internal.h:28`) of the
  manager that runs (`wifi_manager.c:111`). The next one is not refused there: it
  creates the static timers anew, replaces the configuration and clears the
  status under the running task, and fails at the event loop.
* `wifi_manager_set_config_sta` and `wifi_manager_reconfigure` leave the driver in
  station mode and AP_ACTIVE ("WiFi access point is active") as it was; with
  BLOCK_REQ_FROM_LAN the LAN is then refused with no access point there. A
  start of the access point without that flag does not clear the bit either.

Seen while reading:

* The result of `wifi_manager_init_start_wifi` is ignored
  (`wifi_manager_internal.c:714`): a start that failed half way returns true. If
  the queue exists and the task does not, callers fill the queue, and the next
  one waits for ever with the mutex.
* A scan that is under way when the manager stops is never finished
  (`wifi_manager.c:361` stops its timer): its waiter, the HTTP server, waits.
* The mutexes of `json_network_info.c:66`, `wifiman_config.c:179`,
  `sta_ip_safe.c:25` and `wifi_manager_internal.c:68` are created by whoever finds
  them missing, without protection.
* `http_server_start` unlocks its mutex twice when a server is registered
  (`http_server.c:153`) and creates a second thread, which ends at its
  registration. A server that cannot listen returns registered
  (`http_server.c:370`): no later one starts.
* The reply to a failed POST /auth leaves the parsed request unfreed on some ways
  out (`http_server_handle_req_post_auth.c:317`).
* A request whose surplus is cut off at Content-Length has no zero after it
  (`http_server_accept_and_handle_conn.c:146`), where line 198 says there is one.
* A fragment that comes in the same netbuf after the request is complete may
  find no memory: the buffer is freed and the request handed on as NULL
  (`http_server_accept_and_handle_conn.c:330`, `ParseNull`).
* `http_server_sema_send_wait_timeout` has no caller: the send semaphore is
  signalled and drained, never waited for.
* `http_server_set_auth` clears the sessions without protection; called from
  another thread between the check of a login and its session
  (`http_server_auth.c:107`), it would leave a session of the old credentials.
* The configuration saved when an address arrives ("save wifi config in NVS if
  it wasn't a restored of a connection", `wifi_manager_handle_msg.c:437`) is the
  one in memory, which a request may have replaced while the event was queued.
* A phone that leaves before the thread started for it has registered stops
  nothing (`dns_server.c:148`), and the server runs on without a phone. With
  several phones, the one that leaves clears the bits and stops the server the
  others use.

* CMD_STA_CONNECT ("was sent, but has not handled yet") is one bit for all the
  orders in the queue, cleared by the first that is handled. CmdBitIsCovered is the
  direction that holds.
* Reporting that Ethernet is lost clears WIFI_CONNECTED (`wifi_manager.c:214`),
  and a lost Wi-Fi link clears ETH_CONNECTED. The properties about the bit are
  therefore checked without Ethernet reports.
* The branch for "user manually requested a disconnect"
  (`wifi_manager_handle_msg.c:308`) is dead: REQUEST_DISCONNECT is set and
  cleared within the handler of the order. `Asked` keeps it in the model.
* The SCAN_BIT test in `wifi_handle_cmd_start_wifi_scan` never finds the bit
  set (OrderIsObeyed): the semaphore keeps a second order from being sent.

## 6. Not modelled

* *External code*: driver, event loop, lwIP, FreeRTOS primitives, NVS, mbedTLS
  are what the code's use of them requires.
* *AP list* (filter and sort), the *extra info* and *time status* of the network
  status, the *configuration records*, their blobs and NVS, the *address of the
  station*: data behind a mutex, of which the modules keep what a decision reads.
  Of EVENT_AP_STA_CONNECTED StaConnection has the effect on INITIAL_CONNECTION,
  DnsServer the rest; of START_AP and STOP_AP, WifiLife.
* *Stop of the manager while the station or a scan is at work*: WifiMsg has the
  stop with all the senders, WifiLife with all the starts, neither with the
  station.
* *HTTP*: digests, challenges and the cookie of the page to return to; failing
  digests; session ids that repeat; the texts of requests and replies.
  `http_server_set_auth` is called between requests, as the callbacks of the
  application do from the server's own thread. `g_auth_info` keeps the data of
  digest and ruuvi in one union; a change of the type clears it, which is what
  the model has.
* *The bytes of a DNS answer*; `bind` and `calloc` fail at any time.
* *Abstracted data*: addresses and extra info of the status, passwords, signal
  strengths, delays (a timer may fire at any time after it is armed), logging.
* *Collapsed steps*: the HTTP handler of POST /connect.json clears the status
  twice in a row, modelled once; a failed or timed out WPS session disables and
  enables WPS again, which changes no state of the model;
  `esp_netif_get_ip_info` and `esp_wifi_disconnect` do not fail after a
  successful start.
* *Pure I/O and formatting*: HTML and JSON text, URL and header parsing, hashes.

## 7. Plan

Done, in order: WifiChannel and WifiMsg (everything else stands on them),
StaConnection (the purpose of the program), WifiScan, DnsServer, HttpRecv,
HttpResp and HttpServer, HttpAuth and HttpHandle, WifiLife.

Every safety property of the runs is proved. Theorems that would add to that:
JsonOkOnlyWhileConnected in a form that allows for Ethernet (which of the two
links the status speaks of), the type invariants of HttpServer and WifiLife, and
that StaConnection's scripts of sends refine the calls of WifiMsg.

Modules that remain: *ApList*, filter and sort as operators against a reference
definition; *Config*, the locked records and their saving.
