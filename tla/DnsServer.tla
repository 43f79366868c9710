----------------------------- MODULE DnsServer -----------------------------
(***************************************************************************)
(* The DNS server of the captive portal: the threads that run              *)
(* dns_server_task, started and stopped by the wifi_manager task when a    *)
(* phone joins or leaves the access point, and stopped by the HTTP server  *)
(* on DELETE /connect.json.                                                *)
(*                                                                         *)
(* A section under g_dns_server_mutex is one action: nothing in it waits.  *)
(* The signal object belongs to a library: one thread at a time may be     *)
(* registered, a signal is sent to it, and what it has not taken when it   *)
(* unregisters is lost or kept. What an answer contains is left out.       *)
(***************************************************************************)
EXTENDS Naturals, Sequences, FiniteSets

CONSTANTS
  Tasks,      (* threads that may run dns_server_task at the same time     *)
  NoTask,     (* no thread                                                 *)
  MaxPhones,  (* max_connection of the access point                        *)
  Capacity,   (* queue_length of wifiman_msg_init                          *)
  Deletes     (* DELETE /connect.json is called                            *)

ASSUME NoTaskAssumption == NoTask \notin Tasks
ASSUME BoundsAssumption ==
  MaxPhones \in Nat /\ Capacity \in Nat /\ Deletes \in BOOLEAN

ApEvents == {"joined", "left", "assigned"}
ApBits == {"AP_STA_CONNECTED", "AP_STA_IP_ASSIGNED"}
Signals == {"STOP", "FEED"}

(* Where a thread is in dns_server_task, between its registration and the   *)
(* loop, in the loop, and on its way out.                                   *)
Starting == {"socket", "bind", "alloc", "watch", "arm"}
Serving == {"signals", "request"}
Ending == {"unwatch", "disarm", "close", "unregister"}
Registered == Starting \cup Serving \cup Ending

VARIABLES
  phones,     (* phones that are on the access point                       *)
  queue,      (* the messages about them                                   *)
  apBits,     (* their bits of the event group                             *)
  wifi,       (* WIFI_MANAGER_WIFI_CONNECTED_BIT                           *)
  pc,         (* where each thread is                                      *)
  owner,      (* the thread registered with g_p_dns_server_sig             *)
  pending,    (* the signals it has not taken                              *)
  socket,     (* each thread's socket                                      *)
  watched,    (* the threads the task watchdog watches                     *)
  timer       (* the feed timer, in its static memory                      *)

air == <<phones, queue, apBits, wifi>>
held == <<socket, watched, timer>>
vars == <<air, pc, owner, pending, held>>

Init ==
  /\ phones = 0 /\ queue = <<>> /\ apBits = {} /\ wifi \in BOOLEAN
  /\ pc = [t \in Tasks |-> "none"]
  /\ owner = NoTask /\ pending = {}
  /\ socket = [t \in Tasks |-> "none"]
  /\ watched = {} /\ timer = "none"

-----------------------------------------------------------------------------
(* The access point and the station. *)

(* Mutated form: sends to a full queue. *)
TellFreely(e) == queue' = Append(queue, e)

Tell(e) == Len(queue) < Capacity /\ queue' = Append(queue, e)

(* WIFI_EVENT_AP_STACONNECTED, WIFI_EVENT_AP_STADISCONNECTED and            *)
(* IP_EVENT_AP_STAIPASSIGNED: the event loop sends and waits for room.      *)
PhoneJoins ==
  /\ phones < MaxPhones
  /\ phones' = phones + 1
  /\ Tell("joined")
  /\ UNCHANGED <<apBits, wifi, pc, owner, pending, held>>

PhoneLeaves ==
  /\ phones > 0
  /\ phones' = phones - 1
  /\ Tell("left")
  /\ UNCHANGED <<apBits, wifi, pc, owner, pending, held>>

PhoneGetsAddress ==
  /\ phones > 0
  /\ Tell("assigned")
  /\ UNCHANGED <<phones, apBits, wifi, pc, owner, pending, held>>

(* The bit the handlers of the station set and clear. *)
WifiChanges ==
  /\ wifi' = ~wifi
  /\ UNCHANGED <<phones, queue, apBits, pc, owner, pending, held>>

-----------------------------------------------------------------------------
(* dns_server_start and dns_server_stop, and their callers. *)

(* A new thread, unless os_task_create_finite_without_param fails; the      *)
(* caller does not look at the result.                                      *)
DnsStart ==
  \/ \E t \in Tasks : pc[t] = "none" /\ pc' = [pc EXCEPT ![t] = "created"]
  \/ UNCHANGED pc

DnsStop == pending' = IF owner = NoTask THEN pending ELSE pending \cup {"STOP"}

Take(e) == queue # <<>> /\ Head(queue) = e /\ queue' = Tail(queue)

(* wifi_handle_ev_ap_sta_connected; its INITIAL_CONNECTION bit is in        *)
(* StaConnection.                                                           *)
HandleJoined ==
  /\ Take("joined")
  /\ apBits' = {"AP_STA_CONNECTED"}
  /\ IF wifi THEN UNCHANGED pc ELSE DnsStart
  /\ UNCHANGED <<phones, wifi, owner, pending, held>>

HandleLeft ==
  /\ Take("left")
  /\ apBits' = {}
  /\ DnsStop
  /\ UNCHANGED <<phones, wifi, pc, owner, held>>

HandleAssigned ==
  /\ Take("assigned")
  /\ apBits' = apBits \cup {"AP_STA_IP_ASSIGNED"}
  /\ UNCHANGED <<phones, wifi, pc, owner, pending, held>>

Handle == HandleJoined \/ HandleLeft \/ HandleAssigned

(* DELETE /connect.json, in the HTTP server's thread. *)
DeleteConnect ==
  /\ Deletes
  /\ DnsStop
  /\ UNCHANGED <<air, pc, owner, held>>

-----------------------------------------------------------------------------
(* dns_server_task. *)

Goto(t, from, to) == pc[t] = from /\ pc' = [pc EXCEPT ![t] = to]

(* Mutated form: the test for another thread is left out. *)
RegisterAnyway(t) ==
  /\ Goto(t, "created", "socket")
  /\ owner' = t
  /\ UNCHANGED <<air, pending, held>>

Register(t) ==
  /\ Goto(t, "created", "socket")
  /\ owner = NoTask
  /\ owner' = t
  /\ UNCHANGED <<air, pending, held>>

(* "Another DNS-Server is already working - finish current thread" *)
GiveUp(t) ==
  /\ Goto(t, "created", "none")
  /\ owner # NoTask
  /\ UNCHANGED <<air, owner, pending, held>>

(* socket and setsockopt; the first failure has nothing to close. *)
OpenSocket(t) ==
  /\ \/ Goto(t, "socket", "bind") /\ socket' = [socket EXCEPT ![t] = "open"]
     \/ Goto(t, "socket", "close") /\ socket' = [socket EXCEPT ![t] = "open"]
     \/ Goto(t, "socket", "unregister") /\ UNCHANGED socket
  /\ UNCHANGED <<air, owner, pending, watched, timer>>

PortIsTaken == \E u \in Tasks : socket[u] = "bound"

(* Mutated form: a thread that cannot bind ends as http_server_task does. *)
BindAndLeave(t) ==
  /\ \/ /\ ~PortIsTaken
        /\ Goto(t, "bind", "alloc")
        /\ socket' = [socket EXCEPT ![t] = "bound"]
     \/ Goto(t, "bind", "none") /\ UNCHANGED socket
  /\ UNCHANGED <<air, owner, pending, watched, timer>>

(* bind may fail for other reasons than a port in use. *)
Bind(t) ==
  /\ \/ /\ ~PortIsTaken
        /\ Goto(t, "bind", "alloc")
        /\ socket' = [socket EXCEPT ![t] = "bound"]
     \/ Goto(t, "bind", "close") /\ UNCHANGED socket
  /\ UNCHANGED <<air, owner, pending, watched, timer>>

(* The buffer of the requests, and the timer in its static memory. *)
Allocate(t) ==
  /\ \/ Goto(t, "alloc", "watch") /\ timer' = "created"
     \/ Goto(t, "alloc", "close") /\ UNCHANGED timer
  /\ UNCHANGED <<air, owner, pending, socket, watched>>

(* dns_server_wdt_add_and_start *)
Watch(t) ==
  /\ Goto(t, "watch", "arm")
  /\ watched' = watched \cup {t}
  /\ UNCHANGED <<air, owner, pending, socket, timer>>

Arm(t) ==
  /\ Goto(t, "arm", "signals")
  /\ timer' = "armed"
  /\ UNCHANGED <<air, owner, pending, socket, watched>>

(* The timer daemon sends the signal. *)
TimerFires ==
  /\ timer = "armed" /\ owner # NoTask
  /\ pending' = pending \cup {"FEED"}
  /\ UNCHANGED <<air, pc, owner, held>>

(* Mutated form: of two signals only the first that is found is looked at. *)
TakeOneSignal(t) ==
  /\ Goto(t, "signals", IF pending = {"STOP"} THEN "unwatch" ELSE "request")
  /\ pending' = {}
  /\ UNCHANGED <<air, owner, held>>

(* os_signal_wait_with_timeout and dns_server_handle_sig_events: all that   *)
(* have come are taken, and STOP ends the loop.                             *)
TakeSignals(t) ==
  /\ Goto(t, "signals", IF "STOP" \in pending THEN "unwatch" ELSE "request")
  /\ pending' = {}
  /\ UNCHANGED <<air, owner, held>>

(* dns_server_handle_req: an answer, or nothing within a second. *)
HandleReq(t) ==
  /\ Goto(t, "request", "signals")
  /\ UNCHANGED <<air, owner, pending, held>>

(* Mutated form: the timer goes first. *)
DisarmWatched(t) ==
  /\ Goto(t, "unwatch", "disarm")
  /\ timer' = "none"
  /\ UNCHANGED <<air, owner, pending, socket, watched>>

Unwatch(t) ==
  /\ Goto(t, "unwatch", "disarm")
  /\ watched' = watched \ {t}
  /\ UNCHANGED <<air, owner, pending, socket, timer>>

Disarm(t) ==
  /\ Goto(t, "disarm", "close")
  /\ timer' = "none"
  /\ UNCHANGED <<air, owner, pending, socket, watched>>

(* Mutated form: unregisters before the socket is closed. *)
CloseLast(t) ==
  /\ Goto(t, "close", "unregister")
  /\ owner' = NoTask
  /\ UNCHANGED <<air, pending, held>>

Close(t) ==
  /\ Goto(t, "close", "unregister")
  /\ socket' = [socket EXCEPT ![t] = "none"]
  /\ UNCHANGED <<air, owner, pending, watched, timer>>

Unregister(t) ==
  /\ Goto(t, "unregister", "none")
  /\ owner' = NoTask
  /\ pending' \in {pending, {}}
  /\ UNCHANGED <<air, held>>

TaskStep(t) ==
  \/ Register(t) \/ GiveUp(t) \/ OpenSocket(t) \/ Bind(t) \/ Allocate(t) \/ Watch(t) \/ Arm(t)
  \/ TakeSignals(t) \/ HandleReq(t)
  \/ Unwatch(t) \/ Disarm(t) \/ Close(t) \/ Unregister(t)

Next ==
  \/ PhoneJoins \/ PhoneLeaves \/ PhoneGetsAddress \/ WifiChanges
  \/ Handle \/ DeleteConnect \/ TimerFires
  \/ \E t \in Tasks : TaskStep(t)

(* The threads run; phones, failures and the timer need not do anything. *)
Fairness == WF_vars(Handle) /\ \A t \in Tasks : WF_vars(TaskStep(t))

Spec == Init /\ [][Next]_vars
FairSpec == Spec /\ Fairness

-----------------------------------------------------------------------------
(* Properties. *)

TypeOK ==
  /\ phones \in 0..MaxPhones
  /\ queue \in Seq(ApEvents) /\ Len(queue) <= Capacity
  /\ apBits \subseteq ApBits
  /\ wifi \in BOOLEAN
  /\ pc \in [Tasks -> Registered \cup {"none", "created"}]
  /\ owner \in Tasks \cup {NoTask}
  /\ pending \subseteq Signals
  /\ socket \in [Tasks -> {"none", "open", "bound"}]
  /\ watched \subseteq Tasks
  /\ timer \in {"none", "created", "armed"}

(* dns_server_task, lines 373-456: however starts, stops and failures mix,  *)
(* the threads past their registration are one, the registered one; no way  *)
(* out of the function leaves the registration behind.                      *)
OneServer == \A t \in Tasks : pc[t] \in Registered <=> owner = t

(* Everything a thread took is given back before another may register: port *)
(* 53, its place in the task watchdog, the static memory of the timer       *)
(* (lines 381-456).                                                         *)
NothingLeft ==
  /\ \A t \in Tasks : socket[t] # "none" \/ t \in watched => owner = t
  /\ owner = NoTask => timer = "none"

(* dns_server_wdt_add_and_start and lines 447-452: the watchdog never waits *)
(* for a thread that ends, and while it waits the feed timer exists, armed  *)
(* but for the instant before it is started. If it did not, the watchdog    *)
(* would reset the device.                                                  *)
WatchedIsFed ==
  \A t \in watched : /\ pc[t] \in Serving \cup {"arm", "unwatch"}
                     /\ timer = IF pc[t] = "arm" THEN "created" ELSE "armed"

(* dns_server_stop, line 138: a server that was running when it was told to *)
(* stop stops, though the feed signal comes with the other, and whether or  *)
(* not it was already serving.                                              *)
StopIsObeyed ==
  \A t \in Tasks : (owner = t /\ "STOP" \in pending) ~> owner # t

IsEnding == \E t \in Tasks : pc[t] \in Ending
IsServing == \E t \in Tasks : pc[t] \in Serving

(* dns_server_start: after a start a server serves, unless one is being     *)
(* stopped or could not be set up: no earlier failure keeps later threads   *)
(* out.                                                                     *)
StartIsObeyed ==
  \A t \in Tasks : pc[t] = "created" ~> IsServing \/ IsEnding \/ "STOP" \in pending
=============================================================================
