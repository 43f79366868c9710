------------------------------ MODULE WifiLife ------------------------------
(***************************************************************************)
(* The life of the manager: what wifi_manager_start brings up and where it *)
(* may fail, the orders about the access point, and what the task takes    *)
(* down when it is told to stop. A start holds the manager mutex from its  *)
(* second step to its end, as does the end of the task; a caller holds it  *)
(* while it waits for room in the queue. The timers and what the other     *)
(* messages do besides the bits they set and clear are in WifiMsg,         *)
(* StaConnection, WifiScan and DnsServer.                                  *)
(***************************************************************************)
EXTENDS Naturals, Sequences

CONSTANTS
  Callers,      (* threads that call the API                               *)
  Manager,      (* wifi_manager_task, as a holder of the mutex             *)
  NoOne,        (* nobody holds the mutex                                  *)
  NoQueue,      (* gh_wifiman_msg_queue is NULL                            *)
  QueueLength,
  Followed      (* the bits of the event group that the instance follows   *)

ASSUME HoldersAssumption == NoOne \notin Callers \cup {Manager} /\ Manager \notin Callers
ASSUME LengthAssumption == QueueLength \in Nat \ {0}

Orders == {"STOP", "START_AP", "START_AP_BLOCKING", "STOP_AP", "CONNECT"}

ASSUME NoQueueAssumption == NoQueue \notin Seq(Orders)

(* The bits the end of the task clears, and the others.                     *)
EndClears == {"IS_WORKING", "WIFI_CONNECTED", "AP_STA_CONNECTED", "AP_STA_IP_ASSIGNED",
              "AP_STARTED", "REQUEST_STA_CONNECT", "REQUEST_RESTORE_STA", "SCAN",
              "REQUEST_DISCONNECT", "AP_ACTIVE"}
EndKeeps == {"STA_ACTIVE", "ETH_CONNECTED", "INITIAL_CONNECTION", "CMD_STA_CONNECT",
             "BLOCK_REQ_FROM_LAN"}

ASSUME FollowedAssumption ==
  {"IS_WORKING", "STA_ACTIVE"} \subseteq Followed /\ Followed \subseteq EndClears \cup EndKeeps

(* What is created once and kept.                                           *)
Kept == {"mutex", "loop", "ap", "sta", "dns", "http"}

(* The steps of wifi_manager_init_start_wifi that may fail.                 *)
WifiSteps == <<"queue", "wifi_events", "got_ip", "ap_ip", "driver", "station",
               "hostname", "task">>

(* What the end of the task takes down besides the queue.                   *)
Handlers == {"wifi_events", "got_ip", "ap_ip"}
Parts == Handlers \cup {"driver", "watchdog"}

Body == {"ecdh", "init", "loop", "netif", "servers", "wifi", "connect"}

VARIABLES
  pc,     (* where each caller is; an order when it is about to send it    *)
  owner,  (* who holds the manager mutex                                   *)
  bits,   (* of the event group                                            *)
  made,   (* what was created once                                         *)
  up,     (* what is up                                                    *)
  queue,
  mode,   (* of the Wi-Fi driver                                           *)
  task    (* wifi_manager_task                                             *)

vars == <<pc, owner, bits, made, up, queue, mode, task>>

TypeOK ==
  /\ pc \in [Callers -> {"idle", "lock"} \cup Body \cup Orders]
  /\ owner \in Callers \cup {Manager, NoOne}
  /\ bits \subseteq Followed
  /\ made \subseteq Kept /\ up \subseteq Parts
  /\ queue = NoQueue \/ (queue \in Seq(Orders) /\ Len(queue) <= QueueLength)
  /\ mode \in {"none", "STA", "APSTA"}
  /\ task \in {"none", "created", "running", "ending", "down", "ended"}

Init ==
  /\ pc = [c \in Callers |-> "idle"]
  /\ owner = NoOne /\ bits = {} /\ made = {} /\ up = {}
  /\ queue = NoQueue /\ mode = "none" /\ task = "none"

(* xEventGroupClearBits and xEventGroupSetBits.                             *)
Update(clear, set) == bits' = (bits \ clear) \cup (set \cap Followed)

Goto(c, from, to) == pc[c] = from /\ pc' = [pc EXCEPT ![c] = to]

-----------------------------------------------------------------------------
(* wifi_manager_start. *)

(* The mutex is created before it can be locked, without protection: the    *)
(* first start is taken to be made while no other is.                       *)
Enter(c) ==
  /\ Goto(c, "idle", "lock")
  /\ made' = made \cup {"mutex"}
  /\ UNCHANGED <<owner, bits, up, queue, mode, task>>

Lock(c) ==
  /\ Goto(c, "lock", "ecdh")
  /\ owner = NoOne /\ owner' = c
  /\ UNCHANGED <<bits, made, up, queue, mode, task>>

(* Any failure: the bit is cleared, whoever set it.                         *)
Fail(c, from) ==
  /\ Goto(c, from, "idle")
  /\ owner' = NoOne
  /\ Update({"IS_WORKING"}, {})

(* http_server_ecdh_init is given a generator of random numbers, or not.    *)
Ecdh(c) ==
  /\ \/ Fail(c, "ecdh")
     \/ Goto(c, "ecdh", "init") /\ UNCHANGED <<owner, bits>>
  /\ UNCHANGED <<made, up, queue, mode, task>>

(* The first part of wifi_manager_init: not while another is working.       *)
Claim(c) ==
  /\ \/ "IS_WORKING" \in bits /\ Fail(c, "init")
     \/ /\ "IS_WORKING" \notin bits
        /\ Goto(c, "init", "loop")
        /\ Update({}, {"IS_WORKING"}) /\ owner' = owner
  /\ UNCHANGED <<made, up, queue, mode, task>>

(* Mutated form: that the event loop exists is no failure.                  *)
CreateLoopAnyway(c) ==
  /\ \/ Fail(c, "loop") /\ made' = made
     \/ Goto(c, "loop", "netif") /\ made' = made \cup {"loop"} /\ UNCHANGED <<owner, bits>>
  /\ UNCHANGED <<up, queue, mode, task>>

(* esp_event_loop_create_default fails when the loop exists, and may fail   *)
(* else. Nothing deletes it.                                                *)
CreateLoop(c) ==
  /\ \/ Fail(c, "loop") /\ made' = made
     \/ /\ "loop" \notin made
        /\ Goto(c, "loop", "netif")
        /\ made' = made \cup {"loop"} /\ UNCHANGED <<owner, bits>>
  /\ UNCHANGED <<up, queue, mode, task>>

CreateNetifs(c) ==
  /\ \/ \E got \in {{}, {"ap"}} : Fail(c, "netif") /\ made' = made \cup got
     \/ /\ Goto(c, "netif", "servers")
        /\ made' = made \cup {"ap", "sta"} /\ UNCHANGED <<owner, bits>>
  /\ UNCHANGED <<up, queue, mode, task>>

(* dns_server_init and http_server_init, and the HTTP server is started.    *)
InitServers(c) ==
  /\ Goto(c, "servers", "wifi")
  /\ made' = made \cup {"dns", "http"}
  /\ UNCHANGED <<owner, bits, up, queue, mode, task>>

(* wifi_manager_init_start_wifi gets as far as step n; that it fails is not *)
(* looked at. The access point is configured before the station, and its    *)
(* failure is not looked at either.                                         *)
StartWifi(c) ==
  /\ Goto(c, "wifi", "connect")
  /\ \E n \in 0 .. Len(WifiSteps) :
       LET reached == {WifiSteps[i] : i \in 1 .. n}
       IN  /\ queue' = IF "queue" \in reached THEN << >> ELSE queue
           /\ up' = up \cup (reached \cap Parts)
           /\ mode' \in IF "station" \in reached THEN {"STA"}
                        ELSE IF "driver" \in reached THEN {"none", "APSTA"} ELSE {mode}
           /\ task' = IF "task" \in reached THEN "created" ELSE task
  /\ UNCHANGED <<owner, bits, made>>

(* A connection is asked for, with a network configured, or not. Nobody     *)
(* else can have put anything into the queue so far.                        *)
Connect(c) ==
  /\ Goto(c, "connect", "idle")
  /\ owner' = NoOne
  /\ \/ UNCHANGED <<queue, bits>>
     \/ Update({}, {"INITIAL_CONNECTION"}) /\ UNCHANGED queue
     \/ /\ Update({}, {"INITIAL_CONNECTION", "CMD_STA_CONNECT"})
        /\ queue' = IF queue = NoQueue THEN NoQueue ELSE Append(queue, "CONNECT")
  /\ UNCHANGED <<made, up, mode, task>>

-----------------------------------------------------------------------------
(* The other calls. wifi_manager_stop returns at once before the first      *)
(* start; for the others a caller is taken to know that there was one.      *)

Order(c, o) ==
  /\ "mutex" \in made
  /\ owner = NoOne /\ owner' = c
  /\ Goto(c, "idle", o)
  /\ UNCHANGED <<bits, made, up, queue, mode, task>>

(* The bit that announces an order to connect is set whether there is a     *)
(* queue for it or not.                                                     *)
Send(c) ==
  /\ pc[c] \in Orders
  /\ queue # NoQueue => Len(queue) < QueueLength
  /\ queue' = IF queue = NoQueue THEN queue ELSE Append(queue, pc[c])
  /\ pc' = [pc EXCEPT ![c] = "idle"] /\ owner' = NoOne
  /\ Update({}, IF pc[c] = "CONNECT" THEN {"CMD_STA_CONNECT"} ELSE {})
  /\ UNCHANGED <<made, up, mode, task>>

(* esp_wifi_set_mode, which may fail.                                       *)
SetMode(m) == mode' \in IF "driver" \in up THEN {mode, m} ELSE {mode}

(* wifi_manager_set_config_ap and wifi_manager_set_config_sta configure the *)
(* driver themselves; wifi_manager_reconfigure is one after the other, and  *)
(* an order to connect.                                                     *)
SetConfig ==
  /\ SetMode("APSTA") \/ SetMode("STA")
  /\ UNCHANGED <<pc, owner, bits, made, up, queue, task>>

(* The application reports Ethernet: wifi_manager_update_network_connection_ *)
(* info without an SSID.                                                    *)
ReportEthernet ==
  /\ "mutex" \in made
  /\ \/ Update({}, {"ETH_CONNECTED"})
     \/ Update({"WIFI_CONNECTED", "ETH_CONNECTED"}, {})
  /\ UNCHANGED <<pc, owner, made, up, queue, mode, task>>

(* wifi_manager_event_handler, for WIFI_EVENT_AP_START.                     *)
ApStarts ==
  /\ "wifi_events" \in up /\ mode = "APSTA"
  /\ Update({}, {"AP_STARTED"})
  /\ UNCHANGED <<pc, owner, made, up, queue, mode, task>>

-----------------------------------------------------------------------------
(* wifi_manager_task. *)

TaskStarts ==
  /\ task = "created" /\ task' = "running"
  /\ up' = up \cup {"watchdog"}
  /\ UNCHANGED <<pc, owner, bits, made, queue, mode>>

Take(o) ==
  /\ task = "running" /\ queue # NoQueue /\ queue # << >> /\ Head(queue) = o
  /\ queue' = Tail(queue)
  /\ UNCHANGED <<pc, owner, made, up>>

(* wifi_handle_cmd_start_ap.                                                *)
HandleStartAp(block) ==
  /\ Take(IF block THEN "START_AP_BLOCKING" ELSE "START_AP")
  /\ SetMode("APSTA")
  /\ Update({}, {"AP_ACTIVE"} \cup (IF block THEN {"BLOCK_REQ_FROM_LAN"} ELSE {}))
  /\ task' = task

(* wifi_handle_cmd_stop_ap.                                                 *)
HandleStopAp ==
  /\ Take("STOP_AP")
  /\ SetMode("STA")
  /\ Update({"AP_ACTIVE", "BLOCK_REQ_FROM_LAN"}, {})
  /\ task' = task

(* The bits of ORDER_CONNECT_STA: the request, and the station is active or *)
(* was.                                                                     *)
HandleConnect ==
  /\ Take("CONNECT")
  /\ \E request \in {{}, {"REQUEST_STA_CONNECT"}, {"REQUEST_RESTORE_STA"}} :
       LET cleared == {"CMD_STA_CONNECT"} \cup
             (IF "REQUEST_STA_CONNECT" \in request THEN {"REQUEST_RESTORE_STA"} ELSE {})
       IN  IF "STA_ACTIVE" \in bits
             THEN Update(cleared, request \cup {"REQUEST_RESTORE_STA"})
             ELSE Update(cleared \cup {"REQUEST_DISCONNECT"}, request \cup {"STA_ACTIVE"})
  /\ UNCHANGED <<mode, task>>

(* The other messages, at any time: most come from the driver and the       *)
(* timers. What they clear and set.                                         *)
Requests == {"REQUEST_STA_CONNECT", "REQUEST_RESTORE_STA"}
Lost == {"SCAN", "INITIAL_CONNECTION", "STA_ACTIVE", "WIFI_CONNECTED", "ETH_CONNECTED"}
Effects ==
  [EVENT_STA_GOT_IP          |-> {<<Requests, {"WIFI_CONNECTED"}>>, <<Requests, {}>>},
   EVENT_STA_DISCONNECTED    |-> {<<Lost, {}>>, <<Lost \cup {"REQUEST_STA_CONNECT"}, {}>>,
                                  <<Lost \cup {"REQUEST_DISCONNECT"}, {}>>},
   EVENT_AP_STA_CONNECTED    |-> {<<{"AP_STA_IP_ASSIGNED", "INITIAL_CONNECTION"},
                                    {"AP_STA_CONNECTED"}>>},
   EVENT_AP_STA_DISCONNECTED |-> {<<{"AP_STA_CONNECTED", "AP_STA_IP_ASSIGNED"}, {}>>},
   EVENT_AP_STA_IP_ASSIGNED  |-> {<<{}, {"AP_STA_IP_ASSIGNED"}>>},
   ORDER_DISCONNECT_STA      |-> {<<{"STA_ACTIVE", "REQUEST_DISCONNECT"}, {}>>,
                                  <<{"STA_ACTIVE", "REQUEST_DISCONNECT"}, {"CMD_STA_CONNECT"}>>},
   ORDER_CONNECT_ETH         |-> {<<{"REQUEST_RESTORE_STA"}, {}>>},
   ORDER_START_WIFI_SCAN     |-> {<<{}, {"SCAN"}>>},
   EVENT_SCAN_DONE           |-> {<<{"SCAN"}, {}>>}]

HandleOther ==
  /\ task = "running"
  /\ \E m \in DOMAIN Effects : \E e \in Effects[m] : Update(e[1], e[2])
  /\ UNCHANGED <<pc, owner, made, up, queue, mode, task>>

HandleStop == Take("STOP") /\ task' = "ending" /\ UNCHANGED <<bits, mode>>

(* Mutated form: the bit of the access point stays.                         *)
TaskEndsActive ==
  /\ task = "ending" /\ task' = "down"
  /\ owner = NoOne /\ owner' = Manager
  /\ up' = up \ {"watchdog"}
  /\ Update(EndClears \ {"AP_ACTIVE"}, {})
  /\ UNCHANGED <<pc, made, queue, mode>>

(* The task leaves its loop and waits for the mutex.                        *)
TaskEnds ==
  /\ task = "ending" /\ task' = "down"
  /\ owner = NoOne /\ owner' = Manager
  /\ up' = up \ {"watchdog"}
  /\ Update(EndClears, {})
  /\ UNCHANGED <<pc, made, queue, mode>>

TakeDown ==
  /\ task = "down" /\ task' = "ended"
  /\ up' = up \ (Handlers \cup {"driver"}) /\ mode' = "none"
  /\ queue' = NoQueue /\ owner' = NoOne
  /\ UNCHANGED <<pc, bits, made>>

-----------------------------------------------------------------------------
Starting(c) ==
  \/ Enter(c) \/ Lock(c) \/ Ecdh(c) \/ Claim(c) \/ CreateLoop(c)
  \/ CreateNetifs(c) \/ InitServers(c) \/ StartWifi(c) \/ Connect(c)

Handle == HandleStartAp(TRUE) \/ HandleStartAp(FALSE) \/ HandleStopAp \/ HandleConnect
            \/ HandleOther \/ HandleStop

Next ==
  \/ \E c \in Callers : Starting(c) \/ Send(c) \/ \E o \in Orders : Order(c, o)
  \/ SetConfig \/ ReportEthernet \/ ApStarts
  \/ TaskStarts \/ Handle \/ TaskEnds \/ TakeDown

Spec == Init /\ [][Next]_vars

-----------------------------------------------------------------------------
(* However often the manager is started, fails to start and is stopped, a   *)
(* start that gets to the servers is the first to: dns_server_init and      *)
(* http_server_init would assert (dns_server.c:106, http_server.c:119), and *)
(* a second queue, driver and task would be made beside those there are     *)
(* (wifi_manager_internal.c:537-636). A start clears IS_WORKING also when   *)
(* it is refused (wifi_manager.c:111-115), so that the bit alone, once it   *)
(* was refused, keeps no other start out.                                   *)
InitRunsOnce ==
  \A c \in Callers : pc[c] \in {"netif", "servers"} =>
    {"dns", "http"} \cap made = {} /\ queue = NoQueue /\ up = {} /\ task = "none"

(* When the task has ended (wifi_manager.c:350-393) and no start is at work *)
(* the queue, the driver and the handlers are gone, and those who still     *)
(* ask, the HTTP server among them, are told that the manager does not      *)
(* work, that no access point is active and no phone on it, and that there  *)
(* is no Wi-Fi, whatever orders and events crossed with the order to stop   *)
(* and whatever starts were refused since. Two sorts of bits outlive the    *)
(* end: those that it does not clear (EndKeeps), so that                    *)
(* wifi_manager_is_sta_active may still answer yes, and AP_STARTED, which   *)
(* the event loop may set until its handler is gone.                        *)
EndLeavesOnlyKept ==
  task = "ended" /\ (\A c \in Callers : pc[c] \notin Body) =>
    /\ bits \subseteq EndKeeps \cup {"AP_STARTED"}
    /\ queue = NoQueue /\ up = {} /\ mode = "none"

(* "wifi_manager can be re-started after stopping" (wifi_manager.c:96): a   *)
(* start after the task has ended can create what it needs.                 *)
RestartCanSucceed ==
  \A c \in Callers : pc[c] = "loop" /\ task = "ended" => "loop" \notin made

=============================================================================
