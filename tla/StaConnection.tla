--------------------------- MODULE StaConnection ---------------------------
(***************************************************************************)
(* The Wi-Fi station: the handlers of wifi_manager_handle_msg.c that       *)
(* connect, disconnect, retry and report, the threads that send to them    *)
(* (the callers of the API, the ESP event loop, the reconnect timer) and   *)
(* the Wi-Fi driver behind esp_wifi_connect and esp_wifi_disconnect.       *)
(*                                                                         *)
(* A handler is one action up to its sends: only the wifi_manager task     *)
(* runs handlers, and what other threads change meanwhile (the CMD and ETH *)
(* bits, the JSON status, the configuration) is read once in a handler.    *)
(* What it sends at its end, and what the other threads do, are scripts of *)
(* single steps. Waiting for room in the queue is the subject of WifiMsg:  *)
(* here the queue is as long as the bounds on calls and faults make it.    *)
(***************************************************************************)
EXTENDS Naturals, Sequences, FiniteSets

CONSTANTS
  Clients,    (* threads that call the API                                 *)
  Task,       (* the wifi_manager task                                     *)
  Loop,       (* the ESP event loop                                        *)
  Timer,      (* the timer daemon                                          *)
  Ssids,      (* networks with their passwords                             *)
  NoSsid,     (* no network                                                *)
  Calls,      (* the API calls made in the instance                        *)
  MaxCalls,   (* bound: calls made                                         *)
  MaxFaults,  (* bound: failures of the driver and links that are lost     *)
  MaxEvents,  (* bound: calls and failures together                        *)
  MayRefuse   (* esp_wifi_set_config or esp_wifi_connect may return errors *)

ASSUME ActorsAssumption ==
  /\ Task \notin Clients /\ Loop \notin Clients /\ Timer \notin Clients
  /\ Task # Loop /\ Task # Timer /\ Loop # Timer
  /\ NoSsid \notin Ssids
  /\ MaxCalls \in Nat /\ MaxFaults \in Nat /\ MaxEvents \in Nat /\ MayRefuse \in BOOLEAN
ASSUME CallsAssumption ==
  Calls \subseteq {"connect", "delete", "disconnect", "restore", "wps", "eth", "eth_link"}

Actors == Clients \cup {Task, Loop, Timer}
Networks == Ssids \cup {NoSsid}

(* ORDER_CONNECT_STA with its connection_request_made_by_code_e. *)
ConnectOrders == {"connect_user", "connect_auto", "connect_restore", "connect_wps"}
(* WIFI_EVENT_STA_DISCONNECTED by its reason: esp_wifi_disconnect was       *)
(* called, WIFI_REASON_MIC_FAILURE, or any other.                           *)
Losses == {"left", "lost_mic", "lost"}
LinkEvents == Losses \cup {"got_ip"}
Events == LinkEvents \cup {"ap_client"}
Messages == ConnectOrders \cup Events
             \cup {"disconnect_sta", "connect_eth", "disconnect_eth", "enable_wps", "disable_wps"}

(* The event group, without the bits of scanning and of the access point. *)
Bits == {"WIFI_CONNECTED", "ETH_CONNECTED", "REQUEST_STA_CONNECT", "REQUEST_RESTORE_STA",
         "REQUEST_DISCONNECT", "STA_ACTIVE", "INITIAL_CONNECTION", "CMD_STA_CONNECT"}

VARIABLES
  queue,      (* messages to the wifi_manager task                         *)
  bits,       (* g_p_wifi_manager_event_group                              *)
  wps,        (* g_wifi_wps_enabled                                        *)
  timer,      (* the reconnect timer is armed                              *)
  drv,        (* the driver: "idle", "connecting" or "up"                  *)
  air,        (* driver events the event loop has not taken yet            *)
  config,     (* SSID of the configuration in memory                       *)
  saved,      (* SSID of the configuration in NVS                          *)
  json,       (* update_reason_code and SSID of json_network_info          *)
  told,       (* the application was last told that the station is up      *)
  todo,       (* what each thread has still to do                          *)
  calls,      (* calls made                                                *)
  faults      (* failures so far                                           *)

radio  == <<drv, air>>
status == <<json, told>>
store  == <<config, saved>>
bounds == <<calls, faults>>
vars == <<queue, bits, wps, timer, radio, store, status, todo, bounds>>

(* wifi_manager_init has returned: asked to connect or not, with a network  *)
(* configured or not.                                                       *)
Init ==
  /\ \E ask \in BOOLEAN, s \in Networks :
       /\ config = s /\ saved = s
       /\ queue = IF ask /\ s # NoSsid THEN <<"connect_restore">> ELSE <<>>
       /\ bits = (IF ask THEN {"INITIAL_CONNECTION"} ELSE {})
                   \cup (IF ask /\ s # NoSsid THEN {"CMD_STA_CONNECT"} ELSE {})
  /\ wps = FALSE /\ timer = FALSE
  /\ drv = "idle" /\ air = <<>>
  /\ json = [reason |-> "undef", ssid |-> NoSsid]
  /\ told = FALSE
  /\ todo = [a \in Actors |-> <<>>]
  /\ calls = 0 /\ faults = 0

-----------------------------------------------------------------------------
(* What the threads do, as scripts of steps. *)

SetConfig(s) == [step |-> "config", arg |-> s]
ClearJson    == [step |-> "clear",  arg |-> ""]
SetReason    == [step |-> "reason", arg |-> ""]
SetCmd       == [step |-> "cmd",    arg |-> ""]
Send(m)      == [step |-> "send",   arg |-> m]
SendDrop     == [step |-> "drop",   arg |-> ""]
EthBits(up)  == [step |-> "eth",    arg |-> up]
EthJson(up)  == [step |-> "ethjson", arg |-> up]
Reconnect    == [step |-> "reconnect", arg |-> ""]

(* Mutated form: CMD_STA_CONNECT is set after the order is sent. *)
SendConnectSwapped(m) == <<Send(m), SetCmd>>

(* wifiman_msg_send_cmd_connect_sta: the bit is set before the order is     *)
(* sent, and cleared by its handler.                                        *)
SendConnect(m) == <<SetCmd, Send(m)>>

(* wifi_manager_connect_async and connect_async_by_wps: nothing asks        *)
(* whether a network is configured.                                         *)
ConnectAsync(m) == <<ClearJson>> \o SendConnect(m)

(* POST /connect.json sets the network it names, whose SSID may be empty,   *)
(* unless it names the one that is configured and no password.              *)
Configurations == {<<>>} \cup {<<SetConfig(s)>> : s \in Networks}
PostConnect(conf) == conf \o <<ClearJson>> \o ConnectAsync("connect_user")

(* The calls a client may make: "restore" is wifi_manager_reconnect_sta,    *)
(* alone or at the end of wifi_manager_reconfigure.                         *)
ScriptsOf(call) ==
  CASE call = "connect"    -> {ConnectAsync("connect_user")}
                                \cup {PostConnect(conf) : conf \in Configurations}
    [] call = "delete"     -> {<<Send("disable_wps"), SetReason, SendDrop>>}
    [] call = "disconnect" -> {<<Send("disconnect_sta")>>}
    [] call = "restore"    -> {conf \o <<Reconnect>> : conf \in Configurations}
    [] call = "wps"        -> {<<Send("enable_wps")>>}
    [] call = "eth"        -> {<<Send("connect_eth")>>}
    [] call = "eth_link"   -> {<<EthBits(up), EthJson(up)>> : up \in BOOLEAN}

(* A client calls the API. *)
Call(c) ==
  /\ todo[c] = <<>>
  /\ calls < MaxCalls /\ calls + faults < MaxEvents
  /\ calls' = calls + 1
  /\ \E call \in Calls : \E script \in ScriptsOf(call) :
       todo' = [todo EXCEPT ![c] = script]
  /\ UNCHANGED <<queue, bits, wps, timer, radio, store, status, faults>>

Doing(a, step) == todo[a] # <<>> /\ Head(todo[a]).step = step
Arg(a) == Head(todo[a]).arg
Done(a) == todo' = [todo EXCEPT ![a] = Tail(@)]

(* wifiman_config_sta_set_ssid_and_password *)
DoConfig(a) ==
  /\ Doing(a, "config") /\ Done(a)
  /\ config' = Arg(a)
  /\ UNCHANGED <<queue, bits, wps, timer, radio, saved, status, bounds>>

(* json_network_info_clear *)
DoClear(a) ==
  /\ Doing(a, "clear") /\ Done(a)
  /\ json' = [reason |-> "undef", ssid |-> NoSsid]
  /\ UNCHANGED <<queue, bits, wps, timer, radio, store, told, bounds>>

(* json_network_info_set_reason_user_disconnect *)
DoReason(a) ==
  /\ Doing(a, "reason") /\ Done(a)
  /\ json' = [json EXCEPT !.reason = "user_disconnect"]
  /\ UNCHANGED <<queue, bits, wps, timer, radio, store, told, bounds>>

(* wifi_manager_reconnect_sta: only for a configured network. *)
DoReconnect(a) ==
  /\ Doing(a, "reconnect")
  /\ todo' = [todo EXCEPT ![a] = IF config = NoSsid THEN <<>>
                                 ELSE SendConnect("connect_restore")]
  /\ UNCHANGED <<queue, bits, wps, timer, radio, store, status, bounds>>

DoCmd(a) ==
  /\ Doing(a, "cmd") /\ Done(a)
  /\ bits' = bits \cup {"CMD_STA_CONNECT"}
  /\ UNCHANGED <<queue, wps, timer, radio, store, status, bounds>>

DoSend(a) ==
  /\ Doing(a, "send") /\ Done(a)
  /\ queue' = Append(queue, Arg(a))
  /\ UNCHANGED <<bits, wps, timer, radio, store, status, bounds>>

(* DELETE /connect.json disconnects what it finds connected. *)
DoDrop(a) ==
  /\ Doing(a, "drop") /\ Done(a)
  /\ queue' = Append(queue, IF "ETH_CONNECTED" \in bits THEN "disconnect_eth"
                                                       ELSE "disconnect_sta")
  /\ UNCHANGED <<bits, wps, timer, radio, store, status, bounds>>

(* wifi_manager_update_network_connection_info for Ethernet: no SSID. *)
DoEthBits(a) ==
  /\ Doing(a, "eth") /\ Done(a)
  /\ bits' = IF Arg(a) THEN bits \cup {"ETH_CONNECTED"}
                       ELSE bits \ {"ETH_CONNECTED", "WIFI_CONNECTED"}
  /\ UNCHANGED <<queue, wps, timer, radio, store, status, bounds>>

DoEthJson(a) ==
  /\ Doing(a, "ethjson") /\ Done(a)
  /\ json' = [reason |-> IF Arg(a) THEN "ok" ELSE "lost", ssid |-> NoSsid]
  /\ UNCHANGED <<queue, bits, wps, timer, radio, store, told, bounds>>

Step(a) == \/ DoConfig(a) \/ DoClear(a) \/ DoReason(a) \/ DoCmd(a) \/ DoSend(a)
           \/ DoDrop(a) \/ DoEthBits(a) \/ DoEthJson(a) \/ DoReconnect(a)

(* wifi_manager_timer_cb_reconnect *)
TimerFires ==
  /\ timer /\ todo[Timer] = <<>>
  /\ timer' = FALSE
  /\ todo' = [todo EXCEPT ![Timer] = SendConnect("connect_auto")]
  /\ UNCHANGED <<queue, bits, wps, radio, store, status, bounds>>

(* wifi_manager_event_handler *)
Deliver ==
  /\ todo[Loop] = <<>>
  /\ air # <<>>
  /\ queue' = Append(queue, Head(air))
  /\ air' = Tail(air)
  /\ UNCHANGED <<bits, wps, timer, drv, store, status, todo, bounds>>

(* wifi_manager_event_handler_on_wps_er_success, with the credentials of    *)
(* one network (already set in the driver) or with those of several.        *)
WpsSuccess(several) ==
  /\ wps /\ todo[Loop] = <<>>
  /\ wps' = FALSE
  /\ \E s \in Ssids :
       todo' = [todo EXCEPT ![Loop] =
                  IF several THEN <<>> ELSE <<SetConfig(s)>> \o ConnectAsync("connect_wps")]
  /\ UNCHANGED <<queue, bits, timer, radio, store, status, bounds>>

-----------------------------------------------------------------------------
(* The driver. *)

MayFail == faults < MaxFaults /\ calls + faults < MaxEvents

(* esp_wifi_disconnect: an event, if there is something to disconnect. *)
Disconnected ==
  /\ drv' = "idle"
  /\ air' = IF drv = "idle" THEN air ELSE Append(air, "left")

DrvUp ==
  /\ drv = "connecting"
  /\ drv' = "up"
  /\ air' = Append(air, "got_ip")
  /\ UNCHANGED <<queue, bits, wps, timer, store, status, todo, bounds>>

(* A wrong password, an access point out of range, a lost link. *)
DrvDown(e) ==
  /\ drv # "idle"
  /\ MayFail
  /\ faults' = faults + 1
  /\ drv' = "idle"
  /\ air' = Append(air, e)
  /\ UNCHANGED <<queue, bits, wps, timer, store, status, todo, calls>>

(* A phone joins the access point while the first connection is tried. *)
ApClient ==
  /\ "INITIAL_CONNECTION" \in bits
  /\ "ap_client" \notin {air[i] : i \in DOMAIN air} \cup {queue[i] : i \in DOMAIN queue}
  /\ air' = Append(air, "ap_client")
  /\ UNCHANGED <<queue, bits, wps, timer, drv, store, status, todo, bounds>>

-----------------------------------------------------------------------------
(* The handlers. *)

Take(m) ==
  /\ todo[Task] = <<>>
  /\ queue # <<>> /\ Head(queue) = m
  /\ queue' = Tail(queue)

(* What the handler sends at its end. *)
Then(script) == todo' = [todo EXCEPT ![Task] = script]

(* The request bits an ORDER_CONNECT_STA leaves. *)
Requested(r, old) ==
  CASE r \in {"connect_user", "connect_wps"} ->
         (old \ {"REQUEST_RESTORE_STA"}) \cup {"REQUEST_STA_CONNECT"}
    [] r = "connect_restore" -> old \cup {"REQUEST_RESTORE_STA"}
    [] OTHER -> old

(* Already trying or connected: disconnect first. *)
HandleConnectActive(r) ==
  /\ Take(r)
  /\ "STA_ACTIVE" \in bits
  /\ bits' = Requested(r, bits \ {"CMD_STA_CONNECT"}) \cup {"REQUEST_RESTORE_STA"}
  /\ Then(<<Send("disconnect_sta")>>)
  /\ UNCHANGED <<wps, timer, radio, store, status, bounds>>

(* What becomes of the driver: it refuses an empty SSID, and does nothing   *)
(* if it is connected already.                                              *)
Connecting == /\ drv = "idle" /\ config # NoSsid
              /\ drv' = "connecting" /\ UNCHANGED faults
Ignored    == (drv # "idle" \/ config = NoSsid) /\ UNCHANGED <<drv, faults>>
Refused    == /\ MayRefuse /\ MayFail
              /\ faults' = faults + 1
              /\ UNCHANGED drv

(* Mutated form: the order is not marked as handled. *)
HandleConnectUnmarked(r) ==
  /\ Take(r)
  /\ "STA_ACTIVE" \notin bits
  /\ bits' = (Requested(r, bits) \ {"REQUEST_DISCONNECT"}) \cup {"STA_ACTIVE"}
  /\ Connecting \/ Ignored \/ Refused
  /\ UNCHANGED <<wps, timer, air, store, status, todo, calls>>

HandleConnect(r) ==
  /\ Take(r)
  /\ "STA_ACTIVE" \notin bits
  /\ bits' = (Requested(r, bits \ {"CMD_STA_CONNECT"}) \ {"REQUEST_DISCONNECT"})
               \cup {"STA_ACTIVE"}
  /\ Connecting \/ Ignored \/ Refused
  /\ UNCHANGED <<wps, timer, air, store, status, todo, calls>>

(* Mutated form: the station stays active. *)
HandleDisconnectActive ==
  /\ Take("disconnect_sta")
  /\ timer' = FALSE
  /\ Disconnected
  /\ bits' = bits \ {"REQUEST_DISCONNECT"}
  /\ Then(IF "REQUEST_STA_CONNECT" \in bits THEN SendConnect("connect_user") ELSE <<>>)
  /\ UNCHANGED <<wps, store, status, bounds>>

(* REQUEST_DISCONNECT is set and cleared here. *)
HandleDisconnect ==
  /\ Take("disconnect_sta")
  /\ timer' = FALSE
  /\ Disconnected
  /\ bits' = bits \ {"STA_ACTIVE", "REQUEST_DISCONNECT"}
  /\ Then(IF "REQUEST_STA_CONNECT" \in bits THEN SendConnect("connect_user") ELSE <<>>)
  /\ UNCHANGED <<wps, store, status, bounds>>

(* Why the station was disconnected, from the bits. *)
Reconnecting(b) == {"REQUEST_STA_CONNECT", "REQUEST_RESTORE_STA"} \subseteq b
Failed(b) == ~Reconnecting(b) /\ "REQUEST_STA_CONNECT" \in b
Asked(b)  == "REQUEST_STA_CONNECT" \notin b /\ "REQUEST_DISCONNECT" \in b
LostLink(b) == "REQUEST_STA_CONNECT" \notin b /\ "REQUEST_DISCONNECT" \notin b
ReasonOf(b) == CASE Reconnecting(b) \/ Asked(b) -> "user_disconnect"
                 [] Failed(b) -> "failed"
                 [] OTHER -> "lost"

(* Mutated forms: only a connection that was made is retried; the bits are *)
(* read after they were cleared.                                           *)
RetriedOnceMade(b) == LostLink(b) /\ ~wps /\ {"STA_ACTIVE", "WIFI_CONNECTED"} \subseteq b
RetriedTooLate(b) == LostLink(b) /\ ~wps /\ "STA_ACTIVE" \in b \ {"STA_ACTIVE"}

(* A lost link is retried if the station was to be connected. *)
Retried(b) == LostLink(b) /\ ~wps /\ "STA_ACTIVE" \in b

(* Mutated form: WIFI_CONNECTED is left to the Ethernet code. *)
ClearedWithoutLink(b) ==
  {"INITIAL_CONNECTION", "STA_ACTIVE", "ETH_CONNECTED"}
    \cup (IF Failed(b) THEN {"REQUEST_STA_CONNECT"} ELSE {})
    \cup (IF Asked(b) THEN {"REQUEST_DISCONNECT"} ELSE {})

(* What EVENT_STA_DISCONNECTED clears. *)
Cleared(b) ==
  {"INITIAL_CONNECTION", "STA_ACTIVE", "WIFI_CONNECTED", "ETH_CONNECTED"}
    \cup (IF Failed(b) THEN {"REQUEST_STA_CONNECT"} ELSE {})
    \cup (IF Asked(b) THEN {"REQUEST_DISCONNECT"} ELSE {})

(* Mutated forms: the callback is suppressed but for the first connection; *)
(* a failed retry is not reported.                                         *)
HandleLostSilent(e) ==
  /\ Take(e)
  /\ bits' = bits \ Cleared(bits)
  /\ Then(IF Reconnecting(bits) /\ "CMD_STA_CONNECT" \notin bits
            THEN SendConnect("connect_user") ELSE <<>>)
  /\ timer' = (timer \/ Retried(bits))
  /\ IF Retried(bits) /\ e = "lost_mic" THEN Disconnected ELSE UNCHANGED radio
  /\ json' = [reason |-> ReasonOf(bits), ssid |-> config]
  /\ told' = (told /\ {"INITIAL_CONNECTION"} \cap bits = {})
  /\ UNCHANGED <<wps, store, bounds>>

HandleLostUnreported(e) ==
  /\ Take(e)
  /\ bits' = bits \ Cleared(bits)
  /\ Then(IF Reconnecting(bits) /\ "CMD_STA_CONNECT" \notin bits
            THEN SendConnect("connect_user") ELSE <<>>)
  /\ timer' = (timer \/ Retried(bits))
  /\ IF Retried(bits) /\ e = "lost_mic" THEN Disconnected ELSE UNCHANGED radio
  /\ UNCHANGED json
  /\ told' = (told /\ {"WIFI_CONNECTED", "INITIAL_CONNECTION"} \cap bits = {})
  /\ UNCHANGED <<wps, store, bounds>>

HandleLost(e) ==
  /\ Take(e)
  /\ bits' = bits \ Cleared(bits)
  /\ Then(IF Reconnecting(bits) /\ "CMD_STA_CONNECT" \notin bits
            THEN SendConnect("connect_user") ELSE <<>>)
  /\ timer' = (timer \/ Retried(bits))
  /\ IF Retried(bits) /\ e = "lost_mic" THEN Disconnected ELSE UNCHANGED radio
  /\ json' = [reason |-> ReasonOf(bits), ssid |-> config]
  /\ told' = (told /\ {"WIFI_CONNECTED", "INITIAL_CONNECTION"} \cap bits = {})
  /\ UNCHANGED <<wps, store, bounds>>

(* Mutated form: the reconnect timer is not stopped. *)
HandleGotIpTimed ==
  /\ Take("got_ip")
  /\ saved' = IF "REQUEST_RESTORE_STA" \in bits THEN saved ELSE config
  /\ bits' = (bits \ {"REQUEST_STA_CONNECT", "REQUEST_RESTORE_STA"}) \cup {"WIFI_CONNECTED"}
  /\ UNCHANGED timer
  /\ json' = [reason |-> "ok", ssid |-> config]
  /\ told' = TRUE
  /\ UNCHANGED <<wps, radio, config, todo, bounds>>

HandleGotIp ==
  /\ Take("got_ip")
  /\ saved' = IF "REQUEST_RESTORE_STA" \in bits THEN saved ELSE config
  /\ bits' = (bits \ {"REQUEST_STA_CONNECT", "REQUEST_RESTORE_STA"}) \cup {"WIFI_CONNECTED"}
  /\ timer' = FALSE
  /\ json' = [reason |-> "ok", ssid |-> config]
  /\ told' = TRUE
  /\ UNCHANGED <<wps, radio, config, todo, bounds>>

(* ORDER_ENABLE_WPS, which the driver may refuse, and ORDER_DISABLE_WPS. *)
HandleWps ==
  /\ \/ Take("enable_wps") /\ wps' \in {wps, TRUE}
     \/ Take("disable_wps") /\ wps' = FALSE
  /\ UNCHANGED <<bits, timer, radio, store, status, todo, bounds>>

(* ORDER_CONNECT_ETH, ORDER_DISCONNECT_ETH, EVENT_AP_STA_CONNECTED *)
HandleOther ==
  /\ \/ Take("connect_eth") /\ bits' = bits \ {"REQUEST_RESTORE_STA"}
     \/ Take("disconnect_eth") /\ UNCHANGED bits
     \/ Take("ap_client") /\ bits' = bits \ {"INITIAL_CONNECTION"}
  /\ UNCHANGED <<wps, timer, radio, store, status, todo, bounds>>

-----------------------------------------------------------------------------
Handle ==
  \/ \E r \in ConnectOrders : HandleConnectActive(r) \/ HandleConnect(r)
  \/ HandleDisconnect
  \/ \E e \in Losses : HandleLost(e)
  \/ HandleGotIp \/ HandleWps \/ HandleOther

Next ==
  \/ \E c \in Clients : Call(c)
  \/ \E a \in Actors : Step(a)
  \/ TimerFires
  \/ Deliver
  \/ \E several \in BOOLEAN : WpsSuccess(several)
  \/ DrvUp
  \/ \E e \in {"lost", "lost_mic"} : DrvDown(e)
  \/ ApClient
  \/ Handle

(* The task, the event loop, the timer and the callers run; a connection   *)
(* that is being made ends. Calls and failures need not happen.            *)
Fairness ==
  /\ WF_vars(Handle) /\ WF_vars(Deliver) /\ WF_vars(TimerFires) /\ WF_vars(DrvUp)
  /\ \A a \in Actors : WF_vars(Step(a))

Spec == Init /\ [][Next]_vars
FairSpec == Spec /\ Fairness

-----------------------------------------------------------------------------
(* Properties. *)

(* The steps and reasons of TypeOK, and a step that sends an order to      *)
(* connect.                                                                *)
ConnectItem(x) == x.step = "send" /\ x.arg \in ConnectOrders
Steps == {"config", "clear", "reason", "cmd", "send", "drop", "eth", "ethjson", "reconnect"}
Reasons == {"undef", "ok", "failed", "user_disconnect", "lost"}

(* The variables have their types, and no thread sets CMD_STA_CONNECT but  *)
(* with the order to connect it announces as its next step.                *)
TypeOK ==
  /\ queue \in Seq(Messages)
  /\ bits \subseteq Bits
  /\ wps \in BOOLEAN /\ timer \in BOOLEAN /\ told \in BOOLEAN
  /\ drv \in {"idle", "connecting", "up"}
  /\ air \in Seq(Events)
  /\ config \in Networks /\ saved \in Networks
  /\ json \in [reason : Reasons, ssid : Networks]
  /\ \A a \in Actors : \A i \in DOMAIN todo[a] :
       /\ todo[a][i].step \in Steps
       /\ todo[a][i].step = "cmd" => i + 1 \in DOMAIN todo[a] /\ ConnectItem(todo[a][i + 1])
  /\ calls \in 0..MaxCalls /\ faults \in 0..MaxFaults

Elements(s) == {s[i] : i \in DOMAIN s}

(* Everything sent is handled, no retry is pending, the driver is at rest. *)
Quiet ==
  /\ queue = <<>> /\ air = <<>> /\ ~timer /\ drv # "connecting"
  /\ \A a \in Actors : todo[a] = <<>>

(* The newest link event of a sequence, or "bit" if it has none, agrees    *)
(* with the link.                                                          *)
NewestSays(events, bit, up) ==
  /\ (\A i \in DOMAIN events : events[i] \notin LinkEvents) => (bit <=> up)
  /\ \A i \in DOMAIN events :
       /\ events[i] \in LinkEvents
       /\ \A j \in DOMAIN events : j > i => events[j] \notin LinkEvents
       => (events[i] = "got_ip" <=> up)

(* WIFI_CONNECTED follows the driver however late, and around whatever     *)
(* orders, its events are handled: the last event under way, or else the   *)
(* bit, says what the link is. wifi_manager_is_connected_to_wifi is right  *)
(* when all is handled.                                                    *)
ConnectedBitFollowsLink ==
  NewestSays(queue \o air, "WIFI_CONNECTED" \in bits, drv = "up")

(* The callbacks for EVENT_STA_DISCONNECTED that are suppressed are the    *)
(* ones that tell nothing: the application, which only sees callbacks,     *)
(* always agrees with the bit.                                             *)
ToldWhatBitSays == told <=> "WIFI_CONNECTED" \in bits

(* Between two handlers status.json never reports a connection that the bit *)
(* denies, whoever clears or rewrites it. (In EVENT_STA_DISCONNECTED the    *)
(* bit is cleared a moment before the status is rewritten.)                 *)
JsonOkOnlyWhileConnected == json.reason = "ok" => "WIFI_CONNECTED" \in bits

(* The reconnect timer is never left armed behind a connection: it would   *)
(* order a connect of a connected station, that is, first a disconnect.    *)
TimerOnlyWhileDown == timer => "WIFI_CONNECTED" \notin bits

(* CMD_STA_CONNECT, which keeps EVENT_STA_DISCONNECTED from connecting, is *)
(* only set while a connect order really is under way: no reconnection is  *)
(* skipped for one that never comes.                                       *)
CmdBitIsCovered ==
  "CMD_STA_CONNECT" \in bits =>
    \/ Elements(queue) \cap ConnectOrders # {}
    \/ \E a \in Actors : Doing(a, "send") /\ Arg(a) \in ConnectOrders

(* README.md:16, "automatically attempt to re-connect to a previously      *)
(* saved network on boot": an order to connect ends with a connection,     *)
(* however often the attempt fails, unless somebody calls.                 *)
RestoresConnection ==
  Elements(queue) \cap ConnectOrders # {} /\ calls = 0 ~> drv = "up" \/ calls > 0

(* A link that is lost comes back, unless somebody calls.                  *)
LossIsRepaired ==
  drv = "idle" /\ "WIFI_CONNECTED" \in bits /\ calls = 0 ~> drv = "up" \/ calls > 0

(* Two orders to connect are under way at once. *)
OrdersUnderWay ==
  {<<Task, i>> : i \in {i \in DOMAIN queue : queue[i] \in ConnectOrders}}
    \cup {<<a, 0>> : a \in {a \in Actors : \E i \in DOMAIN todo[a] : ConnectItem(todo[a][i])}}
OrdersCross == Cardinality(OrdersUnderWay) > 1

(* The orders that handlers send, retries and reports of them end, or two  *)
(* orders to connect keep crossing, which can disconnect and reconnect     *)
(* without end: one order alone never does, and a disconnection never does.*)
StormNeedsTwoOrders == <>[]Quiet \/ []<>OrdersCross
=============================================================================
