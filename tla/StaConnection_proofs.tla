------------------------ MODULE StaConnection_proofs ------------------------
(***************************************************************************)
(* Safety of StaConnection for every set of calls, networks and bounds.    *)
(***************************************************************************)
EXTENDS StaConnection, SequenceTheorems, TLAPS

LEMMA InitTimer == Init => TimerOnlyWhileDown
BY DEF Init, TimerOnlyWhileDown

(* The handlers: only a lost connection arms the timer, only a new address *)
(* sets WIFI_CONNECTED.                                                    *)
LEMMA HandleTimer ==
  ASSUME TimerOnlyWhileDown, Handle
  PROVE  TimerOnlyWhileDown'
<1> USE DEF TimerOnlyWhileDown
<1>1. ASSUME NEW r \in ConnectOrders, HandleConnectActive(r) \/ HandleConnect(r)
      PROVE  TimerOnlyWhileDown'
  <2>1. timer' = timer
    BY <1>1 DEF HandleConnectActive, HandleConnect
  <2>2. "WIFI_CONNECTED" \in bits' => "WIFI_CONNECTED" \in bits
    BY <1>1 DEF HandleConnectActive, HandleConnect, Requested, ConnectOrders
  <2> QED
    BY <2>1, <2>2
<1>2. CASE HandleDisconnect
  BY <1>2 DEF HandleDisconnect
<1>3. ASSUME NEW e \in Losses, HandleLost(e)
      PROVE  TimerOnlyWhileDown'
  <2>1. "WIFI_CONNECTED" \notin bits'
    BY <1>3 DEF HandleLost, Cleared
  <2> QED
    BY <2>1
<1>4. CASE HandleGotIp
  BY <1>4 DEF HandleGotIp
<1>5. CASE HandleWps
  BY <1>5 DEF HandleWps
<1>6. CASE HandleOther
  BY <1>6 DEF HandleOther
<1> QED
  BY <1>1, <1>2, <1>3, <1>4, <1>5, <1>6 DEF Handle

(* The threads around the task and the driver. *)
LEMMA ActorTimer ==
  ASSUME TimerOnlyWhileDown,
         \/ \E c \in Clients : Call(c)
         \/ \E a \in Actors : Step(a)
         \/ TimerFires \/ Deliver \/ DrvUp \/ ApClient
         \/ \E several \in BOOLEAN : WpsSuccess(several)
         \/ \E e \in {"lost", "lost_mic"} : DrvDown(e)
  PROVE  TimerOnlyWhileDown'
<1> USE DEF TimerOnlyWhileDown
<1>1. CASE \E c \in Clients : Call(c)
  BY <1>1 DEF Call
<1>2. ASSUME NEW a \in Actors, Step(a)
      PROVE  TimerOnlyWhileDown'
  <2>1. CASE DoEthBits(a)
    <3>1. CASE Arg(a)
      BY <2>1, <3>1 DEF DoEthBits
    <3>2. CASE ~Arg(a)
      BY <2>1, <3>2 DEF DoEthBits
    <3> QED
      BY <3>1, <3>2
  <2>2. CASE DoCmd(a)
    BY <2>2 DEF DoCmd
  <2>3. CASE ~DoEthBits(a) /\ ~DoCmd(a)
    BY <1>2, <2>3 DEF Step, DoConfig, DoClear, DoReason, DoSend, DoDrop, DoEthJson,
                     DoReconnect
  <2> QED
    BY <2>1, <2>2, <2>3
<1>3. CASE TimerFires \/ Deliver \/ DrvUp \/ ApClient
  BY <1>3 DEF TimerFires, Deliver, DrvUp, ApClient
<1>4. CASE \E several \in BOOLEAN : WpsSuccess(several)
  BY <1>4 DEF WpsSuccess
<1>5. CASE \E e \in {"lost", "lost_mic"} : DrvDown(e)
  BY <1>5 DEF DrvDown
<1> QED
  BY <1>1, <1>2, <1>3, <1>4, <1>5

(* However calls, events, losses and the timer interleave, the reconnect   *)
(* timer is never armed while WIFI_CONNECTED is set                        *)
(* (wifi_manager.c:189, wifi_manager_handle_msg.c:200).                    *)
THEOREM TimerCorrect == Spec => []TimerOnlyWhileDown
<1>1. TimerOnlyWhileDown /\ [Next]_vars => TimerOnlyWhileDown'
  <2>1. ASSUME TimerOnlyWhileDown, UNCHANGED vars PROVE TimerOnlyWhileDown'
    BY <2>1 DEF vars, TimerOnlyWhileDown
  <2> QED
    BY <2>1, HandleTimer, ActorTimer DEF Next
<1> QED
  BY InitTimer, <1>1, PTL DEF Spec

-----------------------------------------------------------------------------
(* The scripts of the threads. *)

(* What the threads send: orders, the events come from the driver.         *)
Orders == Messages \ LinkEvents

Items == [step : Steps, arg : Networks \cup Messages \cup {""} \cup BOOLEAN]

ItemOK(x) ==
  /\ x.step = "config" => x.arg \in Networks
  /\ x.step = "send" => x.arg \in Orders
  /\ x.step \in {"eth", "ethjson"} => "eth_link" \in Calls

(* A script is a sequence of steps; the bit that announces a connect order *)
(* is set right before the order is sent.                                  *)
ScriptOK(s) ==
  /\ s \in Seq(Items)
  /\ \A i \in 1 .. Len(s) :
       /\ ItemOK(s[i])
       /\ s[i].step = "cmd" => i < Len(s) /\ ConnectItem(s[i + 1])

LEMMA ScriptTail ==
  ASSUME NEW s, ScriptOK(s), s # <<>>
  PROVE  /\ ScriptOK(Tail(s)) /\ Head(s) \in Items /\ ItemOK(Head(s))
         /\ Head(s).step = "cmd" => Tail(s) # <<>> /\ ConnectItem(Head(Tail(s)))
<1>1. s \in Seq(Items) /\ Len(s) \in Nat /\ Len(s) # 0 /\ Head(s) = s[1]
  BY DEF ScriptOK
<1>2. /\ Tail(s) \in Seq(Items) /\ Len(Tail(s)) = Len(s) - 1
      /\ \A i \in 1 .. Len(s) - 1 : Tail(s)[i] = s[i + 1]
  BY <1>1
<1>3. \A i \in 1 .. Len(s) - 1 :
        ItemOK(s[i + 1]) /\ (s[i + 1].step = "cmd" => i + 1 < Len(s) /\ ConnectItem(s[i + 2]))
  BY <1>1 DEF ScriptOK
<1>4. ScriptOK(Tail(s))
  BY <1>1, <1>2, <1>3 DEF ScriptOK
<1>5. Head(s) \in Items /\ ItemOK(Head(s))
  BY <1>1 DEF ScriptOK
<1>6. ASSUME Head(s).step = "cmd"
      PROVE  Tail(s) # <<>> /\ ConnectItem(Head(Tail(s)))
  <2>1. 1 < Len(s) /\ ConnectItem(s[2])
    BY <1>1, <1>6 DEF ScriptOK
  <2>2. Len(Tail(s)) # 0 /\ Tail(s)[1] = s[2]
    BY <1>1, <1>2, <2>1
  <2>3. Tail(s) # <<>> /\ Head(Tail(s)) = Tail(s)[1]
    BY <1>2, <2>2
  <2> QED
    BY <2>1, <2>2, <2>3
<1> QED
  BY <1>4, <1>5, <1>6

LEMMA ScriptConcat ==
  ASSUME NEW a, NEW b, ScriptOK(a), ScriptOK(b)
  PROVE  ScriptOK(a \o b)
<1>1. /\ a \in Seq(Items) /\ b \in Seq(Items) /\ Len(a) \in Nat /\ Len(b) \in Nat
      /\ a \o b \in Seq(Items) /\ Len(a \o b) = Len(a) + Len(b)
      /\ \A i \in 1 .. Len(a) + Len(b) : (a \o b)[i] = IF i <= Len(a) THEN a[i] ELSE b[i - Len(a)]
  BY ConcatProperties DEF ScriptOK
<1>2. ASSUME NEW i \in 1 .. Len(a) + Len(b)
      PROVE  /\ ItemOK((a \o b)[i])
             /\ (a \o b)[i].step = "cmd" => i < Len(a) + Len(b) /\ ConnectItem((a \o b)[i + 1])
  <2>1. CASE i <= Len(a)
    BY <1>1, <2>1 DEF ScriptOK
  <2>2. CASE i > Len(a)
    <3>1. i - Len(a) \in 1 .. Len(b) /\ (a \o b)[i] = b[i - Len(a)]
      BY <1>1, <2>2
    <3>2. i < Len(a) + Len(b) => (a \o b)[i + 1] = b[(i - Len(a)) + 1]
      BY <1>1, <2>2
    <3> QED
      BY <1>1, <2>2, <3>1, <3>2 DEF ScriptOK
  <2> QED
    BY <1>1, <2>1, <2>2
<1> QED
  BY <1>1, <1>2 DEF ScriptOK

LEMMA ItemsOK ==
  /\ SetCmd \in Items /\ ClearJson \in Items /\ SetReason \in Items /\ SendDrop \in Items
  /\ Reconnect \in Items /\ ItemOK(Reconnect) /\ Reconnect.step = "reconnect"
  /\ ItemOK(SetCmd) /\ ItemOK(ClearJson) /\ ItemOK(SetReason) /\ ItemOK(SendDrop)
  /\ SetCmd.step = "cmd" /\ ClearJson.step = "clear"
  /\ SetReason.step = "reason" /\ SendDrop.step = "drop"
  /\ \A s \in Networks : SetConfig(s) \in Items /\ ItemOK(SetConfig(s)) /\ SetConfig(s).step = "config"
  /\ \A m \in Orders : /\ Send(m) \in Items /\ ItemOK(Send(m))
                        /\ Send(m).step = "send" /\ Send(m).arg = m
BY DEF SetCmd, ClearJson, SetReason, SendDrop, Reconnect, SetConfig, Send, Items, Steps, ItemOK, Orders

LEMMA EmptyScript == ScriptOK(<<>>)
BY DEF ScriptOK

LEMMA OneStep ==
  ASSUME NEW x \in Items, ItemOK(x), x.step # "cmd"
  PROVE  ScriptOK(<<x>>)
<1>1. <<x>> \in Seq(Items) /\ Len(<<x>>) = 1 /\ <<x>>[1] = x
  OBVIOUS
<1> QED
  BY <1>1 DEF ScriptOK

LEMMA TwoSteps ==
  ASSUME NEW x \in Items, NEW y \in Items, ItemOK(x), ItemOK(y),
         x.step = "cmd" => ConnectItem(y), y.step # "cmd"
  PROVE  ScriptOK(<<x, y>>)
<1>1. <<x, y>> \in Seq(Items) /\ Len(<<x, y>>) = 2 /\ <<x, y>>[1] = x /\ <<x, y>>[2] = y
  OBVIOUS
<1> QED
  BY <1>1 DEF ScriptOK

LEMMA SendConnectScript ==
  ASSUME NEW m \in ConnectOrders
  PROVE  ScriptOK(SendConnect(m)) /\ SendConnect(m) # <<>>
<1>1. m \in Orders /\ ConnectItem(Send(m))
  BY DEF ConnectItem, Send, Orders, Messages, ConnectOrders, LinkEvents, Losses
<1>2. Send(m).step # "cmd"
  BY DEF Send
<1>3. ScriptOK(<<SetCmd, Send(m)>>)
  BY <1>1, <1>2, ItemsOK, TwoSteps
<1> QED
  BY <1>3 DEF SendConnect

LEMMA ConnectAsyncScript ==
  ASSUME NEW m \in ConnectOrders
  PROVE  ScriptOK(ConnectAsync(m))
<1>1. ScriptOK(<<ClearJson>>)
  BY ItemsOK, OneStep
<1> QED
  BY <1>1, SendConnectScript, ScriptConcat DEF ConnectAsync

LEMMA ConfigurationScript ==
  ASSUME NEW conf \in Configurations
  PROVE  ScriptOK(conf)
BY ItemsOK, OneStep, EmptyScript DEF Configurations

LEMMA PostConnectScript ==
  ASSUME NEW conf \in Configurations
  PROVE  ScriptOK(PostConnect(conf))
<1>1. ScriptOK(<<ClearJson>>) /\ ScriptOK(ConnectAsync("connect_user"))
  BY ItemsOK, OneStep, ConnectAsyncScript DEF ConnectOrders
<1>2. ScriptOK(conf \o <<ClearJson>>)
  BY <1>1, ConfigurationScript, ScriptConcat
<1> QED
  BY <1>1, <1>2, ScriptConcat DEF PostConnect

(* What a caller does is a script, and without Ethernet link reports no    *)
(* script has one.                                                         *)
LEMMA CallScript ==
  ASSUME NEW call \in Calls, NEW s \in ScriptsOf(call)
  PROVE  ScriptOK(s)
<1>1. CASE call = "connect"
  BY <1>1, ConnectAsyncScript, PostConnectScript DEF ScriptsOf, ConnectOrders
<1>0. CASE call = "restore"
  <2>1. PICK conf \in Configurations : s = conf \o <<Reconnect>>
    BY <1>0 DEF ScriptsOf
  <2>2. ScriptOK(<<Reconnect>>)
    BY ItemsOK, OneStep
  <2> QED
    BY <2>1, <2>2, ConfigurationScript, ScriptConcat
<1>2. CASE call = "delete"
  <2>1. s = <<Send("disable_wps"), SetReason, SendDrop>>
    BY <1>2 DEF ScriptsOf
  <2>2. /\ Send("disable_wps") \in Items /\ ItemOK(Send("disable_wps"))
        /\ Send("disable_wps").step = "send" /\ Send("disable_wps").arg = "disable_wps"
    BY ItemsOK DEF Orders, Messages, LinkEvents, Losses
  <2>3. /\ s \in Seq(Items) /\ Len(s) = 3
        /\ s[1] = Send("disable_wps") /\ s[2] = SetReason /\ s[3] = SendDrop
    BY <2>1, <2>2, ItemsOK
  <2> QED
    BY <2>2, <2>3, ItemsOK DEF ScriptOK
<1>3. CASE call \in {"disconnect", "wps", "eth"}
  <2>1. PICK m \in {"disconnect_sta", "enable_wps", "connect_eth"} : s = <<Send(m)>>
    BY <1>3 DEF ScriptsOf
  <2>2. m \in Orders
    BY DEF Orders, Messages, LinkEvents, Losses
  <2> QED
    BY <2>1, <2>2, ItemsOK, OneStep
<1>4. CASE call = "eth_link"
  <2>1. PICK up \in BOOLEAN : s = <<EthBits(up), EthJson(up)>>
    BY <1>4 DEF ScriptsOf
  <2>2. /\ EthBits(up) \in Items /\ EthJson(up) \in Items
        /\ ItemOK(EthBits(up)) /\ ItemOK(EthJson(up))
        /\ EthBits(up).step = "eth" /\ EthJson(up).step = "ethjson"
    BY <1>4 DEF EthBits, EthJson, Items, Steps, ItemOK
  <2> QED
    BY <2>1, <2>2, TwoSteps
<1> QED
  BY <1>0, <1>1, <1>2, <1>3, <1>4, CallsAssumption

-----------------------------------------------------------------------------
(* Types, those of the scripts included.                                   *)

TodoOK == todo \in [Actors -> Seq(Items)] /\ \A a \in Actors : ScriptOK(todo[a])

Types ==
  /\ queue \in Seq(Messages) /\ air \in Seq(Events)
  /\ bits \subseteq Bits
  /\ wps \in BOOLEAN /\ timer \in BOOLEAN /\ told \in BOOLEAN
  /\ drv \in {"idle", "connecting", "up"}
  /\ config \in Networks /\ saved \in Networks
  /\ json \in [reason : Reasons, ssid : Networks]
  /\ calls \in 0 .. MaxCalls /\ faults \in 0 .. MaxFaults

StaInv == Types /\ TodoOK

LEMMA StaInvIsTyped == StaInv => TypeOK
<1> SUFFICES ASSUME StaInv PROVE TypeOK
  OBVIOUS
<1>1. ASSUME NEW a \in Actors, NEW i \in DOMAIN todo[a]
      PROVE  /\ todo[a][i].step \in Steps
             /\ todo[a][i].step = "cmd" => i + 1 \in DOMAIN todo[a] /\ ConnectItem(todo[a][i + 1])
  <2>1. todo[a] \in Seq(Items) /\ ScriptOK(todo[a])
    BY DEF StaInv, TodoOK
  <2>2. DOMAIN todo[a] = 1 .. Len(todo[a]) /\ Len(todo[a]) \in Nat /\ todo[a][i] \in Items
    BY <2>1
  <2>3. todo[a][i].step = "cmd" => i < Len(todo[a]) /\ ConnectItem(todo[a][i + 1])
    BY <2>1, <2>2 DEF ScriptOK
  <2>4. todo[a][i].step \in Steps
    BY <2>2 DEF Items
  <2> QED
    BY <2>2, <2>3, <2>4
<1> QED
  BY <1>1 DEF StaInv, Types, TypeOK

LEMMA InitSta == Init => StaInv
<1> SUFFICES ASSUME Init PROVE StaInv
  OBVIOUS
<1>1. PICK ask \in BOOLEAN, s \in Networks :
        /\ config = s /\ saved = s
        /\ queue = IF ask /\ s # NoSsid THEN <<"connect_restore">> ELSE <<>>
        /\ bits = (IF ask THEN {"INITIAL_CONNECTION"} ELSE {})
                    \cup (IF ask /\ s # NoSsid THEN {"CMD_STA_CONNECT"} ELSE {})
  BY DEF Init
<1>2. Types
  <2>1. queue \in Seq(Messages)
    <3>1. "connect_restore" \in Messages
      BY DEF Messages, ConnectOrders
    <3> QED
      BY <1>1, <3>1
  <2>2. bits \subseteq Bits
    BY <1>1 DEF Bits
  <2>3. json \in [reason : Reasons, ssid : Networks]
    BY DEF Init, Reasons, Networks
  <2>4. /\ wps = FALSE /\ timer = FALSE /\ told = FALSE /\ drv = "idle"
        /\ air \in Seq(Events) /\ calls = 0 /\ faults = 0
    BY DEF Init
  <2>5. 0 \in 0 .. MaxCalls /\ 0 \in 0 .. MaxFaults
    BY ActorsAssumption
  <2> QED
    BY <1>1, <2>1, <2>2, <2>3, <2>4, <2>5 DEF Types, Networks
<1>3. TodoOK
  BY EmptyScript DEF Init, TodoOK, ScriptOK
<1> QED
  BY <1>2, <1>3 DEF StaInv

(* A message at the end of the queue, and one off its front. *)
LEMMA QueueAppend ==
  ASSUME NEW S, NEW s \in Seq(S), NEW m \in S
  PROVE  /\ Append(s, m) \in Seq(S) /\ Len(Append(s, m)) = Len(s) + 1 /\ Len(s) \in Nat
         /\ \A i \in 1 .. Len(s) : Append(s, m)[i] = s[i]
         /\ Append(s, m)[Len(s) + 1] = m
OBVIOUS

LEMMA QueueTail ==
  ASSUME NEW S, NEW s \in Seq(S), s # <<>>
  PROVE  /\ Tail(s) \in Seq(S) /\ Len(Tail(s)) = Len(s) - 1 /\ Len(s) \in Nat \ {0}
         /\ Head(s) = s[1] /\ Head(s) \in S
         /\ \A i \in 1 .. Len(s) - 1 : Tail(s)[i] = s[i + 1]
BY HeadTailProperties, EmptySeq, Head(s) = s[1]

LEMMA TodoKept ==
  ASSUME TodoOK, NEW a \in Actors, NEW s, ScriptOK(s), todo' = [todo EXCEPT ![a] = s]
  PROVE  TodoOK' /\ todo'[a] = s /\ \A b \in Actors : b # a => todo'[b] = todo[b]
BY DEF TodoOK, ScriptOK

(* A thread takes the next step of its script. *)
LEMMA StepTodo ==
  ASSUME TodoOK, NEW a \in Actors, todo[a] # <<>>, Done(a)
  PROVE  /\ TodoOK' /\ Head(todo[a]) \in Items /\ ItemOK(Head(todo[a]))
         /\ todo'[a] = Tail(todo[a]) /\ \A b \in Actors : b # a => todo'[b] = todo[b]
<1>1. ScriptOK(todo[a])
  BY DEF TodoOK
<1>2. ScriptOK(Tail(todo[a])) /\ Head(todo[a]) \in Items /\ ItemOK(Head(todo[a]))
  BY <1>1, ScriptTail
<1>3. todo' = [todo EXCEPT ![a] = Tail(todo[a])]
  BY DEF Done
<1> QED
  BY <1>2, <1>3, TodoKept

LEMMA CallKeepsSta ==
  ASSUME StaInv, NEW c \in Clients, Call(c)
  PROVE  StaInv'
<1>1. PICK call \in Calls : \E s \in ScriptsOf(call) : todo' = [todo EXCEPT ![c] = s]
  BY DEF Call
<1>2. PICK s \in ScriptsOf(call) : todo' = [todo EXCEPT ![c] = s]
  BY <1>1
<1>3. c \in Actors /\ ScriptOK(s)
  BY CallScript DEF Actors
<1>4. TodoOK' /\ todo'[c] = s /\ \A b \in Actors : b # c => todo'[b] = todo[b]
  BY <1>2, <1>3, TodoKept DEF StaInv
<1>5. UNCHANGED <<queue, bits, wps, timer, drv, air, config, saved, json, told, faults>>
  BY DEF Call, radio, store, status
<1>6. calls' \in 0 .. MaxCalls
  BY ActorsAssumption DEF Call, StaInv, Types
<1>7. Types'
  BY <1>5, <1>6 DEF StaInv, Types
<1> QED
  BY <1>4, <1>7 DEF StaInv

LEMMA StepKeepsTypes ==
  ASSUME StaInv, NEW a \in Actors, Step(a), ~DoReconnect(a), Head(todo[a]) \in Items,
         ItemOK(Head(todo[a]))
  PROVE  Types'
<1> USE DEF Step, Doing, Arg, ItemOK, Orders, radio, store, status, bounds, StaInv
<1>1. CASE DoConfig(a)
  BY <1>1 DEF DoConfig, Types, Networks
<1>2. CASE DoClear(a) \/ DoReason(a) \/ DoEthJson(a)
  <2>1. json' \in [reason : Reasons, ssid : Networks]
    BY <1>2 DEF DoClear, DoReason, DoEthJson, Types, Reasons, Networks
  <2>2. UNCHANGED <<queue, bits, wps, timer, drv, air, config, saved, told, calls, faults>>
    BY <1>2 DEF DoClear, DoReason, DoEthJson
  <2> QED
    BY <2>1, <2>2 DEF Types
<1>3. CASE DoCmd(a) \/ DoEthBits(a)
  <2>1. UNCHANGED <<queue, wps, timer, drv, air, config, saved, json, told, calls, faults>>
    BY <1>3 DEF DoCmd, DoEthBits
  <2>2. bits' \subseteq bits \cup {"CMD_STA_CONNECT", "ETH_CONNECTED"}
    BY <1>3 DEF DoCmd, DoEthBits
  <2> QED
    BY <2>1, <2>2 DEF Types, Bits
<1>4. CASE DoSend(a) \/ DoDrop(a)
  <2>1. PICK m \in Messages : queue' = Append(queue, m)
    <3>1. CASE DoSend(a)
      BY <3>1 DEF DoSend
    <3>2. CASE DoDrop(a)
      BY <3>2 DEF DoDrop, Messages
    <3> QED
      BY <1>4, <3>1, <3>2
  <2>2. queue' \in Seq(Messages)
    BY <2>1, QueueAppend DEF Types
  <2>3. UNCHANGED <<bits, wps, timer, drv, air, config, saved, json, told, calls, faults>>
    BY <1>4 DEF DoSend, DoDrop
  <2> QED
    BY <2>2, <2>3 DEF Types
<1> QED
  BY <1>1, <1>2, <1>3, <1>4

(* wifi_manager_reconnect_sta turns into the script of an order to connect, *)
(* or ends.                                                                *)
LEMMA ReconnectKeepsSta ==
  ASSUME StaInv, NEW a \in Actors, DoReconnect(a)
  PROVE  StaInv' /\ \E script \in {<<>>, SendConnect("connect_restore")} :
                       todo' = [todo EXCEPT ![a] = script]
<1>1. PICK script \in {<<>>, SendConnect("connect_restore")} :
        todo' = [todo EXCEPT ![a] = script]
  BY DEF DoReconnect
<1>2. ScriptOK(script)
  BY SendConnectScript, EmptyScript DEF ConnectOrders
<1>3. TodoOK'
  BY <1>1, <1>2, TodoKept DEF StaInv
<1>4. Types'
  BY DEF DoReconnect, StaInv, Types, radio, store, status, bounds
<1> QED
  BY <1>1, <1>3, <1>4 DEF StaInv

LEMMA StepKeepsSta ==
  ASSUME StaInv, NEW a \in Actors, Step(a)
  PROVE  StaInv'
<1>1. CASE DoReconnect(a)
  BY <1>1, ReconnectKeepsSta
<1>2. CASE ~DoReconnect(a)
  <2>1. todo[a] # <<>> /\ Done(a)
    BY <1>2 DEF Step, Doing, DoConfig, DoClear, DoReason, DoCmd, DoSend, DoDrop, DoEthBits,
                DoEthJson
  <2>2. TodoOK' /\ Head(todo[a]) \in Items /\ ItemOK(Head(todo[a]))
    BY <2>1, StepTodo DEF StaInv
  <2> QED
    BY <1>2, <2>2, StepKeepsTypes DEF StaInv
<1> QED
  BY <1>1, <1>2

(* The timer, the event loop and the driver. *)
LEMMA OutsideKeepsSta ==
  ASSUME StaInv,
         \/ TimerFires \/ Deliver \/ DrvUp \/ ApClient \/ UNCHANGED vars
         \/ \E several \in BOOLEAN : WpsSuccess(several)
         \/ \E e \in {"lost", "lost_mic"} : DrvDown(e)
  PROVE  StaInv'
<1> USE DEF radio, store, status, bounds
<1>1. CASE TimerFires
  <2>1. TodoOK'
    <3>1. ScriptOK(SendConnect("connect_auto")) /\ Timer \in Actors
      BY SendConnectScript DEF ConnectOrders, Actors
    <3> QED
      BY <1>1, <3>1, TodoKept DEF TimerFires, StaInv
  <2>2. Types'
    BY <1>1 DEF TimerFires, StaInv, Types
  <2> QED
    BY <2>1, <2>2 DEF StaInv
<1>2. CASE Deliver
  <2>1. Head(air) \in Events /\ Tail(air) \in Seq(Events) /\ queue' = Append(queue, Head(air))
    BY <1>2, QueueTail DEF Deliver, StaInv, Types
  <2>2. Head(air) \in Messages /\ Head(air) \notin ConnectOrders
    BY <2>1 DEF Messages, Events, LinkEvents, Losses, ConnectOrders
  <2>3. /\ queue' \in Seq(Messages) /\ Len(queue') = Len(queue) + 1 /\ Len(queue) \in Nat
        /\ \A i \in 1 .. Len(queue) : queue'[i] = queue[i]
        /\ queue'[Len(queue) + 1] = Head(air)
    BY <2>1, <2>2, QueueAppend DEF StaInv, Types
  <2>4. UNCHANGED <<bits, wps, timer, drv, config, saved, json, told, todo, calls, faults>>
        /\ air' = Tail(air)
    BY <1>2 DEF Deliver
  <2>5. Types'
    BY <2>1, <2>3, <2>4 DEF StaInv, Types
  <2> QED
    BY <2>4, <2>5 DEF StaInv, TodoOK
<1>3. CASE DrvUp \/ ApClient \/ \E e \in {"lost", "lost_mic"} : DrvDown(e)
  <2>1. PICK e \in Events : air' = Append(air, e)
    BY <1>3 DEF DrvUp, ApClient, DrvDown, Events, LinkEvents, Losses
  <2>2. air' \in Seq(Events)
    BY <2>1, QueueAppend DEF StaInv, Types
  <2>3. UNCHANGED <<queue, bits, wps, timer, config, saved, json, told, todo, calls>>
    BY <1>3 DEF DrvUp, ApClient, DrvDown
  <2>4. drv' \in {"idle", "connecting", "up"} /\ (drv' # "idle" => drv # "idle")
    BY <1>3 DEF DrvUp, ApClient, DrvDown, StaInv, Types
  <2>5. faults' \in 0 .. MaxFaults
    BY <1>3, ActorsAssumption DEF DrvUp, ApClient, DrvDown, MayFail, StaInv, Types
  <2>6. Types'
    BY <2>2, <2>3, <2>4, <2>5 DEF StaInv, Types
  <2> QED
    BY <2>3, <2>6 DEF StaInv, TodoOK
<1>4. CASE \E several \in BOOLEAN : WpsSuccess(several)
  <2>1. PICK script : /\ todo' = [todo EXCEPT ![Loop] = script]
                      /\ \/ script = <<>>
                         \/ \E s \in Ssids :
                              script = <<SetConfig(s)>> \o ConnectAsync("connect_wps")
    BY <1>4 DEF WpsSuccess
  <2>2. ScriptOK(script) /\ Loop \in Actors
    <3>1. \A s \in Ssids : ScriptOK(<<SetConfig(s)>>)
      BY ItemsOK, OneStep DEF Networks
    <3>2. ScriptOK(ConnectAsync("connect_wps"))
      BY ConnectAsyncScript DEF ConnectOrders
    <3> QED
      BY <2>1, <3>1, <3>2, EmptyScript, ScriptConcat DEF Actors
  <2>3. TodoOK' /\ todo'[Loop] = script /\ \A b \in Actors : b # Loop => todo'[b] = todo[b]
    BY <2>1, <2>2, TodoKept DEF StaInv
  <2>4. /\ UNCHANGED <<queue, bits, timer, drv, air, config, saved, json, told, calls, faults>>
        /\ wps' = FALSE
    BY <1>4 DEF WpsSuccess
  <2>5. Types'
    BY <2>4 DEF StaInv, Types
  <2> QED
    BY <2>3, <2>5 DEF StaInv
<1>5. CASE UNCHANGED vars
  BY <1>5 DEF vars, StaInv, Types, TodoOK
<1> QED
  BY <1>1, <1>2, <1>3, <1>4, <1>5

-----------------------------------------------------------------------------
(* The handlers. *)

(* What a handler finds when it takes a message. *)
LEMMA TakeFacts ==
  ASSUME StaInv, NEW m, Take(m)
  PROVE  /\ queue' \in Seq(Messages) /\ m \in Messages /\ m = queue[1]
         /\ Len(queue') = Len(queue) - 1 /\ Len(queue) \in Nat \ {0}
         /\ \A i \in 1 .. Len(queue) - 1 : queue'[i] = queue[i + 1]
         /\ todo[Task] = <<>> /\ Task \in Actors
<1>1. /\ queue' \in Seq(Messages) /\ m \in Messages /\ m = queue[1]
      /\ Len(queue') = Len(queue) - 1 /\ Len(queue) \in Nat \ {0}
      /\ \A i \in 1 .. Len(queue) - 1 : queue'[i] = queue[i + 1]
  BY QueueTail DEF Take, StaInv, Types
<1> QED
  BY <1>1 DEF Take, Actors

(* The end of a handler that sends something or nothing. *)
LEMMA ThenFacts ==
  ASSUME StaInv, NEW script, ScriptOK(script), Then(script)
  PROVE  /\ TodoOK'
         /\ todo'[Task] = script /\ \A b \in Actors : b # Task => todo'[b] = todo[b]
BY TodoKept DEF StaInv, Then, Actors

LEMMA ConnectKeepsSta ==
  ASSUME StaInv, NEW r \in ConnectOrders, HandleConnectActive(r) \/ HandleConnect(r)
  PROVE  StaInv'
<1> USE DEF radio, store, status, bounds
<1>1. config' = config /\ queue' \in Seq(Messages)
  BY TakeFacts DEF HandleConnectActive, HandleConnect
<1>2. bits' \subseteq Bits
  BY DEF HandleConnectActive, HandleConnect, Requested, Bits, StaInv, Types
<1>3. UNCHANGED <<wps, timer, air, saved, json, told, calls>>
  BY DEF HandleConnectActive, HandleConnect
<1>4. CASE HandleConnectActive(r)
  <2>1. "disconnect_sta" \in Orders /\ Send("disconnect_sta").step # "cmd"
    BY DEF Orders, Messages, LinkEvents, Losses, Send
  <2>2. ScriptOK(<<Send("disconnect_sta")>>)
    BY <2>1, ItemsOK, OneStep
  <2>3. TodoOK'
    BY <1>4, <2>2, ThenFacts DEF HandleConnectActive
  <2>4. UNCHANGED <<drv, faults>>
    BY <1>4 DEF HandleConnectActive
  <2>5. Types'
    BY <1>1, <1>2, <1>3, <2>4 DEF StaInv, Types
  <2> QED
    BY <2>3, <2>5 DEF StaInv
<1>5. CASE HandleConnect(r)
  <2>1. todo' = todo
    BY <1>5 DEF HandleConnect
  <2>2. /\ drv' \in {drv, "connecting"}
        /\ faults' \in 0 .. MaxFaults
    BY <1>1, <1>5, ActorsAssumption
    DEF HandleConnect, Connecting, Ignored, Refused, MayFail, StaInv, Types
  <2>3. Types'
    BY <1>1, <1>2, <1>3, <2>2 DEF StaInv, Types
  <2> QED
    BY <2>1, <2>3 DEF StaInv, TodoOK
<1> QED
  BY <1>4, <1>5

(* esp_wifi_disconnect leaves the driver at rest. *)
LEMMA DisconnectedFacts ==
  ASSUME StaInv, Disconnected
  PROVE  /\ drv' = "idle" /\ air' \in Seq(Events)
         /\ drv # "idle" => air' = Append(air, "left")
         /\ drv = "idle" => air' = air
<1>1. "left" \in Events
  BY DEF Events, LinkEvents, Losses
<1> QED
  BY <1>1, QueueAppend DEF Disconnected, StaInv, Types

(* A handler that answers REQUEST_STA_CONNECT, or sends nothing. *)
LEMMA MaybeConnectScript ==
  ASSUME NEW p \in BOOLEAN
  PROVE  ScriptOK(IF p THEN SendConnect("connect_user") ELSE <<>>)
BY SendConnectScript, EmptyScript DEF ConnectOrders

LEMMA DisconnectKeepsSta ==
  ASSUME StaInv, HandleDisconnect
  PROVE  StaInv'
<1> USE DEF radio, store, status, bounds
<1>1. queue' \in Seq(Messages)
      /\ todo[Task] = <<>> /\ Task \in Actors
  BY TakeFacts DEF HandleDisconnect
<1>2. drv' = "idle" /\ air' \in Seq(Events)
  BY DisconnectedFacts DEF HandleDisconnect
<1>3. /\ UNCHANGED <<wps, config, saved, json, told, calls, faults>>
      /\ timer' = FALSE /\ bits' \subseteq bits
  BY DEF HandleDisconnect
<1>4. PICK p \in BOOLEAN : /\ Then(IF p THEN SendConnect("connect_user") ELSE <<>>)
                           /\ p <=> "REQUEST_STA_CONNECT" \in bits
  BY DEF HandleDisconnect
<1>5. /\ TodoOK' /\ todo'[Task] = IF p THEN SendConnect("connect_user") ELSE <<>>
      /\ \A b \in Actors : b # Task => todo'[b] = todo[b]
  BY <1>4, MaybeConnectScript, ThenFacts
<1>6. Types'
  BY <1>1, <1>2, <1>3 DEF StaInv, Types
<1> QED
  BY <1>5, <1>6 DEF StaInv

LEMMA LostKeepsSta ==
  ASSUME StaInv, NEW e \in Losses, HandleLost(e)
  PROVE  StaInv'
<1> USE DEF radio, store, status, bounds
<1>1. queue' \in Seq(Messages)
      /\ todo[Task] = <<>> /\ Task \in Actors
  BY TakeFacts DEF HandleLost
<1>2. /\ drv' \in {drv, "idle"} /\ air' \in Seq(Events)
  BY DisconnectedFacts DEF HandleLost, StaInv, Types
<1>3. /\ UNCHANGED <<wps, config, saved, calls, faults>>
      /\ bits' \subseteq bits
      /\ timer' = (timer \/ Retried(bits)) /\ told' \in BOOLEAN
      /\ json' = [reason |-> ReasonOf(bits), ssid |-> config]
  BY DEF HandleLost
<1>4. Retried(bits) \in BOOLEAN /\ (Retried(bits) => "STA_ACTIVE" \in bits)
  BY DEF Retried, LostLink, StaInv, Types
<1>5. ReasonOf(bits) \in Reasons
  BY DEF ReasonOf, Reasons
<1>6. PICK p \in BOOLEAN : /\ Then(IF p THEN SendConnect("connect_user") ELSE <<>>)
                           /\ p => "REQUEST_STA_CONNECT" \in bits
  BY DEF HandleLost, Reconnecting
<1>7. /\ TodoOK' /\ todo'[Task] = IF p THEN SendConnect("connect_user") ELSE <<>>
      /\ \A b \in Actors : b # Task => todo'[b] = todo[b]
  BY <1>6, MaybeConnectScript, ThenFacts
<1>8. Types'
  BY <1>1, <1>2, <1>3, <1>4, <1>5 DEF StaInv, Types
<1> QED
  BY <1>7, <1>8 DEF StaInv

LEMMA OtherHandlersKeepSta ==
  ASSUME StaInv, HandleGotIp \/ HandleWps \/ HandleOther
  PROVE  StaInv'
<1> USE DEF radio, store, status, bounds
<1>1. queue' \in Seq(Messages)
  BY TakeFacts DEF HandleGotIp, HandleWps, HandleOther
<1>2. UNCHANGED <<drv, air, config, todo, calls, faults>>
  BY DEF HandleGotIp, HandleWps, HandleOther
<1>3. /\ wps' \in BOOLEAN /\ saved' \in {saved, config}
      /\ told' \in BOOLEAN /\ timer' \in BOOLEAN
      /\ bits' \subseteq bits \cup {"WIFI_CONNECTED"}
      /\ json' \in {json, [reason |-> "ok", ssid |-> config]}
  <2>1. CASE HandleGotIp
    BY <2>1 DEF HandleGotIp, StaInv, Types
  <2>2. CASE HandleWps
    BY <2>2 DEF HandleWps, StaInv, Types
  <2>3. CASE HandleOther
    BY <2>3 DEF HandleOther, StaInv, Types
  <2> QED
    BY <2>1, <2>2, <2>3
<1>4. json' \in [reason : Reasons, ssid : Networks] /\ bits' \subseteq Bits /\ saved' \in Networks
  <2>1. config \in Networks /\ "ok" \in Reasons /\ "WIFI_CONNECTED" \in Bits
    BY DEF StaInv, Types, Reasons, Bits
  <2> QED
    BY <1>3, <2>1 DEF StaInv, Types
<1>5. Types'
  BY <1>1, <1>2, <1>3, <1>4 DEF StaInv, Types
<1> QED
  BY <1>2, <1>5 DEF StaInv, TodoOK

LEMMA NextKeepsSta == StaInv /\ [Next]_vars => StaInv'
<1> SUFFICES ASSUME StaInv, [Next]_vars PROVE StaInv'
  OBVIOUS
<1>1. CASE Handle
  BY <1>1, ConnectKeepsSta, DisconnectKeepsSta, LostKeepsSta, OtherHandlersKeepSta DEF Handle
<1> QED
  BY <1>1, CallKeepsSta, StepKeepsSta, OutsideKeepsSta DEF Next

LEMMA StaCorrect == Spec => []StaInv
BY InitSta, NextKeepsSta, PTL DEF Spec

(* The variables have their types, and whatever a thread is doing, it sets *)
(* CMD_STA_CONNECT only with the order to connect as its next step         *)
(* (wifiman_msg.c, wifiman_msg_send_cmd_connect_sta).                      *)
THEOREM TypeCorrect == Spec => []TypeOK
BY StaCorrect, StaInvIsTyped, PTL

-----------------------------------------------------------------------------
(* CMD_STA_CONNECT announces an order that is under way. *)

LEMMA CmdInit == Init => CmdBitIsCovered
<1> SUFFICES ASSUME Init, "CMD_STA_CONNECT" \in bits PROVE Elements(queue) \cap ConnectOrders # {}
  BY DEF CmdBitIsCovered
<1>1. queue = <<"connect_restore">>
  BY DEF Init
<1>2. 1 \in DOMAIN queue /\ queue[1] = "connect_restore"
  BY <1>1
<1> QED
  BY <1>2 DEF Elements, ConnectOrders

OrderUnderWay == Elements(queue) \cap ConnectOrders # {}
OrderIsSent(a) == Doing(a, "send") /\ Arg(a) \in ConnectOrders

(* Orders stay in the queue while others are added or taken.               *)
LEMMA OrderStays ==
  ASSUME StaInv, OrderUnderWay
  PROVE  /\ \A m : queue' = Append(queue, m) => OrderUnderWay'
         /\ \A m : Take(m) /\ m \notin ConnectOrders => OrderUnderWay'
         /\ queue' = queue => OrderUnderWay'
<1>1. queue \in Seq(Messages) /\ DOMAIN queue = 1 .. Len(queue) /\ Len(queue) \in Nat
  BY DEF StaInv, Types
<1>2. PICK i \in 1 .. Len(queue) : queue[i] \in ConnectOrders
  BY <1>1 DEF OrderUnderWay, Elements
<1>3. ASSUME NEW m, queue' = Append(queue, m) PROVE OrderUnderWay'
  <2>1. i \in DOMAIN queue' /\ queue'[i] = queue[i]
    BY <1>1, <1>3
  <2> QED
    BY <1>2, <2>1 DEF OrderUnderWay, Elements
<1>4. ASSUME NEW m, Take(m), m \notin ConnectOrders PROVE OrderUnderWay'
  <2>1. /\ queue' \in Seq(Messages) /\ m = queue[1] /\ Len(queue') = Len(queue) - 1
        /\ \A j \in 1 .. Len(queue) - 1 : queue'[j] = queue[j + 1]
    BY <1>4, TakeFacts
  <2>2. i # 1
    BY <1>2, <1>4, <2>1
  <2>3. i - 1 \in DOMAIN queue' /\ queue'[i - 1] = queue[i]
    BY <1>1, <2>1, <2>2
  <2> QED
    BY <1>2, <2>3 DEF OrderUnderWay, Elements
<1> QED
  BY <1>3, <1>4 DEF OrderUnderWay

(* A thread goes on with its script: the bit, then the order.              *)
LEMMA StepKeepsCmd ==
  ASSUME StaInv, CmdBitIsCovered, NEW a \in Actors, Step(a)
  PROVE  CmdBitIsCovered'
<1> USE DEF OrderUnderWay, OrderIsSent
<1> SUFFICES ASSUME "CMD_STA_CONNECT" \in bits'
             PROVE  OrderUnderWay' \/ \E b \in Actors : OrderIsSent(b)'
  BY DEF CmdBitIsCovered
<1>1. CASE DoReconnect(a)
  <2>1. queue' = queue /\ bits' = bits /\ ~OrderIsSent(a)
    BY <1>1 DEF DoReconnect, Doing
  <2>2. \A b \in Actors : b # a => todo'[b] = todo[b]
    BY <1>1, ReconnectKeepsSta DEF StaInv, TodoOK
  <2>3. ASSUME NEW b \in Actors, OrderIsSent(b) PROVE OrderIsSent(b)'
    BY <2>1, <2>2, <2>3 DEF Doing, Arg
  <2> QED
    BY <2>1, <2>3 DEF CmdBitIsCovered
<1>2. ASSUME ~DoReconnect(a)
      PROVE  /\ todo[a] # <<>>
             /\ todo'[a] = Tail(todo[a]) /\ \A b \in Actors : b # a => todo'[b] = todo[b]
  <2>1. todo[a] # <<>> /\ Done(a)
    BY <1>2 DEF Step, Doing, DoConfig, DoClear, DoReason, DoCmd, DoSend, DoDrop, DoEthBits,
                DoEthJson
  <2> QED
    BY <2>1, StepTodo DEF StaInv
<1>3. CASE DoCmd(a)
  <2>1. ScriptOK(todo[a]) /\ Head(todo[a]).step = "cmd" /\ todo[a] # <<>> /\ ~DoReconnect(a)
    BY <1>3 DEF DoCmd, DoReconnect, Doing, StaInv, TodoOK
  <2>2. Tail(todo[a]) # <<>> /\ ConnectItem(Head(Tail(todo[a])))
    BY <2>1, ScriptTail
  <2>3. OrderIsSent(a)'
    BY <1>2, <2>1, <2>2 DEF Doing, Arg, ConnectItem
  <2> QED
    BY <2>3
<1>4. CASE ~DoCmd(a) /\ ~DoReconnect(a)
  <2>1. "CMD_STA_CONNECT" \in bits
    BY <1>4 DEF Step, DoConfig, DoClear, DoReason, DoSend, DoDrop, DoEthBits, DoEthJson
  <2>2. queue' = queue \/ \E m : queue' = Append(queue, m)
    BY <1>4 DEF Step, DoConfig, DoClear, DoReason, DoSend, DoDrop, DoEthBits, DoEthJson
  <2>3. CASE OrderUnderWay
    BY <2>2, <2>3, OrderStays
  <2>4. ASSUME NEW b \in Actors, OrderIsSent(b)
        PROVE  OrderUnderWay' \/ \E c \in Actors : OrderIsSent(c)'
    <3>1. CASE b # a
      BY <1>2, <1>4, <2>4, <3>1 DEF Doing, Arg
    <3>2. CASE b = a
      <4>1. queue' = Append(queue, Arg(a)) /\ Arg(a) \in ConnectOrders
        BY <1>4, <2>4, <3>2
        DEF Step, Doing, DoConfig, DoClear, DoReason, DoSend, DoDrop, DoEthBits, DoEthJson
      <4>2. queue \in Seq(Messages) /\ Arg(a) \in Messages
        BY <4>1 DEF StaInv, Types, Messages
      <4>3. Len(queue) + 1 \in DOMAIN queue' /\ queue'[Len(queue) + 1] = Arg(a)
        BY <4>1, <4>2
      <4> QED
        BY <4>1, <4>3 DEF Elements
    <3> QED
      BY <3>1, <3>2
  <2> QED
    BY <2>1, <2>3, <2>4 DEF CmdBitIsCovered
<1> QED
  BY <1>1, <1>3, <1>4

(* A thread that has no script gets one, or none does.                     *)
LEMMA OtherKeepsCmd ==
  ASSUME StaInv, CmdBitIsCovered,
         "CMD_STA_CONNECT" \in bits' => "CMD_STA_CONNECT" \in bits,
         \/ queue' = queue
         \/ \E m : queue' = Append(queue, m)
         \/ \E m : Take(m) /\ m \notin ConnectOrders,
         \A a \in Actors : todo[a] # <<>> => todo'[a] = todo[a]
  PROVE  CmdBitIsCovered'
<1> USE DEF OrderUnderWay, OrderIsSent
<1>1. OrderUnderWay => OrderUnderWay'
  BY OrderStays
<1>2. ASSUME NEW a \in Actors, OrderIsSent(a) PROVE OrderIsSent(a)'
  BY <1>2 DEF Doing, Arg
<1> QED
  BY <1>1, <1>2 DEF CmdBitIsCovered

LEMMA NextKeepsCmd == StaInv /\ CmdBitIsCovered /\ [Next]_vars => CmdBitIsCovered'
<1> SUFFICES ASSUME StaInv, CmdBitIsCovered, [Next]_vars PROVE CmdBitIsCovered'
  OBVIOUS
<1> USE DEF radio, store, status, bounds
<1>1. ASSUME NEW a \in Actors, NEW s, todo[a] = <<>>, todo' = [todo EXCEPT ![a] = s]
      PROVE  \A b \in Actors : todo[b] # <<>> => todo'[b] = todo[b]
  BY <1>1 DEF StaInv, TodoOK
<1>2. ASSUME NEW c \in Clients, Call(c) PROVE CmdBitIsCovered'
  <2>1. PICK call \in Calls : \E s \in ScriptsOf(call) : todo' = [todo EXCEPT ![c] = s]
    BY <1>2 DEF Call
  <2>2. todo[c] = <<>> /\ c \in Actors /\ queue' = queue /\ bits' = bits
    BY <1>2 DEF Call, Actors
  <2> QED
    BY <1>1, <2>1, <2>2, OtherKeepsCmd
<1>3. CASE TimerFires \/ \E several \in BOOLEAN : WpsSuccess(several)
  <2>1. /\ queue' = queue /\ bits' = bits
        /\ \E a \in Actors : \E s : todo[a] = <<>> /\ todo' = [todo EXCEPT ![a] = s]
    BY <1>3 DEF TimerFires, WpsSuccess, Actors
  <2> QED
    BY <1>1, <2>1, OtherKeepsCmd
<1>4. CASE \/ Deliver \/ DrvUp \/ ApClient \/ UNCHANGED vars
           \/ \E e \in {"lost", "lost_mic"} : DrvDown(e)
  <2>1. todo' = todo /\ bits' = bits /\ (queue' = queue \/ \E m : queue' = Append(queue, m))
    BY <1>4 DEF Deliver, DrvUp, ApClient, vars, DrvDown
  <2> QED
    BY <2>1, OtherKeepsCmd
<1>5. ASSUME NEW r \in ConnectOrders, HandleConnectActive(r) \/ HandleConnect(r)
      PROVE  CmdBitIsCovered'
  <2>1. "CMD_STA_CONNECT" \notin bits'
    BY <1>5 DEF HandleConnectActive, HandleConnect, Requested
  <2> QED
    BY <2>1 DEF CmdBitIsCovered
<1>6. CASE \/ HandleDisconnect \/ HandleGotIp \/ HandleWps \/ HandleOther
           \/ \E e \in Losses : HandleLost(e)
  <2>1. \E m \in Losses \cup {"disconnect_sta", "got_ip", "enable_wps", "disable_wps",
                             "connect_eth", "disconnect_eth", "ap_client"} : Take(m)
    BY <1>6 DEF HandleDisconnect, HandleGotIp, HandleWps, HandleOther, HandleLost
  <2>2. \E m : Take(m) /\ m \notin ConnectOrders
    BY <2>1 DEF Losses, ConnectOrders
  <2>3. "CMD_STA_CONNECT" \in bits' => "CMD_STA_CONNECT" \in bits
    <3>1. CASE HandleDisconnect \/ \E e \in Losses : HandleLost(e)
      BY <3>1 DEF HandleDisconnect, HandleLost
    <3>2. CASE HandleGotIp
      BY <3>2 DEF HandleGotIp
    <3>3. CASE HandleWps \/ HandleOther
      BY <3>3 DEF HandleWps, HandleOther
    <3> QED
      BY <1>6, <3>1, <3>2, <3>3
  <2>4. todo[Task] = <<>> /\ Task \in Actors /\ (todo' = todo \/ \E s : Then(s))
    BY <1>6, <2>1
    DEF HandleDisconnect, HandleGotIp, HandleWps, HandleOther, HandleLost, Take, Actors
  <2>5. \A b \in Actors : todo[b] # <<>> => todo'[b] = todo[b]
    BY <1>1, <2>4 DEF Then
  <2> QED
    BY <2>2, <2>3, <2>5, OtherKeepsCmd
<1> QED
  BY <1>2, <1>3, <1>4, <1>5, <1>6, StepKeepsCmd DEF Next, Handle

(* Whoever sends what in between: while CMD_STA_CONNECT is set a connect   *)
(* order is in the queue, or its sender is about to send it                *)
(* (wifiman_msg.c:272, wifi_manager_handle_msg.c:103, 337).                *)
THEOREM CmdBitCorrect == Spec => []CmdBitIsCovered
BY StaCorrect, CmdInit, NextKeepsCmd, PTL DEF Spec

-----------------------------------------------------------------------------
(* What the newest link event says of the link, when events come and go.   *)

NoLink(s) == \A i \in DOMAIN s : s[i] \notin LinkEvents

LEMMA NewestOfNone ==
  ASSUME NEW s, NoLink(s), NEW bit \in BOOLEAN, NEW up \in BOOLEAN
  PROVE  NewestSays(s, bit, up) <=> (bit <=> up)
BY DEF NoLink, NewestSays

LEMMA NewestAppend ==
  ASSUME NEW s \in Seq(Messages), NEW m \in Messages, NEW bit \in BOOLEAN, NEW up \in BOOLEAN
  PROVE  /\ m \in LinkEvents => /\ NewestSays(Append(s, m), bit, up) <=> (m = "got_ip" <=> up)
                                /\ ~NoLink(Append(s, m))
         /\ m \notin LinkEvents => /\ NewestSays(Append(s, m), bit, up) <=> NewestSays(s, bit, up)
                                   /\ NoLink(Append(s, m)) <=> NoLink(s)
<1> DEFINE t == Append(s, m)
<1>1. /\ DOMAIN s = 1 .. Len(s) /\ DOMAIN t = 1 .. Len(s) + 1 /\ Len(s) \in Nat
      /\ \A i \in 1 .. Len(s) : t[i] = s[i]
      /\ t[Len(s) + 1] = m
  BY QueueAppend
<1> HIDE DEF t
<1>2. CASE m \in LinkEvents
  <2>1. ~NoLink(t)
    BY <1>1, <1>2 DEF NoLink
  <2>2. ASSUME NEW i \in DOMAIN t, \A j \in DOMAIN t : j > i => t[j] \notin LinkEvents
        PROVE  i = Len(s) + 1
    BY <1>1, <1>2, <2>2
  <2>3. \A j \in DOMAIN t : ~(j > Len(s) + 1)
    BY <1>1
  <2>4. NewestSays(t, bit, up) => (m = "got_ip" <=> up)
    BY <1>1, <1>2, <2>3 DEF NewestSays
  <2>5. (m = "got_ip" <=> up) => NewestSays(t, bit, up)
    BY <1>1, <2>1, <2>2 DEF NewestSays, NoLink
  <2> QED
    BY <1>2, <2>1, <2>4, <2>5 DEF t
<1>3. CASE m \notin LinkEvents
  <2>1. NoLink(t) <=> NoLink(s)
    BY <1>1, <1>3 DEF NoLink
  <2>2. \A i \in DOMAIN s : (\A j \in DOMAIN t : j > i => t[j] \notin LinkEvents)
                            <=> (\A j \in DOMAIN s : j > i => s[j] \notin LinkEvents)
    BY <1>1, <1>3
  <2>3. ASSUME NewestSays(s, bit, up) PROVE NewestSays(t, bit, up)
    <3>1. NoLink(t) => (bit <=> up)
      BY <2>1, <2>3 DEF NewestSays, NoLink
    <3>2. ASSUME NEW i \in DOMAIN t, t[i] \in LinkEvents,
                 \A j \in DOMAIN t : j > i => t[j] \notin LinkEvents
          PROVE  t[i] = "got_ip" <=> up
      <4>1. i \in DOMAIN s /\ s[i] = t[i]
        BY <1>1, <1>3, <3>2
      <4> QED
        BY <2>2, <2>3, <3>2, <4>1 DEF NewestSays
    <3> QED
      BY <3>1, <3>2 DEF NewestSays, NoLink
  <2>4. ASSUME NewestSays(t, bit, up) PROVE NewestSays(s, bit, up)
    <3>1. NoLink(s) => (bit <=> up)
      BY <2>1, <2>4 DEF NewestSays, NoLink
    <3>2. ASSUME NEW i \in DOMAIN s, s[i] \in LinkEvents,
                 \A j \in DOMAIN s : j > i => s[j] \notin LinkEvents
          PROVE  s[i] = "got_ip" <=> up
      <4>1. i \in DOMAIN t /\ s[i] = t[i]
        BY <1>1
      <4> QED
        BY <2>2, <2>4, <3>2, <4>1 DEF NewestSays
    <3> QED
      BY <3>1, <3>2 DEF NewestSays, NoLink
  <2> QED
    BY <1>3, <2>1, <2>3, <2>4 DEF t
<1> QED
  BY <1>2, <1>3

(* The bit follows the event that is taken.                                *)
LEMMA NewestTail ==
  ASSUME NEW s \in Seq(Messages), s # <<>>, NEW bit \in BOOLEAN, NEW up \in BOOLEAN,
         NewestSays(s, bit, up), NEW after \in BOOLEAN,
         after <=> IF s[1] \in LinkEvents THEN s[1] = "got_ip" ELSE bit
  PROVE  NewestSays(Tail(s), after, up)
<1> DEFINE t == Tail(s)
<1>1. /\ DOMAIN s = 1 .. Len(s) /\ DOMAIN t = 1 .. Len(s) - 1 /\ Len(s) \in Nat \ {0}
      /\ \A i \in 1 .. Len(s) - 1 : t[i] = s[i + 1]
  BY QueueTail
<1> HIDE DEF t
<1>2. \A i \in DOMAIN s : i # 1 => i - 1 \in DOMAIN t /\ t[i - 1] = s[i]
  BY <1>1
<1>3. ASSUME NoLink(t) PROVE after <=> up
  <2>1. \A j \in DOMAIN s : j > 1 => s[j] \notin LinkEvents
    BY <1>1, <1>2, <1>3 DEF NoLink
  <2>2. CASE s[1] \in LinkEvents
    BY <1>1, <2>1, <2>2 DEF NewestSays
  <2>3. CASE s[1] \notin LinkEvents
    <3>1. NoLink(s)
      BY <1>1, <2>1, <2>3 DEF NoLink
    <3> QED
      BY <2>3, <3>1 DEF NewestSays, NoLink
  <2> QED
    BY <2>2, <2>3
<1>4. ASSUME NEW i \in DOMAIN t, t[i] \in LinkEvents,
             \A j \in DOMAIN t : j > i => t[j] \notin LinkEvents
      PROVE  t[i] = "got_ip" <=> up
  <2>1. i + 1 \in DOMAIN s /\ s[i + 1] = t[i]
    BY <1>1
  <2>2. \A j \in DOMAIN s : j > i + 1 => s[j] \notin LinkEvents
    BY <1>1, <1>2, <1>4
  <2> QED
    BY <1>4, <2>1, <2>2 DEF NewestSays
<1> QED
  BY <1>3, <1>4 DEF NewestSays, NoLink, t

(* The events still in the air are newer than those in the queue.          *)
LEMMA NewestConcat ==
  ASSUME NEW q \in Seq(Messages), NEW a \in Seq(Messages),
         NEW bit \in BOOLEAN, NEW up \in BOOLEAN
  PROVE  NewestSays(q \o a, bit, up)
           <=> IF NoLink(a) THEN NewestSays(q, bit, up) ELSE NewestSays(a, bit, up)
<1> DEFINE s == q \o a
           n == Len(q)
<1>1. /\ DOMAIN q = 1 .. n /\ DOMAIN a = 1 .. Len(a) /\ DOMAIN s = 1 .. n + Len(a)
      /\ n \in Nat /\ Len(a) \in Nat
      /\ \A i \in DOMAIN s : s[i] = IF i <= n THEN q[i] ELSE a[i - n]
  BY ConcatProperties
<1> HIDE DEF s, n
<1>2. \A i \in DOMAIN q : i \in DOMAIN s /\ s[i] = q[i]
  BY <1>1
<1>3. \A i \in DOMAIN a : i + n \in DOMAIN s /\ s[i + n] = a[i]
  BY <1>1
<1>4. \A i \in DOMAIN s : \/ i \in DOMAIN q /\ s[i] = q[i]
                          \/ i - n \in DOMAIN a /\ s[i] = a[i - n] /\ i > n
  BY <1>1
<1>5. CASE NoLink(a)
  <2>1. NoLink(s) <=> NoLink(q)
    BY <1>2, <1>4, <1>5 DEF NoLink
  <2>2. \A i \in DOMAIN q : (\A j \in DOMAIN s : j > i => s[j] \notin LinkEvents)
                            <=> (\A j \in DOMAIN q : j > i => q[j] \notin LinkEvents)
    BY <1>2, <1>4, <1>5 DEF NoLink
  <2>3. \A i \in DOMAIN s : s[i] \in LinkEvents => i \in DOMAIN q
    BY <1>4, <1>5 DEF NoLink
  <2> QED
    BY <1>2, <1>5, <2>1, <2>2, <2>3 DEF NewestSays, NoLink, s
<1>6. CASE ~NoLink(a)
  <2>1. PICK k \in DOMAIN a : a[k] \in LinkEvents
    BY <1>6 DEF NoLink
  <2>2. ~NoLink(s) /\ k + n \in DOMAIN s /\ s[k + n] \in LinkEvents
    BY <1>3, <2>1 DEF NoLink
  <2>3. \A i \in DOMAIN a : (\A j \in DOMAIN s : j > i + n => s[j] \notin LinkEvents)
                            <=> (\A j \in DOMAIN a : j > i => a[j] \notin LinkEvents)
    <3>1. \A i, j \in DOMAIN a : j > i => j + n > i + n
      BY <1>1
    <3>2. \A i \in DOMAIN a, j \in DOMAIN s :
            j > i + n => j - n \in DOMAIN a /\ j - n > i /\ s[j] = a[j - n]
      BY <1>1
    <3> QED
      BY <1>3, <3>1, <3>2
  <2>4. \A i \in DOMAIN s : (\A j \in DOMAIN s : j > i => s[j] \notin LinkEvents)
                            => i - n \in DOMAIN a /\ s[i] = a[i - n]
    BY <1>1, <1>4, <2>1, <2>2
  <2>5. ASSUME NewestSays(a, bit, up) PROVE NewestSays(s, bit, up)
    <3>1. ASSUME NEW i \in DOMAIN s, s[i] \in LinkEvents,
                 \A j \in DOMAIN s : j > i => s[j] \notin LinkEvents
          PROVE  s[i] = "got_ip" <=> up
      <4>1. i - n \in DOMAIN a /\ s[i] = a[i - n] /\ (i - n) + n = i
        BY <1>1, <2>4, <3>1
      <4>2. \A j \in DOMAIN a : j > i - n => a[j] \notin LinkEvents
        BY <2>3, <3>1, <4>1
      <4> QED
        BY <2>5, <3>1, <4>1, <4>2 DEF NewestSays
    <3> QED
      BY <2>2, <3>1 DEF NewestSays, NoLink
  <2>6. ASSUME NewestSays(s, bit, up) PROVE NewestSays(a, bit, up)
    <3>1. ASSUME NEW i \in DOMAIN a, a[i] \in LinkEvents,
                 \A j \in DOMAIN a : j > i => a[j] \notin LinkEvents
          PROVE  a[i] = "got_ip" <=> up
      BY <1>3, <2>3, <2>6, <3>1 DEF NewestSays
    <3> QED
      BY <1>6, <3>1 DEF NewestSays, NoLink
  <2> QED
    BY <1>6, <2>5, <2>6 DEF s
<1> QED
  BY <1>5, <1>6

(* The event loop moves the oldest event from the air to the queue.        *)
LEMMA MoveOne ==
  ASSUME NEW q \in Seq(Messages), NEW a \in Seq(Messages), a # <<>>
  PROVE  Append(q, Head(a)) \o Tail(a) = q \o a
<1>1. /\ Head(a) = a[1] /\ Head(a) \in Messages /\ Tail(a) \in Seq(Messages)
      /\ Len(Tail(a)) = Len(a) - 1 /\ Len(a) \in Nat \ {0} /\ Len(q) \in Nat
      /\ \A i \in 1 .. Len(a) - 1 : Tail(a)[i] = a[i + 1]
  BY QueueTail
<1>2. /\ Append(q, Head(a)) \in Seq(Messages) /\ Len(Append(q, Head(a))) = Len(q) + 1
      /\ \A i \in 1 .. Len(q) : Append(q, Head(a))[i] = q[i]
      /\ Append(q, Head(a))[Len(q) + 1] = a[1]
  BY <1>1, QueueAppend
<1> DEFINE p == Append(q, Head(a))
           b == Tail(a)
<1>3. /\ p \o b \in Seq(Messages) /\ Len(p \o b) = Len(q) + Len(a)
      /\ \A i \in 1 .. Len(q) + Len(a) :
           (p \o b)[i] = IF i <= Len(q) + 1 THEN p[i] ELSE b[i - (Len(q) + 1)]
  BY <1>1, <1>2, ConcatProperties
<1>4. /\ q \o a \in Seq(Messages) /\ Len(q \o a) = Len(q) + Len(a)
      /\ \A i \in 1 .. Len(q) + Len(a) : (q \o a)[i] = IF i <= Len(q) THEN q[i] ELSE a[i - Len(q)]
  BY ConcatProperties
<1>5. ASSUME NEW i \in 1 .. Len(q) + Len(a) PROVE (p \o b)[i] = (q \o a)[i]
  BY <1>1, <1>2, <1>3, <1>4
<1> QED
  BY <1>3, <1>4, <1>5, SeqEqual

-----------------------------------------------------------------------------
(* The bit, the callbacks and the status follow the link. DoEthBits clears *)
(* WIFI_CONNECTED and DoEthJson reports "ok" for the Ethernet: without     *)
(* them, that is, on a device without Ethernet.                            *)

Wifi == "WIFI_CONNECTED" \in bits
Up == drv = "up"

EventsAreMessages == Seq(Events) \subseteq Seq(Messages)

LEMMA EventsMessages == Events \subseteq Messages /\ EventsAreMessages
<1>1. Events \subseteq Messages
  BY DEF Messages
<1> QED
  BY <1>1, SeqMonotonic DEF EventsAreMessages

(* With a link event in the sequence the bit does not count.               *)
LEMMA BitDoesNotCount ==
  ASSUME NEW s, ~NoLink(s), NEW bit, NEW other, NEW up, NewestSays(s, bit, up)
  PROVE  NewestSays(s, other, up)
BY DEF NoLink, NewestSays

(* In the air first, in the queue then, else in the bit.                   *)
LEMMA FollowsLinkIff ==
  \A q, a \in Seq(Messages), bit, up \in BOOLEAN :
    NewestSays(q \o a, bit, up)
      <=> /\ NoLink(a) => NewestSays(q, bit, up)
          /\ ~NoLink(a) => NewestSays(a, bit, up)
<1> SUFFICES ASSUME NEW q \in Seq(Messages), NEW a \in Seq(Messages),
                    NEW bit \in BOOLEAN, NEW up \in BOOLEAN
             PROVE  NewestSays(q \o a, bit, up)
                      <=> /\ NoLink(a) => NewestSays(q, bit, up)
                          /\ ~NoLink(a) => NewestSays(a, bit, up)
  OBVIOUS
<1>1. NoLink(a) \in BOOLEAN
  BY DEF NoLink
<1> QED
  BY <1>1, NewestConcat

LEMMA TypedEvents ==
  ASSUME StaInv
  PROVE  /\ queue \in Seq(Messages) /\ air \in Seq(Messages)
         /\ Wifi \in BOOLEAN /\ Up \in BOOLEAN
BY EventsMessages DEF EventsAreMessages, StaInv, Types, Wifi, Up

(* Orders come to the queue.                                               *)
LEMMA OrderFollows ==
  ASSUME NEW q \in Seq(Messages), NEW a \in Seq(Messages), NEW m \in Orders,
         NEW bit \in BOOLEAN, NEW up \in BOOLEAN, NewestSays(q \o a, bit, up)
  PROVE  NewestSays(Append(q, m) \o a, bit, up)
<1> DEFINE t == Append(q, m)
<1>1. t \in Seq(Messages) /\ m \in Messages /\ m \notin LinkEvents
  BY QueueAppend DEF Orders
<1> HIDE DEF t
<1>2. NewestSays(q, bit, up) => NewestSays(t, bit, up)
  BY <1>1, NewestAppend DEF t
<1>3. NewestSays(q \o a, bit, up)
        <=> /\ NoLink(a) => NewestSays(q, bit, up)
            /\ ~NoLink(a) => NewestSays(a, bit, up)
  BY FollowsLinkIff
<1>4. NewestSays(t \o a, bit, up)
        <=> /\ NoLink(a) => NewestSays(t, bit, up)
            /\ ~NoLink(a) => NewestSays(a, bit, up)
  BY <1>1, FollowsLinkIff
<1> QED
  BY <1>2, <1>3, <1>4 DEF t

LEMMA OrderKeepsLink ==
  ASSUME StaInv, ConnectedBitFollowsLink, Wifi' <=> Wifi, Up' <=> Up, air' = air,
         queue' = queue \/ \E m \in Orders : queue' = Append(queue, m)
  PROVE  ConnectedBitFollowsLink'
<1>1. NewestSays(queue \o air, Wifi, Up)
  BY DEF ConnectedBitFollowsLink, Wifi, Up
<1>2. NewestSays(queue' \o air, Wifi, Up)
  <2>1. CASE queue' = queue
    BY <1>1, <2>1
  <2>2. ASSUME NEW m \in Orders, queue' = Append(queue, m)
        PROVE  NewestSays(queue' \o air, Wifi, Up)
    <3>1. NewestSays(Append(queue, m) \o air, Wifi, Up)
      BY <1>1, TypedEvents, OrderFollows, Zenon
    <3> QED
      BY <2>2, <3>1
  <2> QED
    BY <2>1, <2>2
<1>3. Wifi' = Wifi /\ Up' = Up
  BY DEF Wifi, Up
<1> QED
  BY <1>2, <1>3 DEF ConnectedBitFollowsLink, Wifi, Up

(* A message is taken; if it is a link event the bit follows it.           *)
LEMMA TakeFollows ==
  ASSUME NEW q \in Seq(Messages), NEW a \in Seq(Messages), q # <<>>,
         NEW bit \in BOOLEAN, NEW up \in BOOLEAN, NEW after \in BOOLEAN,
         after <=> IF q[1] \in LinkEvents THEN q[1] = "got_ip" ELSE bit,
         NewestSays(q \o a, bit, up)
  PROVE  NewestSays(Tail(q) \o a, after, up)
<1> DEFINE t == Tail(q)
<1>1. t \in Seq(Messages)
  BY QueueTail
<1> HIDE DEF t
<1>2. NewestSays(q \o a, bit, up)
        <=> /\ NoLink(a) => NewestSays(q, bit, up)
            /\ ~NoLink(a) => NewestSays(a, bit, up)
  BY FollowsLinkIff
<1>3. NewestSays(t \o a, after, up)
        <=> /\ NoLink(a) => NewestSays(t, after, up)
            /\ ~NoLink(a) => NewestSays(a, after, up)
  BY <1>1, FollowsLinkIff
<1>4. NewestSays(q, bit, up) => NewestSays(t, after, up)
  BY NewestTail DEF t
<1>5. ~NoLink(a) /\ NewestSays(a, bit, up) => NewestSays(a, after, up)
  BY BitDoesNotCount
<1> QED
  BY <1>2, <1>3, <1>4, <1>5 DEF t

LEMMA TakeKeepsLink ==
  ASSUME StaInv, ConnectedBitFollowsLink, NEW m, Take(m), Up' <=> Up, air' = air,
         Wifi' <=> IF m \in LinkEvents THEN m = "got_ip" ELSE Wifi
  PROVE  ConnectedBitFollowsLink'
<1>1. queue # <<>> /\ queue' = Tail(queue) /\ m = queue[1]
  BY TakeFacts DEF Take
<1>2. NewestSays(queue \o air, Wifi, Up)
  BY DEF ConnectedBitFollowsLink, Wifi, Up
<1>3. Wifi' \in BOOLEAN
  BY DEF Wifi
<1>4. NewestSays(Tail(queue) \o air, Wifi', Up)
  BY <1>1, <1>2, <1>3, TypedEvents, TakeFollows, Zenon
<1>5. Up' = Up
  BY DEF Up
<1> QED
  BY <1>1, <1>4, <1>5 DEF ConnectedBitFollowsLink, Wifi, Up

(* The driver reports what became of the link, or something else.          *)
LEMMA ReportFollows ==
  ASSUME NEW q \in Seq(Messages), NEW a \in Seq(Messages), NEW e \in Messages,
         NEW bit \in BOOLEAN, NEW up \in BOOLEAN,
         \/ e \in LinkEvents /\ (up <=> e = "got_ip")
         \/ e \notin LinkEvents /\ NewestSays(q \o a, bit, up)
  PROVE  NewestSays(q \o Append(a, e), bit, up)
<1> DEFINE t == Append(a, e)
<1>1. t \in Seq(Messages)
  BY QueueAppend
<1> HIDE DEF t
<1>2. NewestSays(q \o a, bit, up)
        <=> /\ NoLink(a) => NewestSays(q, bit, up)
            /\ ~NoLink(a) => NewestSays(a, bit, up)
  BY FollowsLinkIff
<1>3. NewestSays(q \o t, bit, up)
        <=> /\ NoLink(t) => NewestSays(q, bit, up)
            /\ ~NoLink(t) => NewestSays(t, bit, up)
  BY <1>1, FollowsLinkIff
<1>4. CASE e \in LinkEvents
  <2>1. up <=> e = "got_ip"
    BY <1>4
  <2>2. ~NoLink(t) /\ NewestSays(t, bit, up)
    BY <1>4, <2>1, NewestAppend DEF t
  <2> QED
    BY <1>3, <2>2 DEF t
<1>5. CASE e \notin LinkEvents
  <2>1. NewestSays(q \o a, bit, up)
    BY <1>5
  <2>2. /\ NoLink(t) <=> NoLink(a)
        /\ NewestSays(t, bit, up) <=> NewestSays(a, bit, up)
    BY <1>5, NewestAppend DEF t
  <2>3. NewestSays(q \o t, bit, up)
    BY <1>2, <1>3, <2>1, <2>2
  <2> QED
    BY <2>3 DEF t
<1> QED
  BY <1>4, <1>5

LEMMA ReportKeepsLink ==
  ASSUME StaInv, ConnectedBitFollowsLink, NEW e \in Events, air' = Append(air, e),
         queue' \in Seq(Messages),
         \/ e \in LinkEvents /\ (Up' <=> e = "got_ip")
         \/ e \notin LinkEvents /\ (Up' <=> Up) /\ (Wifi' <=> Wifi) /\ queue' = queue
  PROVE  ConnectedBitFollowsLink'
<1>1. e \in Messages /\ Wifi' \in BOOLEAN /\ Up' \in BOOLEAN
  BY EventsMessages DEF Wifi, Up
<1>2. \/ e \in LinkEvents /\ (Up' <=> e = "got_ip")
      \/ e \notin LinkEvents /\ NewestSays(queue' \o air, Wifi', Up')
  BY DEF ConnectedBitFollowsLink, Wifi, Up
<1>3. NewestSays(queue' \o Append(air, e), Wifi', Up')
  BY <1>1, <1>2, TypedEvents, ReportFollows, Zenon
<1> QED
  BY <1>3 DEF ConnectedBitFollowsLink, Wifi, Up

-----------------------------------------------------------------------------
StatusInv == ToldWhatBitSays /\ JsonOkOnlyWhileConnected

(* What the threads do without Ethernet: they send orders, and may forget  *)
(* what the status was.                                                    *)
LEMMA StepWithoutEth ==
  ASSUME "eth_link" \notin Calls, StaInv, NEW a \in Actors, Step(a)
  PROVE  /\ Wifi' <=> Wifi
         /\ told' = told /\ drv' = drv /\ air' = air
         /\ json' = json \/ json'.reason # "ok"
         /\ queue' = queue \/ \E m \in Orders : queue' = Append(queue, m)
<1> USE DEF radio, store, status, bounds, Wifi
<1>1. todo[a] # <<>>
  BY DEF Step, Doing, DoConfig, DoClear, DoReason, DoCmd, DoSend, DoDrop, DoEthBits, DoEthJson,
         DoReconnect
<1>2. ItemOK(Head(todo[a]))
  BY <1>1, ScriptTail DEF StaInv, TodoOK
<1>3. ~DoEthBits(a) /\ ~DoEthJson(a)
  BY <1>2 DEF DoEthBits, DoEthJson, Doing, ItemOK
<1>4. CASE DoConfig(a) \/ DoCmd(a) \/ DoReconnect(a)
  BY <1>4 DEF DoConfig, DoCmd, DoReconnect
<1>5. CASE DoClear(a)
  BY <1>5 DEF DoClear
<1>6. CASE DoReason(a)
  <2>1. json' = [json EXCEPT !.reason = "user_disconnect"] /\ json \in [reason : Reasons, ssid : Networks]
    BY <1>6 DEF DoReason, StaInv, Types
  <2> QED
    BY <1>6, <2>1 DEF DoReason
<1>7. CASE DoSend(a)
  <2>1. Arg(a) \in Orders
    BY <1>2, <1>7 DEF DoSend, Doing, Arg, ItemOK
  <2> QED
    BY <1>7, <2>1 DEF DoSend
<1>8. CASE DoDrop(a)
  BY <1>8 DEF DoDrop, Orders, Messages, LinkEvents, Losses
<1> QED
  BY <1>3, <1>4, <1>5, <1>6, <1>7, <1>8 DEF Step

LEMMA InitFollows == Init => StatusInv /\ ConnectedBitFollowsLink
<1> SUFFICES ASSUME Init PROVE StatusInv /\ ConnectedBitFollowsLink
  OBVIOUS
<1>1. ~Wifi /\ told = FALSE /\ json.reason # "ok" /\ ~Up /\ air = <<>>
  BY DEF Init, Wifi, Up
<1>2. queue \in Seq(Messages) /\ NoLink(queue)
  <2>1. queue = <<>> \/ queue = <<"connect_restore">>
    BY DEF Init
  <2>2. "connect_restore" \in Messages /\ "connect_restore" \notin LinkEvents
    BY DEF Messages, ConnectOrders, LinkEvents, Losses
  <2>3. CASE queue = <<>>
    BY <2>3 DEF NoLink
  <2>4. CASE queue = <<"connect_restore">>
    <3>1. queue \in Seq(Messages) /\ DOMAIN queue = 1 .. 1 /\ queue[1] = "connect_restore"
      BY <2>2, <2>4
    <3> QED
      BY <2>2, <3>1 DEF NoLink
  <2> QED
    BY <2>1, <2>3, <2>4
<1>3. queue \o air = queue
  BY <1>1, <1>2, ConcatEmptySeq
<1>4. NewestSays(queue, Wifi, Up)
  BY <1>1, <1>2 DEF NoLink, NewestSays
<1> QED
  BY <1>1, <1>3, <1>4
  DEF StatusInv, ToldWhatBitSays, JsonOkOnlyWhileConnected, ConnectedBitFollowsLink, Wifi, Up

(* The handlers that know about the link.                                  *)
LEMMA LinkHandlers ==
  ASSUME StaInv, StatusInv, ConnectedBitFollowsLink,
         HandleGotIp \/ \E e \in Losses : HandleLost(e)
  PROVE  StatusInv' /\ ConnectedBitFollowsLink'
<1> USE DEF radio, store, status, bounds
<1>1. CASE HandleGotIp
  <2>1. Take("got_ip") /\ Wifi' /\ told' = TRUE /\ drv' = drv /\ air' = air
    BY <1>1 DEF HandleGotIp, Wifi
  <2>2. Wifi' <=> IF "got_ip" \in LinkEvents THEN "got_ip" = "got_ip" ELSE Wifi
    BY <2>1 DEF LinkEvents
  <2>3. ConnectedBitFollowsLink'
    BY <2>1, <2>2, TakeKeepsLink DEF Up
  <2> QED
    BY <2>1, <2>3 DEF StatusInv, ToldWhatBitSays, JsonOkOnlyWhileConnected, Wifi
<1>2. ASSUME NEW e \in Losses, HandleLost(e)
      PROVE  StatusInv' /\ ConnectedBitFollowsLink'
  <2>1. Take(e) /\ ~Wifi' /\ e \in LinkEvents /\ e # "got_ip"
    BY <1>2 DEF HandleLost, Cleared, Wifi, LinkEvents, Losses
  <2>2. StatusInv'
    <3>1. told' = FALSE
      BY <1>2 DEF HandleLost, StatusInv, ToldWhatBitSays
    <3>2. json'.reason # "ok"
      BY <1>2 DEF HandleLost, ReasonOf
    <3> QED
      BY <2>1, <3>1, <3>2 DEF StatusInv, ToldWhatBitSays, JsonOkOnlyWhileConnected, Wifi
  <2>3. CASE drv' = drv /\ air' = air
    <3>1. Wifi' <=> IF e \in LinkEvents THEN e = "got_ip" ELSE Wifi
      BY <2>1
    <3> QED
      BY <2>1, <2>2, <2>3, <3>1, TakeKeepsLink DEF Up
  <2>4. CASE drv' = "idle" /\ air' = Append(air, "left")
    <3>1. "left" \in Events /\ "left" \in LinkEvents
      BY DEF Events, LinkEvents, Losses
    <3>2. queue' \in Seq(Messages)
      BY <2>1, TakeFacts
    <3>3. ~Up'
      BY <2>4 DEF Up
    <3> QED
      BY <2>2, <2>4, <3>1, <3>2, <3>3, ReportKeepsLink
  <2>5. \/ drv' = drv /\ air' = air
        \/ drv' = "idle" /\ air' = Append(air, "left")
    BY <1>2, DisconnectedFacts DEF HandleLost
  <2> QED
    BY <2>3, <2>4, <2>5
<1> QED
  BY <1>1, <1>2

(* The handlers that leave the bit, the callbacks and the status alone.    *)
LEMMA NeutralStatus ==
  ASSUME StatusInv, told' = told, json' = json \/ json'.reason # "ok", Wifi' <=> Wifi
  PROVE  StatusInv'
BY DEF StatusInv, ToldWhatBitSays, JsonOkOnlyWhileConnected, Wifi

LEMMA OrderHandlers ==
  ASSUME StaInv, StatusInv, ConnectedBitFollowsLink,
         \/ \E r \in ConnectOrders : HandleConnectActive(r) \/ HandleConnect(r)
         \/ HandleDisconnect \/ HandleWps \/ HandleOther
  PROVE  StatusInv' /\ ConnectedBitFollowsLink'
<1> USE DEF radio, store, status, bounds
<1>1. StatusInv' /\ (Wifi' <=> Wifi)
  <2>1. told' = told /\ json' = json
    BY DEF HandleConnectActive, HandleConnect, HandleDisconnect, HandleWps, HandleOther
  <2>2. Wifi' <=> Wifi
    BY DEF HandleConnectActive, HandleConnect, Requested, ConnectOrders, HandleDisconnect,
           HandleWps, HandleOther, Wifi
  <2> QED
    BY <2>1, <2>2, NeutralStatus
<1>2. PICK m \in ConnectOrders \cup {"disconnect_sta", "enable_wps", "disable_wps", "connect_eth",
                                     "disconnect_eth", "ap_client"} : Take(m)
  BY DEF HandleConnectActive, HandleConnect, HandleDisconnect, HandleWps, HandleOther
<1>3. m \notin LinkEvents
  BY DEF ConnectOrders, LinkEvents, Losses
<1>4. CASE (Up' <=> Up) /\ air' = air
  <2>1. Wifi' <=> IF m \in LinkEvents THEN m = "got_ip" ELSE Wifi
    BY <1>1, <1>3
  <2> QED
    BY <1>1, <1>2, <1>4, <2>1, TakeKeepsLink
<1>5. CASE drv' = "idle" /\ air' = Append(air, "left")
  <2>1. "left" \in Events /\ "left" \in LinkEvents
    BY DEF Events, LinkEvents, Losses
  <2>2. queue' \in Seq(Messages)
    BY <1>2, TakeFacts
  <2>3. ~Up'
    BY <1>5 DEF Up
  <2> QED
    BY <1>1, <1>5, <2>1, <2>2, <2>3, ReportKeepsLink
<1>6. \/ (Up' <=> Up) /\ air' = air
      \/ drv' = "idle" /\ air' = Append(air, "left")
  <2>1. CASE HandleDisconnect
    BY <2>1, DisconnectedFacts DEF HandleDisconnect, Up
  <2>2. CASE ~HandleDisconnect
    BY <2>2
    DEF HandleConnectActive, HandleConnect, Connecting, Ignored, Refused, HandleWps, HandleOther, Up
  <2> QED
    BY <2>1, <2>2
<1> QED
  BY <1>4, <1>5, <1>6

LEMMA OutsideFollows ==
  ASSUME StaInv, StatusInv, ConnectedBitFollowsLink,
         \/ \E c \in Clients : Call(c)
         \/ TimerFires \/ Deliver \/ DrvUp \/ ApClient \/ UNCHANGED vars
         \/ \E several \in BOOLEAN : WpsSuccess(several)
         \/ \E e \in {"lost", "lost_mic"} : DrvDown(e)
  PROVE  StatusInv' /\ ConnectedBitFollowsLink'
<1> USE DEF radio, store, status, bounds
<1>1. told' = told /\ json' = json /\ bits' = bits
  BY DEF Call, TimerFires, Deliver, DrvUp, ApClient, vars, WpsSuccess, DrvDown
<1>2. StatusInv' /\ (Wifi' <=> Wifi)
  BY <1>1, NeutralStatus DEF Wifi
<1>3. CASE \/ \E c \in Clients : Call(c)
           \/ TimerFires \/ UNCHANGED vars
           \/ \E several \in BOOLEAN : WpsSuccess(several)
  <2>1. queue' = queue /\ air' = air /\ drv' = drv
    BY <1>3 DEF Call, TimerFires, vars, WpsSuccess
  <2> QED
    BY <1>1, <1>2, <2>1 DEF ConnectedBitFollowsLink
<1>4. CASE Deliver
  <2>1. /\ queue' = Append(queue, Head(air)) /\ air' = Tail(air) /\ drv' = drv /\ air # <<>>
    BY <1>4 DEF Deliver
  <2>2. queue' \o air' = queue \o air
    BY <2>1, TypedEvents, MoveOne
  <2> QED
    BY <1>1, <1>2, <2>1, <2>2 DEF ConnectedBitFollowsLink
<1>5. CASE DrvUp \/ ApClient \/ \E e \in {"lost", "lost_mic"} : DrvDown(e)
  <2>1. queue' = queue /\ queue' \in Seq(Messages)
    BY <1>5 DEF DrvUp, ApClient, DrvDown, StaInv, Types
  <2>2. PICK e \in {"got_ip", "lost", "lost_mic", "ap_client"} :
          /\ air' = Append(air, e)
          /\ e = "got_ip" => drv' = "up"
          /\ e \in {"lost", "lost_mic"} => drv' = "idle"
          /\ e = "ap_client" => drv' = drv
    BY <1>5 DEF DrvUp, ApClient, DrvDown
  <2>3. e \in Events /\ (e \in LinkEvents <=> e # "ap_client")
    BY DEF Events, LinkEvents, Losses
  <2>4. \/ e \in LinkEvents /\ (Up' <=> e = "got_ip")
        \/ e \notin LinkEvents /\ (Up' <=> Up) /\ (Wifi' <=> Wifi) /\ queue' = queue
    BY <1>2, <2>1, <2>2, <2>3 DEF Up
  <2> QED
    BY <1>2, <2>1, <2>2, <2>3, <2>4, ReportKeepsLink
<1> QED
  BY <1>3, <1>4, <1>5

LEMMA NextFollows ==
  ASSUME "eth_link" \notin Calls,
         StaInv, StatusInv, ConnectedBitFollowsLink, [Next]_vars
  PROVE  StatusInv' /\ ConnectedBitFollowsLink'
<1>1. ASSUME NEW a \in Actors, Step(a)
      PROVE  StatusInv' /\ ConnectedBitFollowsLink'
  <2>1. /\ Wifi' <=> Wifi
        /\ told' = told /\ drv' = drv /\ air' = air
        /\ json' = json \/ json'.reason # "ok"
        /\ queue' = queue \/ \E m \in Orders : queue' = Append(queue, m)
    BY <1>1, StepWithoutEth
  <2>2. Up' <=> Up
    BY <2>1 DEF Up
  <2> QED
    BY <2>1, <2>2, NeutralStatus, OrderKeepsLink
<1>2. CASE Handle
  BY <1>2, LinkHandlers, OrderHandlers DEF Handle
<1> QED
  BY <1>1, <1>2, OutsideFollows DEF Next

LEMMA FollowsCorrect ==
  ASSUME "eth_link" \notin Calls
  PROVE  Spec => [](StatusInv /\ ConnectedBitFollowsLink)
<1>1. Init => StatusInv /\ ConnectedBitFollowsLink
  BY InitFollows
<1>2. StaInv /\ (StatusInv /\ ConnectedBitFollowsLink) /\ [Next]_vars
        => (StatusInv /\ ConnectedBitFollowsLink)'
  BY NextFollows
<1> QED
  BY <1>1, <1>2, StaCorrect, PTL DEF Spec

(* Without Ethernet, and however late and around whatever orders the       *)
(* events of the driver are handled: the newest that is under way, or else *)
(* WIFI_CONNECTED, says what the link is.                                  *)
THEOREM ConnectedBitCorrect ==
  ASSUME "eth_link" \notin Calls
  PROVE  Spec => []ConnectedBitFollowsLink
BY FollowsCorrect, PTL

(* Without Ethernet the callbacks tell the application what the bit says.  *)
THEOREM ToldCorrect ==
  ASSUME "eth_link" \notin Calls
  PROVE  Spec => []ToldWhatBitSays
<1>1. StatusInv => ToldWhatBitSays
  BY DEF StatusInv
<1> QED
  BY <1>1, FollowsCorrect, PTL

(* Without Ethernet status.json reports no connection that the bit denies. *)
THEOREM JsonOkCorrect ==
  ASSUME "eth_link" \notin Calls
  PROVE  Spec => []JsonOkOnlyWhileConnected
<1>1. StatusInv => JsonOkOnlyWhileConnected
  BY DEF StatusInv
<1> QED
  BY <1>1, FollowsCorrect, PTL
=============================================================================
