-------------------------- MODULE WifiLife_proofs --------------------------
(***************************************************************************)
(* Safety of WifiLife for any number of callers. The event loop, which is  *)
(* created once and never deleted, stands between every start after the    *)
(* first that got that far and the servers; the mutex orders the starts    *)
(* and the end of the task.                                                *)
(***************************************************************************)
EXTENDS WifiLife, TLAPS

(* Past the event loop. *)
Late == {"netif", "servers", "wifi", "connect"}

Nothing == queue = NoQueue /\ up = {} /\ task = "none"

(* Who is inside holds the mutex, and while the task is taken down it does. *)
Holds ==
  /\ \A c \in Callers : pc[c] \in Body \cup Orders => owner = c
  /\ task = "down" => owner = Manager

(* Before the event loop exists nothing behind it does.                     *)
LoopFirst ==
  /\ "loop" \notin made => Nothing /\ {"dns", "http"} \cap made = {}
  /\ \A c \in Callers : pc[c] \in Late => "loop" \in made

(* The start that created the loop finds everything as it was at first.     *)
FirstStart ==
  /\ \A c \in Callers : pc[c] \in {"netif", "servers"} =>
       Nothing /\ {"dns", "http"} \cap made = {}
  /\ \A c \in Callers : pc[c] = "wifi" => Nothing
  /\ \A c \in Callers : pc[c] \in Late => task \notin {"down", "ended"}

(* What the end cleared and nobody sets again: the bits that the handlers   *)
(* of the task set. IS_WORKING is set by a start, AP_STARTED by the event   *)
(* loop.                                                                    *)
StaysCleared == EndClears \ {"IS_WORKING", "AP_STARTED"}

(* What the task leaves.                                                    *)
Left ==
  /\ task \in {"down", "ended"} => bits \cap StaysCleared = {} /\ "watchdog" \notin up
  /\ task = "down" => "IS_WORKING" \notin bits
  /\ task = "ended" => queue = NoQueue /\ up = {} /\ mode = "none"
  /\ task = "ended" /\ "IS_WORKING" \in bits => \E c \in Callers : pc[c] \in Body

Typed ==
  /\ pc \in [Callers -> {"idle", "lock"} \cup Body \cup Orders]
  /\ up \subseteq Parts /\ bits \subseteq Followed
  /\ task \in {"none", "created", "running", "ending", "down", "ended"}

IInv == Typed /\ Holds /\ LoopFirst /\ FirstStart /\ Left

(* What a change of the event group that sets none of the bits that stay    *)
(* cleared, and not IS_WORKING, leaves as it is.                            *)
Harmless ==
  /\ bits' \subseteq Followed
  /\ bits \cap StaysCleared = {} => bits' \cap StaysCleared = {}
  /\ "IS_WORKING" \in bits' => "IS_WORKING" \in bits

LEMMA UpdateFollows ==
  ASSUME NEW clear, NEW set, IInv, Update(clear, set)
  PROVE  /\ bits' \subseteq Followed
         /\ set \cap (StaysCleared \cup {"IS_WORKING"}) = {} => Harmless
BY DEF Update, Harmless, IInv, Typed

(* It holds before the first call.                                          *)
LEMMA InitInductive == Init => IInv
BY HoldersAssumption
   DEF Init, IInv, Typed, Holds, LoopFirst, FirstStart, Left, Nothing, Late, Body,
       Orders, Parts

(* A start before it may touch anything.                                    *)
LEMMA EnterPreserves ==
  ASSUME NEW c \in Callers, IInv, Enter(c) \/ Lock(c)
  PROVE  IInv'
<1> USE HoldersAssumption DEF IInv, Typed, Late, Body, Orders, Goto, Nothing
<1>1. CASE Enter(c)
  BY <1>1 DEF Enter, Holds, LoopFirst, FirstStart, Left
<1>2. CASE Lock(c)
  <2>1. Typed'
    BY <1>2 DEF Lock
  <2>2. Holds'
    BY <1>2 DEF Lock, Holds
  <2>3. LoopFirst' /\ FirstStart' /\ Left'
    BY <1>2 DEF Lock, LoopFirst, FirstStart, Left
  <2> QED
    BY <2>1, <2>2, <2>3
<1> QED
  BY <1>1, <1>2

(* A start that fails gives the mutex back and clears the bit.              *)
LEMMA FailPreserves ==
  ASSUME NEW c \in Callers, IInv, NEW from \in Body \ {"connect"}, Fail(c, from),
         UNCHANGED <<up, queue, mode, task>>,
         "loop" \in made <=> "loop" \in made',
         {"dns", "http"} \cap made' = {"dns", "http"} \cap made
  PROVE  IInv'
<1>0. Harmless
  BY UpdateFollows DEF Fail, StaysCleared
<1> USE HoldersAssumption DEF IInv, Typed, Late, Body, Orders, Goto, Nothing, Fail
<1>1. Typed'
  BY <1>0 DEF Harmless
<1>2. Holds'
  BY DEF Holds
<1>3. LoopFirst'
  BY DEF LoopFirst
<1>4. FirstStart'
  BY DEF FirstStart
<1>5. "IS_WORKING" \notin bits'
  BY DEF Update
<1>6. Left'
  BY <1>0, <1>5 DEF Left, Harmless
<1> QED
  BY <1>1, <1>2, <1>3, <1>4, <1>6

(* The part of a start before and at the event loop.                        *)
LEMMA BeginPreserves ==
  ASSUME NEW c \in Callers, IInv, Ecdh(c) \/ Claim(c) \/ CreateLoop(c)
  PROVE  IInv'
<1>1. CASE \/ Fail(c, "ecdh") /\ Ecdh(c)
           \/ Fail(c, "init") /\ Claim(c)
           \/ Fail(c, "loop") /\ CreateLoop(c) /\ made' = made
  <2>1. PICK from \in Body \ {"connect"} : Fail(c, from)
    BY <1>1 DEF Body
  <2>2. made' = made /\ UNCHANGED <<up, queue, mode, task>>
    BY <1>1 DEF Ecdh, Claim, CreateLoop
  <2> QED
    BY <2>1, <2>2, FailPreserves
<1> USE HoldersAssumption DEF IInv, Typed, Late, Body, Orders, Goto, Nothing
<1>2. CASE Ecdh(c) /\ ~Fail(c, "ecdh")
  BY <1>2 DEF Ecdh, Holds, LoopFirst, FirstStart, Left
<1>3. CASE Claim(c) /\ ~Fail(c, "init")
  <2>1. /\ Goto(c, "init", "loop") /\ owner' = owner
        /\ Update({}, {"IS_WORKING"})
        /\ UNCHANGED <<made, up, queue, mode, task>>
    BY <1>3 DEF Claim
  <2>2. /\ bits' \subseteq Followed
        /\ bits \cap StaysCleared = {} => bits' \cap StaysCleared = {}
    BY <2>1 DEF Update, StaysCleared
  <2>3. Typed' /\ Holds' /\ LoopFirst' /\ FirstStart'
    BY <2>1, <2>2 DEF Holds, LoopFirst, FirstStart
  <2>4. Left'
    BY <2>1, <2>2 DEF Left, Holds
  <2> QED
    BY <2>3, <2>4
<1>4. CASE CreateLoop(c) /\ ~(Fail(c, "loop") /\ made' = made)
  <2>1. /\ "loop" \notin made /\ Goto(c, "loop", "netif")
        /\ made' = made \cup {"loop"}
        /\ UNCHANGED <<owner, bits, up, queue, mode, task>>
    BY <1>4 DEF CreateLoop
  <2>2. Typed' /\ Holds'
    BY <2>1 DEF Holds
  <2>3. LoopFirst' /\ FirstStart' /\ Left'
    BY <2>1 DEF LoopFirst, FirstStart, Left
  <2> QED
    BY <2>2, <2>3
<1> QED
  BY <1>1, <1>2, <1>3, <1>4 DEF Ecdh, Claim, CreateLoop

(* The part behind the event loop. No other caller is there, because its    *)
(* caller holds the mutex.                                                  *)
LEMMA BringUpPreserves ==
  ASSUME NEW c \in Callers, IInv,
         CreateNetifs(c) \/ InitServers(c) \/ StartWifi(c) \/ Connect(c)
  PROVE  IInv'
<1>1. ASSUME NEW got \in {{}, {"ap"}}, Fail(c, "netif"), made' = made \cup got,
             UNCHANGED <<up, queue, mode, task>>
      PROVE  IInv'
  <2>1. "netif" \in Body \ {"connect"}
    BY DEF Body
  <2>2. /\ "loop" \in made <=> "loop" \in made'
        /\ {"dns", "http"} \cap made' = {"dns", "http"} \cap made
    BY <1>1
  <2> QED
    BY <1>1, <2>1, <2>2, FailPreserves
<1> USE HoldersAssumption DEF IInv, Typed, Late, Body, Orders, Goto, Nothing
<1>2. CASE /\ Goto(c, "netif", "servers") /\ made' = made \cup {"ap", "sta"}
           /\ UNCHANGED <<owner, bits, up, queue, mode, task>>
  BY <1>2 DEF Holds, LoopFirst, FirstStart, Left
<1>3. CASE InitServers(c)
  <2>1. \A d \in Callers : pc'[d] \in {"netif", "servers"} => FALSE
    BY <1>3 DEF InitServers, Holds
  <2>2. Typed' /\ Holds' /\ LoopFirst' /\ Left'
    BY <1>3 DEF InitServers, Holds, LoopFirst, FirstStart, Left
  <2>3. FirstStart'
    BY <1>3, <2>1 DEF InitServers, FirstStart
  <2> QED
    BY <2>2, <2>3
<1>4. CASE StartWifi(c)
  <2>1. \A d \in Callers : pc'[d] \in {"netif", "servers", "wifi"} => FALSE
    BY <1>4 DEF StartWifi, Holds
  <2>2. task = "none" /\ up = {} /\ "loop" \in made
    BY <1>4 DEF StartWifi, FirstStart, LoopFirst
  <2>3. task' \in {"none", "created"} /\ up' \subseteq Parts
    BY <1>4, <2>2 DEF StartWifi
  <2>4. Typed' /\ Holds'
    BY <1>4, <2>3 DEF StartWifi, Holds
  <2>5. LoopFirst' /\ FirstStart' /\ Left'
    BY <1>4, <2>1, <2>2, <2>3 DEF StartWifi, LoopFirst, FirstStart, Left
  <2> QED
    BY <2>4, <2>5
<1>5. CASE Connect(c)
  <2>1. "loop" \in made /\ task \notin {"down", "ended"}
    BY <1>5 DEF Connect, LoopFirst, FirstStart
  <2>2. \A d \in Callers : pc'[d] \notin Body
    BY <1>5 DEF Connect, Holds
  <2>3. bits' \subseteq Followed
    BY <1>5, UpdateFollows DEF Connect
  <2>4. Typed' /\ Holds'
    BY <1>5, <2>3 DEF Connect, Holds
  <2>5. LoopFirst' /\ FirstStart' /\ Left'
    BY <1>5, <2>1, <2>2 DEF Connect, LoopFirst, FirstStart, Left
  <2> QED
    BY <2>4, <2>5
<1> QED
  BY <1>1, <1>2, <1>3, <1>4, <1>5 DEF CreateNetifs

(* The other calls: they put orders into a queue that is there, and change  *)
(* the mode of a driver that is up.                                         *)
LEMMA CallPreserves ==
  ASSUME IInv,
         \/ \E c \in Callers : Send(c) \/ \E o \in Orders : Order(c, o)
         \/ SetConfig \/ ReportEthernet \/ ApStarts
  PROVE  IInv'
<1> USE HoldersAssumption DEF IInv, Typed, Late, Body, Orders, Goto, Nothing
<1>1. ASSUME NEW c \in Callers, Send(c)
      PROVE  IInv'
  <2>0. Harmless
    <3>1. PICK set \in {{}, {"CMD_STA_CONNECT"}} : Update({}, set)
      BY <1>1 DEF Send
    <3>2. set \cap (StaysCleared \cup {"IS_WORKING"}) = {}
      BY DEF StaysCleared, EndClears
    <3> QED
      BY <3>1, <3>2, UpdateFollows
  <2>1. queue = NoQueue => queue' = NoQueue
    BY <1>1 DEF Send
  <2>2. Typed' /\ Holds'
    BY <1>1, <2>0 DEF Send, Holds, Harmless
  <2>3. LoopFirst' /\ FirstStart'
    BY <1>1, <2>1 DEF Send, LoopFirst, FirstStart
  <2>4. Left'
    BY <1>1, <2>0, <2>1 DEF Send, Left, Holds, Harmless
  <2> QED
    BY <2>2, <2>3, <2>4
<1>2. ASSUME NEW c \in Callers, NEW o \in Orders, Order(c, o)
      PROVE  IInv'
  <2>1. Typed' /\ Holds'
    BY <1>2 DEF Order, Holds
  <2>2. LoopFirst' /\ FirstStart' /\ Left'
    BY <1>2 DEF Order, LoopFirst, FirstStart, Left
  <2> QED
    BY <2>1, <2>2
<1>3. CASE SetConfig
  <2>1. "driver" \notin up => mode' = mode
    BY <1>3 DEF SetConfig, SetMode
  <2> QED
    BY <1>3, <2>1 DEF SetConfig, Holds, LoopFirst, FirstStart, Left
<1>4. CASE ReportEthernet \/ ApStarts
  <2>1. PICK clear, set : /\ Update(clear, set)
                          /\ set \subseteq {"ETH_CONNECTED", "AP_STARTED"}
    BY <1>4 DEF ReportEthernet, ApStarts
  <2>2. Harmless
    BY <2>1, UpdateFollows DEF StaysCleared, EndClears
  <2>3. UNCHANGED <<pc, owner, made, up, queue, mode, task>>
    BY <1>4 DEF ReportEthernet, ApStarts
  <2> QED
    BY <2>2, <2>3 DEF Holds, LoopFirst, FirstStart, Left, Harmless
<1> QED
  BY <1>1, <1>2, <1>3, <1>4

(* The task, which is there only after a start got to its end.              *)
LEMMA TaskPreserves ==
  ASSUME IInv, TaskStarts \/ Handle \/ TaskEnds \/ TakeDown
  PROVE  IInv'
<1> USE HoldersAssumption DEF IInv, Typed, Late, Body, Orders, Parts, Handlers, Nothing
<1>1. CASE TaskStarts
  BY <1>1 DEF TaskStarts, Holds, LoopFirst, FirstStart, Left
<1>2. CASE Handle
  <2>1. /\ task = "running" /\ task' \in {"running", "ending"}
        /\ UNCHANGED <<pc, owner, made, up>>
    BY <1>2 DEF Handle, HandleStartAp, HandleStopAp, HandleConnect, HandleOther, HandleStop, Take
  <2>2. bits' = bits \/ \E clear, set : Update(clear, set)
    BY <1>2 DEF Handle, HandleStartAp, HandleStopAp, HandleConnect, HandleOther, HandleStop
  <2>3. bits' \subseteq Followed
    BY <2>2, UpdateFollows
  <2> QED
    BY <2>1, <2>3 DEF Holds, LoopFirst, FirstStart, Left
<1>3. CASE TaskEnds
  <2>1. \A c \in Callers : pc[c] \notin Body
    BY <1>3 DEF TaskEnds, Holds
  <2>2. /\ bits' \subseteq Followed /\ bits' \cap StaysCleared = {}
        /\ "IS_WORKING" \notin bits'
    BY <1>3 DEF TaskEnds, Update, StaysCleared, EndClears
  <2> QED
    BY <1>3, <2>1, <2>2 DEF TaskEnds, Holds, LoopFirst, FirstStart, Left
<1>4. CASE TakeDown
  <2>1. \A c \in Callers : pc[c] \notin Body \cup Orders
    BY <1>4 DEF TakeDown, Holds
  <2> QED
    BY <1>4, <2>1 DEF TakeDown, Holds, LoopFirst, FirstStart, Left
<1> QED
  BY <1>1, <1>2, <1>3, <1>4

(* Every step of a caller or of the task keeps it.                          *)
LEMMA NextInductive == IInv /\ [Next]_vars => IInv'
<1> SUFFICES ASSUME IInv, [Next]_vars
             PROVE  IInv'
  OBVIOUS
<1>1. ASSUME NEW c \in Callers, Starting(c)
      PROVE  IInv'
  BY <1>1, EnterPreserves, BeginPreserves, BringUpPreserves DEF Starting
<1>2. CASE UNCHANGED vars
  BY <1>2 DEF vars, IInv, Typed, Holds, LoopFirst, FirstStart, Left, Nothing
<1> QED
  BY <1>1, <1>2, CallPreserves, TaskPreserves DEF Next

(* Only the start that created the event loop is ever behind it.            *)
THEOREM InvariantHolds == Spec => []IInv
BY InitInductive, NextInductive, PTL DEF Spec

(* dns_server_init and http_server_init never run a second time, so their   *)
(* assertions hold; queue, driver and task are made at most once.           *)
THEOREM InitRunsOnceCorrect == Spec => []InitRunsOnce
<1>1. IInv => InitRunsOnce
  BY DEF IInv, FirstStart, Nothing, InitRunsOnce
<1> QED
  BY <1>1, InvariantHolds, PTL

(* After its end the queue, the driver and the handlers are gone and the    *)
(* event group holds only bits that the end does not clear, and AP_STARTED, *)
(* whatever calls and events cross it or follow (wifi_manager.c:350-393).   *)
THEOREM EndLeavesOnlyKeptCorrect == Spec => []EndLeavesOnlyKept
<1>1. IInv => EndLeavesOnlyKept
  BY FollowedAssumption DEF IInv, Typed, Left, StaysCleared, EndLeavesOnlyKept
<1> QED
  BY <1>1, InvariantHolds, PTL

=============================================================================
