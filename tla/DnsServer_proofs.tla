-------------------------- MODULE DnsServer_proofs --------------------------
(* Proofs about DnsServer. *)
EXTENDS DnsServer, TLAPS

(* Where a thread has a timer, has started it, has a socket, has bound it. *)
Armed == Serving \cup {"unwatch", "disarm"}
Timed == Armed \cup {"watch", "arm"}
Bound == Timed \cup {"alloc", "close"}
Open == Bound \cup {"bind"}

DnsTypes ==
  /\ pc \in [Tasks -> Registered \cup {"none", "created"}]
  /\ owner \in Tasks \cup {NoTask}
  /\ socket \in [Tasks -> {"none", "open", "bound"}]
  /\ watched \subseteq Tasks
  /\ timer \in {"none", "created", "armed"}

SocketInv ==
  \A t \in Tasks : /\ socket[t] # "none" => pc[t] \in Open
                   /\ socket[t] = "bound" => pc[t] \in Bound

WatchInv == \A t \in watched : pc[t] \in Serving \cup {"arm", "unwatch"}

TimerInv ==
  /\ \A t \in Tasks : /\ pc[t] \in Armed => timer = "armed"
                      /\ pc[t] \in {"watch", "arm"} => timer = "created"
  /\ timer # "none" => \E t \in Tasks : pc[t] \in Timed

DnsInv == DnsTypes /\ OneServer /\ SocketInv /\ WatchInv /\ TimerInv

LEMMA DnsInit == Init => DnsInv
BY NoTaskAssumption
DEF Init, DnsInv, DnsTypes, OneServer, SocketInv, WatchInv, TimerInv,
    Registered, Starting, Serving, Ending, Armed, Timed, Bound, Open

(* Steps that leave the threads and what they hold alone, and the start of  *)
(* one more.                                                                *)
LEMMA OthersKeepInv ==
  ASSUME DnsInv, UNCHANGED <<owner, held>>, DnsStart
  PROVE  DnsInv'
BY NoTaskAssumption
DEF DnsStart, held, DnsInv, DnsTypes, OneServer, SocketInv, WatchInv, TimerInv,
    Registered, Starting, Serving, Ending, Armed, Timed, Bound, Open

LEMMA DnsStep == DnsInv /\ [Next]_vars => DnsInv'
<1> SUFFICES ASSUME DnsInv, [Next]_vars PROVE DnsInv'
  OBVIOUS
<1>1. CASE PhoneJoins \/ PhoneLeaves \/ PhoneGetsAddress \/ WifiChanges \/ UNCHANGED vars
  BY <1>1, OthersKeepInv
  DEF PhoneJoins, PhoneLeaves, PhoneGetsAddress, WifiChanges, vars, air, held, DnsStart
<1>2. CASE Handle \/ DeleteConnect \/ TimerFires
  BY <1>2, OthersKeepInv
  DEF Handle, HandleJoined, HandleLeft, HandleAssigned, DeleteConnect, TimerFires, air, held,
      DnsStart
<1>3. ASSUME NEW t \in Tasks, TaskStep(t) PROVE DnsInv'
  <2> USE NoTaskAssumption
      DEF DnsInv, DnsTypes, OneServer, SocketInv, WatchInv, TimerInv,
          Registered, Starting, Serving, Ending, Armed, Timed, Bound, Open, Goto, held, air
  <2>1. CASE Register(t)
    BY <2>1 DEF Register
  <2>2. CASE GiveUp(t)
    BY <2>2 DEF GiveUp
  <2>3. CASE OpenSocket(t)
    BY <2>3 DEF OpenSocket
  <2>4. CASE Bind(t)
    BY <2>4 DEF Bind
  <2>5. CASE Allocate(t)
    BY <2>5 DEF Allocate
  <2>6. CASE Watch(t)
    BY <2>6 DEF Watch
  <2>7. CASE Arm(t)
    BY <2>7 DEF Arm
  <2>8. CASE TakeSignals(t)
    BY <2>8 DEF TakeSignals
  <2>9. CASE HandleReq(t)
    BY <2>9 DEF HandleReq
  <2>10. CASE Unwatch(t)
    BY <2>10 DEF Unwatch
  <2>11. CASE Disarm(t)
    BY <2>11 DEF Disarm
  <2>12. CASE Close(t)
    BY <2>12 DEF Close
  <2>13. CASE Unregister(t)
    BY <2>13 DEF Unregister
  <2> QED
    BY <1>3, <2>1, <2>2, <2>3, <2>4, <2>5, <2>6, <2>7, <2>8, <2>9, <2>10, <2>11, <2>12, <2>13
    DEF TaskStep
<1> QED
  BY <1>1, <1>2, <1>3 DEF Next

LEMMA DnsInvHolds == Spec => []DnsInv
BY DnsInit, DnsStep, PTL DEF Spec

(* dns_server_task: for any number of threads, starts, stops and failures,  *)
(* the threads past their registration are one, the registered one.         *)
THEOREM OneServerCorrect == Spec => []OneServer
<1>1. DnsInv => OneServer
  BY DEF DnsInv
<1> QED
  BY <1>1, DnsInvHolds, PTL

(* Every way out of dns_server_task gives back the socket, the place in the *)
(* task watchdog and the timer before another thread may register.          *)
THEOREM NothingLeftCorrect == Spec => []NothingLeft
<1>1. DnsInv => NothingLeft
  BY NoTaskAssumption
  DEF DnsInv, DnsTypes, OneServer, SocketInv, WatchInv, TimerInv, NothingLeft,
      Registered, Starting, Serving, Ending, Armed, Timed, Bound, Open
<1> QED
  BY <1>1, DnsInvHolds, PTL

(* The task watchdog waits only for a thread whose feed timer exists.       *)
THEOREM WatchedIsFedCorrect == Spec => []WatchedIsFed
<1>1. DnsInv => WatchedIsFed
  BY DEF DnsInv, DnsTypes, WatchInv, TimerInv, WatchedIsFed, Armed, Timed, Serving
<1> QED
  BY <1>1, DnsInvHolds, PTL

(* A thread that comes to bind never finds port 53 taken by another thread  *)
(* of the server: bind at line 362 fails only for other reasons.            *)
PortIsFree == \A t \in Tasks : pc[t] = "bind" => ~PortIsTaken

THEOREM PortIsFreeCorrect == Spec => []PortIsFree
<1>1. DnsInv => PortIsFree
  BY DEF DnsInv, DnsTypes, OneServer, SocketInv, PortIsFree, PortIsTaken,
         Registered, Starting, Serving, Ending, Armed, Timed, Bound
<1> QED
  BY <1>1, DnsInvHolds, PTL

(* What the event loop, the queue and the signals hold. *)
AirTypes ==
  /\ phones \in 0..MaxPhones
  /\ queue \in Seq(ApEvents) /\ Len(queue) <= Capacity
  /\ apBits \subseteq ApBits
  /\ wifi \in BOOLEAN
  /\ pending \subseteq Signals

LEMMA TellKeepsQueue ==
  ASSUME queue \in Seq(ApEvents), NEW e \in ApEvents, Tell(e)
  PROVE  queue' \in Seq(ApEvents) /\ Len(queue') <= Capacity
BY BoundsAssumption DEF Tell

LEMMA TakeKeepsQueue ==
  ASSUME AirTypes, NEW e, Take(e)
  PROVE  queue' \in Seq(ApEvents) /\ Len(queue') <= Capacity
<1>1. Tail(queue) \in Seq(ApEvents) /\ Len(Tail(queue)) = Len(queue) - 1 /\ Len(queue) \in Nat
  BY DEF Take, AirTypes
<1> QED
  BY <1>1, BoundsAssumption DEF Take, AirTypes

LEMMA AirStep == AirTypes /\ [Next]_vars => AirTypes'
<1> SUFFICES ASSUME AirTypes, [Next]_vars PROVE AirTypes'
  OBVIOUS
<1>1. CASE PhoneJoins
  BY <1>1, TellKeepsQueue, BoundsAssumption DEF PhoneJoins, AirTypes, ApEvents
<1>2. CASE PhoneLeaves
  BY <1>2, TellKeepsQueue, BoundsAssumption DEF PhoneLeaves, AirTypes, ApEvents
<1>3. CASE PhoneGetsAddress
  BY <1>3, TellKeepsQueue DEF PhoneGetsAddress, AirTypes, ApEvents
<1>4. CASE WifiChanges
  BY <1>4 DEF WifiChanges, AirTypes
<1>5. CASE HandleJoined
  BY <1>5, TakeKeepsQueue DEF HandleJoined, AirTypes, ApBits
<1>6. CASE HandleLeft
  BY <1>6, TakeKeepsQueue DEF HandleLeft, DnsStop, AirTypes, Signals
<1>7. CASE HandleAssigned
  BY <1>7, TakeKeepsQueue DEF HandleAssigned, AirTypes, ApBits
<1>8. CASE DeleteConnect
  BY <1>8 DEF DeleteConnect, DnsStop, air, AirTypes, Signals
<1>9. CASE TimerFires
  BY <1>9 DEF TimerFires, air, AirTypes, Signals
<1>10. ASSUME NEW t \in Tasks, TaskStep(t) PROVE AirTypes'
  <2>1. UNCHANGED air /\ pending' \in {pending, {}}
    BY <1>10
    DEF TaskStep, Register, GiveUp, OpenSocket, Bind, Allocate, Watch, Arm, TakeSignals, HandleReq,
        Unwatch, Disarm, Close, Unregister
  <2> QED
    BY <2>1 DEF air, AirTypes
<1>11. CASE UNCHANGED vars
  BY <1>11 DEF vars, air, AirTypes
<1> QED
  BY <1>1, <1>2, <1>3, <1>4, <1>5, <1>6, <1>7, <1>8, <1>9, <1>10, <1>11 DEF Next, Handle

(* The variables have their types; the event loop, which waits for room,    *)
(* never has the queue of the messages hold more than its length            *)
(* (wifiman_msg.c:178).                                                     *)
THEOREM TypeCorrect == Spec => []TypeOK
<1>1. Init => AirTypes
  BY BoundsAssumption DEF Init, AirTypes
<1>2. DnsInv /\ AirTypes => TypeOK
  BY DEF DnsInv, DnsTypes, AirTypes, TypeOK
<1> QED
  BY <1>1, <1>2, AirStep, DnsInvHolds, PTL DEF Spec
=============================================================================
