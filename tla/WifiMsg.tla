------------------------------ MODULE WifiMsg ------------------------------
(***************************************************************************)
(* The message queue of the wifi_manager task (wifiman_msg.c), the         *)
(* recursive mutex that protects it (wifi_manager_lock, unlock), and the   *)
(* threads around them: the wifi_manager task that receives and handles,   *)
(* the threads that call the API (the application, the HTTP server and the *)
(* ESP event loop), and the FreeRTOS timer daemon, which sends like any    *)
(* other caller and also feeds the task watchdog.                          *)
(*                                                                         *)
(* A message is its class, that is what handling it does with the mutex    *)
(* and the queue:                                                          *)
(*   "order"   neither (START_AP, CONNECT_ETH, EVENT_STA_GOT_IP, ...)      *)
(*   "relay"   may send one message to its own queue (CONNECT_STA,         *)
(*             DISCONNECT_STA, EVENT_STA_DISCONNECTED, START_WIFI_SCAN)    *)
(*   "locked"  takes the mutex (EVENT_SCAN_DONE, a failed EVENT_SCAN_NEXT) *)
(*   "feed"    ORDER_TASK_WATCHDOG_FEED                                    *)
(*   "stop"    ORDER_STOP_AND_DESTROY                                      *)
(***************************************************************************)
EXTENDS Naturals, Sequences, FiniteSets

CONSTANTS
  Clients,    (* the threads that call the API                             *)
  Starter,    (* the client inside wifi_manager_start when the model begins*)
  Task,       (* the wifi_manager task                                     *)
  Timer,      (* the FreeRTOS timer daemon                                 *)
  NoThread,   (* nobody: the owner of a free mutex                         *)
  Capacity,   (* queue_length in wifiman_msg_init                          *)
  Window      (* bound: callers start a send only while fewer commands     *)
              (* than this are unfinished (at least 8 never restricts      *)
              (* three callers and a queue of three)                       *)

ASSUME ThreadsAssumption ==
  /\ Starter \in Clients
  /\ Task \notin Clients
  /\ Timer \notin Clients
  /\ Task # Timer
  /\ NoThread \notin Clients \cup {Task, Timer}

ASSUME CapacityAssumption == Capacity \in Nat \ {0}

Callers == Clients \cup {Timer}
Threads == Callers \cup {Task}

Posted   == {"order", "relay", "locked", "stop"}
Relayed  == {"order", "relay", "locked"}
Messages == Posted \cup {"feed"}

VARIABLES
  queue,      (* contents of gh_wifiman_msg_queue                          *)
  qOpen,      (* gh_wifiman_msg_queue is not NULL                          *)
  owner,      (* holder of g_p_wifi_mutex                                  *)
  depth,      (* its recursion count                                       *)
  feedActive, (* g_wifiman_msg_flag_wdog_feed_active                       *)
  timerOn,    (* the periodic watchdog timer of the task is running        *)
  pc,         (* where each thread is                                      *)
  job,        (* the message it sends, or the one the task handles         *)
  nested      (* its send is inside a locked section of its own            *)

vars == <<queue, qOpen, owner, depth, feedActive, timerOn, pc, job, nested>>
mutexVars == <<owner, depth>>
queueVars == <<queue, qOpen>>
wdogVars  == <<feedActive, timerOn>>

Home(t) == IF t = Task THEN "recv" ELSE "idle"

(* wifi_manager_start still holds the mutex when wifi_manager_init has      *)
(* created the queue and the task and is about to send CONNECT_STA.         *)
Init ==
  /\ queue = <<>>
  /\ qOpen = TRUE
  /\ owner = Starter
  /\ depth = 1
  /\ feedActive = FALSE
  /\ timerOn = FALSE
  /\ pc = [t \in Threads |-> IF t = Starter THEN "guarded"
                             ELSE IF t = Task THEN "init" ELSE "idle"]
  /\ job = [t \in Threads |-> IF t = Starter THEN "relay" ELSE "none"]
  /\ nested = [t \in Threads |-> t = Starter]

-----------------------------------------------------------------------------
(* The recursive mutex. *)

(* Mutated form: a mutex that anyone may enter. *)
AcquireFreely(t) == owner' = t /\ depth' = depth + 1

Acquire(t) ==
  /\ owner \in {NoThread, t}
  /\ owner' = t
  /\ depth' = depth + 1

Release(t) ==
  /\ depth' = depth - 1
  /\ owner' = IF depth = 1 THEN NoThread ELSE owner

At(t, from) == pc[t] = from
Goto(t, to) == pc' = [pc EXCEPT ![t] = to]

(* A thread returns to where it waits for its next job. *)
GoHome(t) ==
  /\ Goto(t, Home(t))
  /\ job' = [job EXCEPT ![t] = "none"]
  /\ nested' = [nested EXCEPT ![t] = FALSE]

-----------------------------------------------------------------------------
(* The calls. *)

Sending == {"outer", "guarded", "lock", "check", "post"}

(* The commands that were started and whose handling has not ended. *)
Unfinished ==
  Cardinality({t \in Callers : pc[t] \in Sending /\ job[t] # "feed"})
    + Cardinality({i \in DOMAIN queue : queue[i] # "feed"})
    + (IF job[Task] \in {"none", "feed"} THEN 0 ELSE 1)

(* A wifiman_msg_send_* function is called, by a caller that may hold the   *)
(* mutex already (n: wifi_manager_scan_sync).                              *)
CallSend(t, m, n) ==
  /\ At(t, "idle")
  /\ Unfinished < Window
  /\ job' = [job EXCEPT ![t] = m]
  /\ nested' = [nested EXCEPT ![t] = n]
  /\ Goto(t, IF n THEN "outer" ELSE "lock")
  /\ UNCHANGED <<queueVars, mutexVars, wdogVars>>

(* The periodic timer calls wifiman_msg_send_cmd_task_watchdog_feed. *)
CallFeed ==
  /\ At(Timer, "idle")
  /\ timerOn
  /\ job' = [job EXCEPT ![Timer] = "feed"]
  /\ nested' = [nested EXCEPT ![Timer] = TRUE]
  /\ Goto(Timer, "outer")
  /\ UNCHANGED <<queueVars, mutexVars, wdogVars>>

(* wifi_manager_lock of a section of the caller's or the handler's own. *)
EnterSection(t) ==
  /\ At(t, "outer")
  /\ Acquire(t)
  /\ Goto(t, "guarded")
  /\ UNCHANGED <<queueVars, wdogVars, job, nested>>

(* The section sends. *)
SendInSection(t) ==
  /\ At(t, "guarded")
  /\ job[t] # "feed"
  /\ Goto(t, "lock")
  /\ UNCHANGED <<queueVars, mutexVars, wdogVars, job, nested>>

(* The section ends without sending: no connection was asked for, or       *)
(* another thread is already scanning.                                     *)
SkipInSection(t) ==
  /\ At(t, "guarded")
  /\ job[t] # "feed"
  /\ Goto(t, "leave")
  /\ UNCHANGED <<queueVars, mutexVars, wdogVars, job, nested>>

(* Mutated form: the flag is not consulted. *)
FeedAlways ==
  /\ At(Timer, "guarded")
  /\ job[Timer] = "feed"
  /\ feedActive' = TRUE
  /\ Goto(Timer, "lock")
  /\ UNCHANGED <<queueVars, mutexVars, timerOn, job, nested>>

(* At most one feed message is under way. *)
FeedInSection ==
  /\ At(Timer, "guarded")
  /\ job[Timer] = "feed"
  /\ feedActive' = TRUE
  /\ Goto(Timer, IF feedActive THEN "leave" ELSE "lock")
  /\ UNCHANGED <<queueVars, mutexVars, timerOn, job, nested>>

(* Mutated form: the send is not protected by the mutex. *)
SendUnprotected(t) ==
  /\ At(t, "lock")
  /\ Goto(t, "check")
  /\ UNCHANGED <<queueVars, mutexVars, wdogVars, job, nested>>

SendLock(t) ==
  /\ At(t, "lock")
  /\ Acquire(t)
  /\ Goto(t, "check")
  /\ UNCHANGED <<queueVars, wdogVars, job, nested>>

(* NULL == gh_wifiman_msg_queue *)
CheckQueue(t) ==
  /\ At(t, "check")
  /\ Goto(t, IF qOpen THEN "post" ELSE "unlock")
  /\ UNCHANGED <<queueVars, mutexVars, wdogVars, job, nested>>

(* xQueueSend waits for room, with the mutex held. *)
Post(t) ==
  /\ At(t, "post")
  /\ Len(queue) < Capacity
  /\ queue' = Append(queue, job[t])
  /\ Goto(t, "unlock")
  /\ UNCHANGED <<qOpen, mutexVars, wdogVars, job, nested>>

(* The feed command does not wait; its result is ignored. *)
PostRefused(t) ==
  /\ At(t, "post")
  /\ job[t] = "feed"
  /\ Len(queue) = Capacity
  /\ Goto(t, "unlock")
  /\ UNCHANGED <<queueVars, mutexVars, wdogVars, job, nested>>

(* Mutated form: a send to a queue that is gone is tried again. *)
SendRetries(t) ==
  /\ At(t, "unlock")
  /\ Release(t)
  /\ IF ~qOpen THEN Goto(t, "lock") /\ UNCHANGED <<job, nested>>
     ELSE IF nested[t] THEN Goto(t, "leave") /\ UNCHANGED <<job, nested>>
     ELSE GoHome(t)
  /\ UNCHANGED <<queueVars, wdogVars>>

SendUnlock(t) ==
  /\ At(t, "unlock")
  /\ Release(t)
  /\ IF nested[t] THEN Goto(t, "leave") /\ UNCHANGED <<job, nested>>
                  ELSE GoHome(t)
  /\ UNCHANGED <<queueVars, wdogVars>>

(* wifi_manager_unlock of the outer section; the task ends with it when it *)
(* has deleted the queue.                                                  *)
LeaveSection(t) ==
  /\ At(t, "leave")
  /\ Release(t)
  /\ IF t = Task /\ ~qOpen
       THEN /\ Goto(t, "done")
            /\ job' = [job EXCEPT ![t] = "none"]
            /\ UNCHANGED nested
       ELSE GoHome(t)
  /\ UNCHANGED <<queueVars, wdogVars>>

-----------------------------------------------------------------------------
(* The wifi_manager task. *)

TaskInit ==
  /\ At(Task, "init")
  /\ timerOn' = TRUE
  /\ Goto(Task, "recv")
  /\ UNCHANGED <<queueVars, mutexVars, feedActive, job, nested>>

Recv ==
  /\ At(Task, "recv")
  /\ queue # <<>>
  /\ job' = [job EXCEPT ![Task] = Head(queue)]
  /\ queue' = Tail(queue)
  /\ Goto(Task, "handle")
  /\ UNCHANGED <<qOpen, mutexVars, wdogVars, nested>>

(* Mutated form: the order to stop is handled like the others. *)
HandleStopToo ==
  /\ At(Task, "handle")
  /\ job[Task] \in {"order", "relay", "locked", "stop"}
  /\ GoHome(Task)
  /\ UNCHANGED <<queueVars, mutexVars, wdogVars>>

(* The handlers that end without the mutex and without sending. *)
HandlePlain ==
  /\ At(Task, "handle")
  /\ job[Task] \in {"order", "relay", "locked"}
  /\ GoHome(Task)
  /\ UNCHANGED <<queueVars, mutexVars, wdogVars>>

(* The handlers that send to the task's own queue. *)
HandleRelay(m) ==
  /\ At(Task, "handle")
  /\ job[Task] = "relay"
  /\ job' = [job EXCEPT ![Task] = m]
  /\ Goto(Task, "lock")
  /\ UNCHANGED <<queueVars, mutexVars, wdogVars, nested>>

(* Mutated form: the task deletes the queue without taking the mutex. *)
StopUnlocked ==
  /\ At(Task, "handle")
  /\ job[Task] = "stop"
  /\ queue' = <<>>
  /\ qOpen' = FALSE
  /\ timerOn' = FALSE
  /\ Goto(Task, "done")
  /\ UNCHANGED <<mutexVars, feedActive, job, nested>>

(* The handlers that need the mutex, and the end of the task. *)
HandleLocked ==
  /\ At(Task, "handle")
  /\ job[Task] \in {"locked", "feed", "stop"}
  /\ Goto(Task, "outer")
  /\ UNCHANGED <<queueVars, mutexVars, wdogVars, job, nested>>

(* The section of the scan handlers. *)
ScanSection ==
  /\ At(Task, "guarded")
  /\ job[Task] = "locked"
  /\ Goto(Task, "leave")
  /\ UNCHANGED <<queueVars, mutexVars, wdogVars, job, nested>>

(* Mutated form: the flag is cleared only by the next feed that is sent. *)
FeedForgotten ==
  /\ At(Task, "guarded")
  /\ job[Task] = "feed"
  /\ Goto(Task, "leave")
  /\ UNCHANGED <<queueVars, mutexVars, wdogVars, job, nested>>

(* wifiman_msg_clear_flag_wdog_feed_active *)
FeedSection ==
  /\ At(Task, "guarded")
  /\ job[Task] = "feed"
  /\ feedActive' = FALSE
  /\ Goto(Task, "leave")
  /\ UNCHANGED <<queueVars, mutexVars, timerOn, job, nested>>

(* The end of wifi_manager_task: timer deleted, queue deleted. *)
Teardown ==
  /\ At(Task, "guarded")
  /\ job[Task] = "stop"
  /\ queue' = <<>>
  /\ qOpen' = FALSE
  /\ timerOn' = FALSE
  /\ Goto(Task, "leave")
  /\ UNCHANGED <<mutexVars, feedActive, job, nested>>

-----------------------------------------------------------------------------
SendStep(t) ==
  \/ SendLock(t) \/ CheckQueue(t) \/ Post(t) \/ PostRefused(t)
  \/ SendUnlock(t) \/ EnterSection(t) \/ LeaveSection(t)

CallerStep(t) == SendInSection(t) \/ SkipInSection(t)

TaskStep ==
  \/ TaskInit \/ Recv \/ HandlePlain \/ (\E m \in Relayed : HandleRelay(m))
  \/ HandleLocked \/ ScanSection \/ FeedSection \/ Teardown

Next ==
  \/ \E t \in Callers, m \in Posted, n \in BOOLEAN : CallSend(t, m, n)
  \/ CallFeed
  \/ FeedInSection
  \/ \E t \in Callers : CallerStep(t)
  \/ \E t \in Threads : SendStep(t)
  \/ TaskStep

(* Every thread that can run eventually does. Waiters of a FreeRTOS mutex  *)
(* are served in priority order, hence strong fairness on the two locks;   *)
(* nobody is obliged to make a call.                                       *)
Fairness ==
  /\ \A t \in Threads : /\ WF_vars(SendStep(t))
                        /\ SF_vars(EnterSection(t))
                        /\ SF_vars(SendLock(t))
  /\ \A t \in Callers : WF_vars(CallerStep(t))
  /\ WF_vars(FeedInSection)
  /\ WF_vars(TaskStep)

Spec == Init /\ [][Next]_vars
FairSpec == Spec /\ Fairness

-----------------------------------------------------------------------------
(* Properties. *)

Places == {"idle", "outer", "guarded", "lock", "check", "post", "unlock",
           "leave", "init", "recv", "handle", "done"}

(* The variables have their types: the recursion count of the mutex never  *)
(* underflows and the queue holds messages only.                           *)
TypeOK ==
  /\ queue \in Seq(Messages)
  /\ qOpen \in BOOLEAN
  /\ owner \in Threads \cup {NoThread}
  /\ depth \in Nat
  /\ feedActive \in BOOLEAN
  /\ timerOn \in BOOLEAN
  /\ pc \in [Threads -> Places]
  /\ job \in [Threads -> Messages \cup {"none"}]
  /\ nested \in [Threads -> BOOLEAN]

(* How many times thread t has locked the mutex, from where it is. *)
Levels(t) ==
  LET own == IF nested[t] THEN 1 ELSE 0 IN
  IF pc[t] \in {"guarded", "leave"} THEN 1
  ELSE IF pc[t] = "lock" THEN own
  ELSE IF pc[t] \in {"check", "post", "unlock"} THEN own + 1
  ELSE 0

(* wifi_manager_lock: the recursion count is exactly what the one thread   *)
(* inside a locked section has locked and not yet unlocked, on every       *)
(* return path of the nested sections.                                     *)
MutexInv ==
  /\ owner = NoThread => depth = 0
  /\ \A t \in Threads : IF owner = t THEN depth = Levels(t) /\ depth > 0
                                     ELSE Levels(t) = 0

(* wifiman_msg.c:161: the queue is deleted asynchronously, and still no    *)
(* thread is ever between the NULL test and xQueueSend on a deleted queue. *)
NoSendOnDeletedQueue == \A t \in Threads : pc[t] = "post" => qOpen

(* The task has taken a feed command and not cleared the flag yet. *)
FeedInHand == job[Task] = "feed" /\ pc[Task] \in {"handle", "outer", "guarded"}

(* A watchdog that fires faster than the task works never fills the queue: *)
(* of all the feed commands, in the queue or being handled, there is at    *)
(* most one.                                                               *)
AtMostOneFeed ==
  /\ \A i, j \in DOMAIN queue : queue[i] = "feed" /\ queue[j] = "feed" => i = j
  /\ FeedInHand => \A i \in DOMAIN queue : queue[i] # "feed"

(* The queue and its threads implement the channel of WifiChannel. *)
Channel == INSTANCE WifiChannel WITH box <- queue, open <- qOpen
ImplementsChannel == Channel!ChannelSpec

(* A call into the manager returns, before, while and after the manager is *)
(* stopped, as long as the commands under way leave a slot of the queue    *)
(* free.                                                                   *)
CallsReturn == \A t \in Callers : pc[t] # "idle" ~> pc[t] = "idle"

(* A feed command that was accepted reaches the task, so that the next one *)
(* is sent, unless the manager is stopped first.                           *)
WatchdogIsFed == feedActive ~> (~feedActive \/ ~qOpen)

(* ORDER_STOP_AND_DESTROY, once queued, ends the task. *)
StopEndsTask ==
  (\E i \in DOMAIN queue : queue[i] = "stop") ~> pc[Task] = "done"

(* wifi_manager_internal.h:104: other threads can call wifi_manager while  *)
(* it is de-initializing: the task that waits for the mutex to tear down   *)
(* never waits for a thread that waits for room in the task's queue.       *)
CallersAndTeardownDoNotBlock ==
  ~ /\ pc[Task] = "outer"
    /\ job[Task] = "stop"
    /\ owner # NoThread
    /\ pc[owner] = "post"
    /\ Len(queue) = Capacity
    /\ job[owner] # "feed"
=============================================================================
