------------------------------ MODULE WifiScan ------------------------------
(***************************************************************************)
(* Scanning for access points: wifi_manager_scan_sync, which any thread    *)
(* may call and which waits, and the chain of messages that scans channel  *)
(* by channel (ORDER_START_WIFI_SCAN, a timer, EVENT_SCAN_NEXT, the        *)
(* driver, EVENT_SCAN_DONE, the timer, ...), with the disconnections of    *)
(* the station that may cut the chain.                                     *)
(*                                                                         *)
(* The sections of scan_sync and the handlers are one action each: the     *)
(* wifi_manager mutex is around the former, and around what the handlers   *)
(* do with the semaphore. Of an access point nothing is modelled but the   *)
(* channel it was found on.                                                *)
(***************************************************************************)
EXTENDS Naturals, Sequences, FiniteSets

CONSTANTS
  Clients,    (* threads that call wifi_manager_scan_sync                  *)
  NoClient,   (* nobody                                                    *)
  LastChan,   (* schan + nchan - 1 of the Wi-Fi country                    *)
  MaxLosses,  (* bound: disconnections of the station                      *)
  DropsScan   (* the driver may forget its scan when it is disconnected    *)

ASSUME ScanAssumption ==
  /\ NoClient \notin Clients
  /\ LastChan \in Nat \ {0} /\ MaxLosses \in Nat /\ DropsScan \in BOOLEAN

Messages == {"start", "next", "done", "lost"}

VARIABLES
  queue,      (* the messages to the wifi_manager task about scanning      *)
  scanBit,    (* WIFI_MANAGER_SCAN_BIT                                     *)
  curChan,    (* g_wifi_scan_info.cur_chan                                 *)
  timer,      (* the scan timer is running                                 *)
  scanning,   (* the driver is scanning curChan                            *)
  sema,       (* g_p_scan_sync_sema: "null", "taken" or "given"            *)
  owner,      (* who created it                                            *)
  pc,         (* each client: "idle", "waiting" or "woken"                 *)
  seen,       (* channels whose records were read since the start          *)
  errors,     (* the driver refused something since the start              *)
  dropped,    (* the driver has forgotten a scan                           *)
  losses      (* disconnections so far                                     *)

faults == <<dropped, losses>>
vars == <<queue, scanBit, curChan, timer, scanning, sema, owner, pc, seen, errors, faults>>
clientVars == <<owner, pc>>
chain == <<curChan, timer, scanning, seen, errors>>

Init ==
  /\ queue = <<>> /\ scanBit = FALSE
  /\ curChan = 0 /\ timer = FALSE /\ scanning = FALSE
  /\ sema = "null" /\ owner = NoClient
  /\ pc = [c \in Clients |-> "idle"]
  /\ seen = {} /\ errors = FALSE /\ dropped = FALSE /\ losses = 0

-----------------------------------------------------------------------------
(* wifi_manager_scan_sync *)

(* Mutated form: the second caller is not turned away. *)
ScanSyncTwice(c) ==
  /\ pc[c] = "idle"
  /\ sema' = "taken" /\ owner' = c
  /\ pc' = [pc EXCEPT ![c] = "waiting"]
  /\ queue' = Append(queue, "start")
  /\ UNCHANGED <<scanBit, chain, faults>>

(* A caller that finds the semaphore in use returns at once: no step. *)
ScanSync(c) ==
  /\ pc[c] = "idle"
  /\ sema = "null"
  /\ sema' = "taken" /\ owner' = c
  /\ pc' = [pc EXCEPT ![c] = "waiting"]
  /\ queue' = Append(queue, "start")
  /\ UNCHANGED <<scanBit, chain, faults>>

(* os_sema_wait_with_timeout succeeds. *)
Wake(c) ==
  /\ pc[c] = "waiting"
  /\ sema = "given"
  /\ sema' = "taken"
  /\ pc' = [pc EXCEPT ![c] = "woken"]
  /\ UNCHANGED <<queue, scanBit, chain, owner, faults>>

(* The semaphore is deleted, the list returned. *)
Return(c) ==
  /\ pc[c] = "woken"
  /\ sema' = "null" /\ owner' = NoClient
  /\ pc' = [pc EXCEPT ![c] = "idle"]
  /\ UNCHANGED <<queue, scanBit, chain, faults>>

-----------------------------------------------------------------------------
(* The handlers. *)

Take(m) == queue # <<>> /\ Head(queue) = m /\ queue' = Tail(queue)

(* Mutated form: SCAN_BIT is left to the handler of the next order. *)
NotifyWaiterOnly ==
  /\ UNCHANGED scanBit
  /\ sema' = IF sema = "null" THEN "null" ELSE "given"

(* wifi_manger_notify_scan_done *)
NotifyScanDone ==
  /\ scanBit' = FALSE
  /\ sema' = IF sema = "null" THEN "null" ELSE "given"

(* Mutated form: the last channel is not scanned. *)
AdvanceShort(more, finish) ==
  /\ curChan' = curChan + 1
  /\ IF curChan + 1 >= LastChan THEN finish /\ UNCHANGED timer ELSE more /\ timer' = TRUE

(* Mutated form: the old channel number is compared. *)
AdvanceBeyond(more, finish) ==
  /\ curChan' = curChan + 1
  /\ IF curChan > LastChan THEN finish /\ UNCHANGED timer ELSE more /\ timer' = TRUE

(* wifi_scan_next: the next channel after a delay, unless all are scanned. *)
Advance(more, finish) ==
  /\ curChan' = curChan + 1
  /\ IF curChan + 1 > LastChan THEN finish /\ UNCHANGED timer ELSE more /\ timer' = TRUE

(* The first channel is scanned after the delay too; LastChan > 0. *)
HandleStart ==
  /\ Take("start")
  /\ IF scanBit
       THEN UNCHANGED <<scanBit, chain>>
       ELSE /\ scanBit' = TRUE
            /\ curChan' = 1 /\ timer' = TRUE /\ seen' = {} /\ errors' = FALSE
            /\ UNCHANGED scanning
  /\ UNCHANGED <<sema, clientVars, faults>>

(* wifi_scan_next_timer_handler *)
TimerFires ==
  /\ timer
  /\ timer' = FALSE
  /\ queue' = Append(queue, "next")
  /\ UNCHANGED <<scanBit, curChan, scanning, seen, errors, sema, clientVars, faults>>

HandleNext ==
  /\ Take("next")
  /\ ~scanning
  /\ scanning' = TRUE
  /\ UNCHANGED <<scanBit, curChan, timer, seen, errors, sema, clientVars, faults>>

(* Mutated form: a refused scan is not reported to the waiter. *)
HandleNextQuietly ==
  /\ Take("next")
  /\ scanBit' = FALSE
  /\ errors' = TRUE
  /\ UNCHANGED <<sema, curChan, timer, scanning, seen, clientVars, faults>>

(* esp_wifi_scan_start fails: the station is connecting. *)
HandleNextRefused ==
  /\ Take("next")
  /\ NotifyScanDone
  /\ errors' = TRUE
  /\ UNCHANGED <<curChan, timer, scanning, seen, clientVars, faults>>

HandleDone ==
  /\ Take("done")
  /\ seen' = seen \cup {curChan}
  /\ Advance(UNCHANGED <<scanBit, sema>>, NotifyScanDone)
  /\ UNCHANGED <<scanning, errors, clientVars, faults>>

(* esp_wifi_scan_get_ap_records fails. *)
HandleDoneFailed ==
  /\ Take("done")
  /\ NotifyScanDone
  /\ errors' = TRUE
  /\ UNCHANGED <<curChan, timer, scanning, seen, clientVars, faults>>

(* Mutated form: EVENT_STA_DISCONNECTED leaves SCAN_BIT alone. *)
HandleLostOnly ==
  /\ Take("lost")
  /\ UNCHANGED <<scanBit, chain, sema, clientVars, faults>>

(* EVENT_STA_DISCONNECTED, as far as scanning is concerned. *)
HandleLost ==
  /\ Take("lost")
  /\ scanBit' = FALSE
  /\ UNCHANGED <<chain, sema, clientVars, faults>>

-----------------------------------------------------------------------------
(* The driver and the event loop. *)

ScanEnds ==
  /\ scanning
  /\ scanning' = FALSE
  /\ queue' = Append(queue, "done")
  /\ UNCHANGED <<scanBit, curChan, timer, seen, errors, sema, clientVars, faults>>

Disconnects ==
  /\ losses < MaxLosses
  /\ losses' = losses + 1
  /\ queue' = Append(queue, "lost")
  /\ \/ UNCHANGED <<scanning, dropped>>
     \/ DropsScan /\ scanning /\ scanning' = FALSE /\ dropped' = TRUE
  /\ UNCHANGED <<scanBit, curChan, timer, seen, errors, sema, clientVars>>

-----------------------------------------------------------------------------
ClientStep(c) == Wake(c) \/ Return(c)

Handle == \/ HandleStart \/ HandleNext \/ HandleNextRefused
          \/ HandleDone \/ HandleDoneFailed \/ HandleLost

Next ==
  \/ \E c \in Clients : ScanSync(c) \/ ClientStep(c)
  \/ TimerFires \/ Handle \/ ScanEnds \/ Disconnects

(* The task, the timer and the waiters run, a scan of the driver ends.     *)
Fairness ==
  /\ WF_vars(Handle) /\ WF_vars(TimerFires) /\ WF_vars(ScanEnds)
  /\ \A c \in Clients : WF_vars(ClientStep(c))

Spec == Init /\ [][Next]_vars
FairSpec == Spec /\ Fairness

-----------------------------------------------------------------------------
(* Properties. *)

(* The variables have their types; the channel number stays within what    *)
(* the country allows, and one.                                            *)
TypeOK ==
  /\ queue \in Seq(Messages)
  /\ scanBit \in BOOLEAN /\ timer \in BOOLEAN /\ scanning \in BOOLEAN
  /\ curChan \in 0..(LastChan + 1)
  /\ sema \in {"null", "taken", "given"}
  /\ owner \in Clients \cup {NoClient}
  /\ pc \in [Clients -> {"idle", "waiting", "woken"}]
  /\ seen \subseteq 1..LastChan
  /\ errors \in BOOLEAN /\ dropped \in BOOLEAN /\ losses \in 0..MaxLosses

(* The steps of a chain that are under way: an order, the timer, a message *)
(* or the driver's scan.                                                   *)
ChainSteps ==
  Cardinality({i \in DOMAIN queue : queue[i] # "lost"})
    + (IF timer THEN 1 ELSE 0) + (IF scanning THEN 1 ELSE 0)

(* SCAN_BIT is cleared by a disconnection while the chain goes on, and an  *)
(* order then starts a chain: still two chains, which would share cur_chan *)
(* and the timer, never run at once.                                       *)
OneChain == ChainSteps <= 1

(* The static semaphore is never created again while a thread waits on it, *)
(* nor deleted by another: one thread at most is inside scan_sync.         *)
SemaphoreHasOneUser ==
  /\ sema = "null" <=> \A c \in Clients : pc[c] = "idle"
  /\ \A c \in Clients : pc[c] # "idle" => owner = c

(* SCAN_BIT, which turns start orders away, is never set for a scan that   *)
(* is no more, but for a disconnection yet to be handled.                  *)
ScanBitIsCovered ==
  scanBit => ChainSteps > 0 \/ \E i \in DOMAIN queue : queue[i] = "lost"

(* An order is ignored while SCAN_BIT is set, and its caller would then    *)
(* wait for a scan that nobody makes: this never happens, whatever ended   *)
(* the scan before.                                                        *)
OrderIsObeyed == queue # <<>> /\ Head(queue) = "start" => ~scanBit

(* A caller that is woken gets a list of all the channels, unless the      *)
(* driver refused to scan one.                                             *)
ScanIsComplete ==
  (\E c \in Clients : pc[c] = "woken") /\ ~errors => seen = 1..LastChan

(* wifi_manager_scan_sync, which waits without a limit, returns, unless    *)
(* the driver has forgotten a scan.                                        *)
ScanReturns == \A c \in Clients : pc[c] = "waiting" ~> pc[c] = "idle" \/ dropped
=============================================================================
