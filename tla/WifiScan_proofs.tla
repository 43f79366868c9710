--------------------------- MODULE WifiScan_proofs ---------------------------
(* Proofs about WifiScan. *)
EXTENDS WifiScan, FiniteSetTheorems, TLAPS

(* The part of TypeOK the proof needs. *)
PcType == pc \in [Clients -> {"idle", "waiting", "woken"}]

SemaInv == PcType /\ SemaphoreHasOneUser

LEMMA SemaInit == Init => SemaInv
BY DEF Init, SemaInv, PcType, SemaphoreHasOneUser

(* A handler may signal the semaphore; it never creates or deletes it. *)
Signals == UNCHANGED <<owner, pc>> /\ (sema = "null" <=> sema' = "null")

LEMMA SignalKeepsInv == SemaInv /\ Signals => SemaInv'
BY DEF Signals, SemaInv, PcType, SemaphoreHasOneUser

LEMMA SemaStep == SemaInv /\ [Next]_vars => SemaInv'
<1> SUFFICES ASSUME SemaInv, [Next]_vars PROVE SemaInv'
  OBVIOUS
<1> USE DEF SemaInv, PcType, SemaphoreHasOneUser
<1>1. ASSUME NEW c \in Clients, ScanSync(c) PROVE SemaInv'
  BY <1>1 DEF ScanSync
<1>2. ASSUME NEW c \in Clients, Wake(c) PROVE SemaInv'
  BY <1>2 DEF Wake
<1>3. ASSUME NEW c \in Clients, Return(c) PROVE SemaInv'
  BY <1>3 DEF Return
<1>4. CASE TimerFires \/ ScanEnds \/ Disconnects \/ UNCHANGED vars
  BY <1>4, SignalKeepsInv
  DEF TimerFires, ScanEnds, Disconnects, vars, faults, clientVars, Signals
<1>5. CASE HandleStart \/ HandleNext \/ HandleLost
  BY <1>5, SignalKeepsInv DEF HandleStart, HandleNext, HandleLost, clientVars, Signals
<1>6. CASE HandleNextRefused \/ HandleDoneFailed
  BY <1>6, SignalKeepsInv
  DEF HandleNextRefused, HandleDoneFailed, NotifyScanDone, clientVars, Signals
<1>7. CASE HandleDone
  BY <1>7, SignalKeepsInv DEF HandleDone, Advance, NotifyScanDone, clientVars, Signals
<1> QED
  BY <1>1, <1>2, <1>3, <1>4, <1>5, <1>6, <1>7 DEF Next, ClientStep, Handle

(* wifi_manager_scan_sync: for any number of callers, one at most uses the *)
(* static semaphore g_scan_sync_sema_mem, and it is the one who created it *)
(* that waits on it and deletes it.                                        *)
THEOREM SemaphoreCorrect == Spec => []SemaphoreHasOneUser
<1>1. SemaInv => SemaphoreHasOneUser
  BY DEF SemaInv
<1> QED
  BY <1>1, SemaInit, SemaStep, PTL DEF Spec

-----------------------------------------------------------------------------
(* The chain. Where it is, said without counting: there is one order, timer, *)
(* message or scan of the driver at most.                                    *)

Has(m) == \E i \in DOMAIN queue : queue[i] = m

QueueIsQuiet == ~Has("start") /\ ~Has("next") /\ ~Has("done")

Single == \A i, j \in DOMAIN queue : queue[i] # "lost" /\ queue[j] # "lost" => i = j

AtMostOne == Single /\ (timer \/ scanning => QueueIsQuiet) /\ ~(timer /\ scanning)

Active == timer \/ scanning \/ ~QueueIsQuiet

(* The first channel at least is to be scanned or has been. *)
Started == timer \/ scanning \/ Has("next") \/ Has("done")

(* Somebody is inside scan_sync and has not been signalled. *)
Awaited == sema = "taken" /\ \A c \in Clients : pc[c] # "woken"

(* A chain runs only while somebody waits for it; its end wakes him.       *)
ChainIsAwaited == Active => Awaited

(* SCAN_BIT is cleared before the waiter is woken: when the next caller's  *)
(* order is in the queue it is clear, and it is set for a chain that runs, *)
(* or that a disconnection has ended whose event is in the queue.          *)
BitInv == scanBit => Awaited /\ ~Has("start") /\ (Active \/ Has("lost"))

(* The channels before cur_chan have been read. *)
Progress == Started => curChan \in 1 .. LastChan /\ seen = 1 .. (curChan - 1)

Signalled == sema = "given" \/ \E c \in Clients : pc[c] = "woken"

Complete == Signalled /\ ~errors => seen = 1 .. LastChan

ChainInv == AtMostOne /\ ChainIsAwaited /\ BitInv /\ Progress /\ Complete

ScanInv == TypeOK /\ SemaphoreHasOneUser /\ ChainInv

(* What the queue has after a message was taken or appended. *)
LEMMA TakeFacts ==
  ASSUME queue \in Seq(Messages), NEW m \in Messages, Take(m)
  PROVE  /\ queue' \in Seq(Messages)
         /\ Has(m)
         /\ \A x \in Messages \ {m} : Has(x)' <=> Has(x)
         /\ Single => Single' /\ (m # "lost" => QueueIsQuiet')
<1>1. /\ queue # <<>> /\ queue[1] = m
      /\ queue' = Tail(queue)
  BY DEF Take
<1>2. /\ queue' \in Seq(Messages)
      /\ Len(queue) \in Nat \ {0}
      /\ DOMAIN queue = 1 .. Len(queue)
      /\ DOMAIN queue' = 1 .. Len(queue) - 1
      /\ \A i \in DOMAIN queue' : queue'[i] = queue[i + 1]
  BY <1>1
<1>3. Has(m)
  BY <1>1, <1>2 DEF Has
<1>4. ASSUME NEW x \in Messages \ {m} PROVE Has(x)' <=> Has(x)
  <2>1. Has(x)' => Has(x)
    BY <1>2 DEF Has
  <2>2. ASSUME Has(x) PROVE Has(x)'
    <3>1. PICK i \in DOMAIN queue : queue[i] = x
      BY <2>2 DEF Has
    <3>2. i - 1 \in DOMAIN queue' /\ queue'[i - 1] = x
      BY <1>1, <1>2, <3>1
    <3> QED
      BY <3>2 DEF Has
  <2> QED
    BY <2>1, <2>2
<1>5. ASSUME Single PROVE Single' /\ (m # "lost" => QueueIsQuiet')
  <2>1. Single'
    <3> SUFFICES ASSUME NEW i \in DOMAIN queue', NEW j \in DOMAIN queue',
                        queue'[i] # "lost", queue'[j] # "lost"
                 PROVE  i = j
      BY DEF Single
    <3>1. i + 1 \in DOMAIN queue /\ j + 1 \in DOMAIN queue
      BY <1>2
    <3>2. i + 1 = j + 1
      BY <1>2, <1>5, <3>1 DEF Single
    <3> QED
      BY <1>2, <3>2
  <2>2. ASSUME m # "lost" PROVE \A i \in DOMAIN queue' : queue'[i] = "lost"
    <3> SUFFICES ASSUME NEW i \in DOMAIN queue', queue'[i] # "lost"
                 PROVE  FALSE
      OBVIOUS
    <3>1. i + 1 \in DOMAIN queue /\ 1 \in DOMAIN queue /\ i + 1 # 1
      BY <1>2
    <3> QED
      BY <1>1, <1>2, <1>5, <2>2, <3>1 DEF Single
  <2> QED
    BY <2>1, <2>2 DEF QueueIsQuiet, Has
<1> QED
  BY <1>2, <1>3, <1>4, <1>5

LEMMA AppendFacts ==
  ASSUME queue \in Seq(Messages), NEW m \in Messages, queue' = Append(queue, m)
  PROVE  /\ queue' \in Seq(Messages)
         /\ \A x \in Messages : Has(x)' <=> Has(x) \/ x = m
         /\ Single /\ (m = "lost" \/ QueueIsQuiet) => Single'
<1>1. /\ queue' \in Seq(Messages)
      /\ Len(queue) \in Nat
      /\ DOMAIN queue = 1 .. Len(queue)
      /\ DOMAIN queue' = 1 .. Len(queue) + 1
      /\ \A i \in DOMAIN queue : queue'[i] = queue[i]
      /\ queue'[Len(queue) + 1] = m
      /\ \A i \in DOMAIN queue : queue[i] \in Messages
  OBVIOUS
<1>2. Len(queue) + 1 \in DOMAIN queue' /\ \A i \in DOMAIN queue : i \in DOMAIN queue'
  BY <1>1
<1>3. \A i \in DOMAIN queue' : i \in DOMAIN queue \/ i = Len(queue) + 1
  BY <1>1
<1>4. ASSUME NEW x \in Messages PROVE Has(x)' <=> Has(x) \/ x = m
  BY <1>1, <1>2, <1>3 DEF Has
<1>5. ASSUME Single, m = "lost" \/ QueueIsQuiet PROVE Single'
  <2> SUFFICES ASSUME NEW i \in DOMAIN queue', NEW j \in DOMAIN queue',
                      queue'[i] # "lost", queue'[j] # "lost"
               PROVE  i = j
    BY DEF Single
  <2>1. CASE m = "lost"
    BY <1>1, <1>3, <1>5, <2>1 DEF Single
  <2>2. CASE QueueIsQuiet
    <3>1. \A k \in DOMAIN queue : queue[k] = "lost"
      BY <1>1, <2>2 DEF QueueIsQuiet, Has, Messages
    <3> QED
      BY <1>1, <1>3, <3>1
  <2> QED
    BY <1>5, <2>1, <2>2
<1> QED
  BY <1>1, <1>4, <1>5

LEMMA InitScan == Init => ScanInv
<1> SUFFICES ASSUME Init PROVE ScanInv
  OBVIOUS
<1>1. DOMAIN queue = {}
  BY DEF Init
<1>2. \A m : ~Has(m)
  BY <1>1 DEF Has
<1>3. TypeOK
  <2>1. queue \in Seq(Messages)
    BY DEF Init
  <2>2. curChan \in 0 .. LastChan + 1 /\ seen \subseteq 1 .. LastChan /\ losses \in 0 .. MaxLosses
    BY ScanAssumption DEF Init
  <2> QED
    BY <2>1, <2>2 DEF Init, TypeOK
<1>4. AtMostOne
  BY <1>1, <1>2 DEF Init, AtMostOne, Single, QueueIsQuiet
<1>5. ChainIsAwaited /\ BitInv /\ Progress /\ Complete
  BY <1>2 DEF Init, ChainIsAwaited, BitInv, Progress, Complete, Active, Started, Signalled,
              QueueIsQuiet
<1> QED
  BY <1>3, <1>4, <1>5, SemaInit DEF ScanInv, SemaInv, ChainInv

(* scan_sync: an order is sent only when no chain is left, and the caller  *)
(* is woken and returns after the end of its chain.                        *)
LEMMA ClientKeepsChain ==
  ASSUME ScanInv, NEW c \in Clients, ScanSync(c) \/ Wake(c) \/ Return(c)
  PROVE  TypeOK' /\ ChainInv'
<1> USE DEF ScanInv, ChainInv, ChainIsAwaited, BitInv, Progress, Complete, Active, Started,
            Awaited, Signalled, QueueIsQuiet, AtMostOne
<1>1. CASE ScanSync(c)
  <2> USE <1>1 DEF ScanSync, chain, faults, clientVars
  <2>1. "start" \in Messages /\ queue \in Seq(Messages)
    BY DEF Messages, TypeOK
  <2>2. ~Active /\ ~scanBit
    OBVIOUS
  <2>3. /\ queue' \in Seq(Messages) /\ Single'
        /\ \A x \in Messages : Has(x)' <=> Has(x) \/ x = "start"
    BY <2>1, <2>2, AppendFacts
  <2>4. Has("start")' /\ ~Has("next")' /\ ~Has("done")'
    BY <2>2, <2>3 DEF Messages
  <2>5. \A d \in Clients : pc'[d] # "woken"
    BY DEF TypeOK, SemaphoreHasOneUser
  <2>6. TypeOK'
    BY <2>3 DEF TypeOK
  <2> QED
    BY <2>2, <2>3, <2>4, <2>5, <2>6
<1>2. CASE Wake(c)
  <2> USE <1>2 DEF Wake, chain, faults, clientVars
  <2>1. \A x : Has(x)' <=> Has(x)
    BY DEF Has
  <2>2. Single'
    BY DEF Single
  <2>3. ~Active /\ ~scanBit /\ Signalled
    OBVIOUS
  <2>4. TypeOK'
    BY DEF TypeOK
  <2> QED
    BY <2>1, <2>2, <2>3, <2>4
<1>3. CASE Return(c)
  <2> USE <1>3 DEF Return, chain, faults, clientVars
  <2>1. \A x : Has(x)' <=> Has(x)
    BY DEF Has
  <2>2. Single'
    BY DEF Single
  <2>3. ~Active /\ ~scanBit /\ ~Signalled'
    BY DEF SemaphoreHasOneUser, TypeOK
  <2>4. TypeOK'
    BY DEF TypeOK
  <2> QED
    BY <2>1, <2>2, <2>3, <2>4
<1> QED
  BY <1>1, <1>2, <1>3

(* The timer, the driver, and a link that is lost. *)
LEMMA OutsideKeepsChain ==
  ASSUME ScanInv, TimerFires \/ ScanEnds \/ Disconnects
  PROVE  TypeOK' /\ ChainInv'
<1> USE DEF ScanInv, ChainInv, ChainIsAwaited, BitInv, Progress, Complete, Active, Started,
            Awaited, Signalled, QueueIsQuiet, AtMostOne
<1>0. /\ {"start", "next", "done", "lost"} \subseteq Messages
      /\ queue \in Seq(Messages)
  BY DEF Messages, TypeOK
<1>1. CASE TimerFires
  <2> USE <1>1 DEF TimerFires, clientVars, faults
  <2>1. QueueIsQuiet /\ ~scanning /\ Awaited /\ Started
    OBVIOUS
  <2>2. /\ queue' \in Seq(Messages) /\ Single'
        /\ \A x \in Messages : Has(x)' <=> Has(x) \/ x = "next"
    BY <1>0, <2>1, AppendFacts
  <2>3. Has("next")' /\ ~Has("start")' /\ ~Has("done")'
    BY <1>0, <2>1, <2>2
  <2>4. TypeOK'
    BY <2>2 DEF TypeOK
  <2> QED
    BY <2>1, <2>2, <2>3, <2>4
<1>2. CASE ScanEnds
  <2> USE <1>2 DEF ScanEnds, clientVars, faults
  <2>1. QueueIsQuiet /\ ~timer /\ Awaited /\ Started
    OBVIOUS
  <2>2. /\ queue' \in Seq(Messages) /\ Single'
        /\ \A x \in Messages : Has(x)' <=> Has(x) \/ x = "done"
    BY <1>0, <2>1, AppendFacts
  <2>3. Has("done")' /\ ~Has("start")' /\ ~Has("next")'
    BY <1>0, <2>1, <2>2
  <2>4. TypeOK'
    BY <2>2 DEF TypeOK
  <2> QED
    BY <2>1, <2>2, <2>3, <2>4
<1>3. CASE Disconnects
  <2> USE <1>3 DEF Disconnects, clientVars, faults
  <2>1. /\ queue' \in Seq(Messages) /\ Single'
        /\ \A x \in Messages : Has(x)' <=> Has(x) \/ x = "lost"
    BY <1>0, AppendFacts
  <2>2. /\ Has("lost")'
        /\ \A x \in {"start", "next", "done"} : Has(x)' <=> Has(x)
    BY <1>0, <2>1
  <2>3. losses' \in 0 .. MaxLosses
    BY ScanAssumption DEF TypeOK
  <2>4. TypeOK'
    BY <2>1, <2>3, ScanAssumption DEF TypeOK
  <2> QED
    BY <2>1, <2>2, <2>4
<1> QED
  BY <1>1, <1>2, <1>3

(* What every handler of a step of the chain finds: it is the only one.    *)
LEMMA ChainStepTaken ==
  ASSUME ScanInv, NEW m \in {"start", "next", "done"}, Take(m)
  PROVE  /\ queue' \in Seq(Messages) /\ Single'
         /\ QueueIsQuiet' /\ (Has("lost")' <=> Has("lost"))
         /\ Awaited /\ ~timer /\ ~scanning
         /\ m = "start" => ~scanBit
         /\ m # "start" => Started
<1>1. m \in Messages /\ "lost" \in Messages \ {m} /\ queue \in Seq(Messages)
  BY DEF Messages, ScanInv, TypeOK
<1>2. /\ queue' \in Seq(Messages) /\ Has(m) /\ Single' /\ QueueIsQuiet'
      /\ Has("lost")' <=> Has("lost")
  BY <1>1, TakeFacts DEF ScanInv, ChainInv, AtMostOne
<1> QED
  BY <1>2 DEF ScanInv, ChainInv, AtMostOne, ChainIsAwaited, BitInv, Active, Started,
              QueueIsQuiet

LEMMA HandlerKeepsChain ==
  ASSUME ScanInv, Handle
  PROVE  TypeOK' /\ ChainInv'
<1> USE DEF ChainInv, ChainIsAwaited, BitInv, Progress, Complete, Active, Started,
            Awaited, Signalled, QueueIsQuiet, AtMostOne
<1>1. CASE HandleStart
  <2> USE <1>1 DEF HandleStart, clientVars, faults
  <2>1. /\ queue' \in Seq(Messages) /\ Single' /\ QueueIsQuiet'
        /\ Awaited /\ ~scanning /\ ~scanBit
    BY ChainStepTaken
  <2>2. 1 \in 1 .. LastChan /\ {} = 1 .. (1 - 1)
    BY ScanAssumption
  <2>3. TypeOK'
    <3>1. curChan' \in 0 .. LastChan + 1 /\ seen' \subseteq 1 .. LastChan
      BY <2>1, ScanAssumption
    <3> QED
      BY <2>1, <3>1 DEF ScanInv, TypeOK
  <2> QED
    BY <2>1, <2>2, <2>3
<1>2. CASE HandleNext
  <2> USE <1>2 DEF HandleNext, clientVars, faults
  <2>1. /\ queue' \in Seq(Messages) /\ Single' /\ QueueIsQuiet'
        /\ Awaited /\ ~timer /\ Started
    BY ChainStepTaken
  <2>2. TypeOK'
    BY <2>1 DEF ScanInv, TypeOK
  <2> QED
    BY <2>1, <2>2 DEF ScanInv
<1>3. CASE HandleNextRefused \/ HandleDoneFailed
  <2> USE <1>3 DEF HandleNextRefused, HandleDoneFailed, NotifyScanDone, clientVars, faults
  <2>1. /\ queue' \in Seq(Messages) /\ Single' /\ QueueIsQuiet'
        /\ ~timer /\ ~scanning
    BY ChainStepTaken
  <2>2. TypeOK'
    BY <2>1 DEF ScanInv, TypeOK
  <2> QED
    BY <2>1, <2>2
<1>4. CASE HandleDone
  <2> USE <1>4 DEF HandleDone, Advance, NotifyScanDone, clientVars, faults
  <2>1. /\ queue' \in Seq(Messages) /\ Single' /\ QueueIsQuiet'
        /\ Awaited /\ ~timer /\ ~scanning /\ Started
    BY ChainStepTaken
  <2>2. curChan \in 1 .. LastChan /\ seen = 1 .. (curChan - 1)
    BY <2>1 DEF ScanInv
  <2>3. seen' = 1 .. curChan /\ curChan' = curChan + 1
    BY <2>2, ScanAssumption
  <2>4. TypeOK'
    <3>1. curChan' \in 0 .. LastChan + 1 /\ seen' \subseteq 1 .. LastChan
      BY <2>2, <2>3, ScanAssumption
    <3>2. timer' \in BOOLEAN /\ scanBit' \in BOOLEAN /\ sema' \in {"null", "taken", "given"}
      BY DEF ScanInv, TypeOK
    <3> QED
      BY <2>1, <3>1, <3>2 DEF ScanInv, TypeOK
  <2>5. CASE curChan + 1 > LastChan
    <3>1. curChan = LastChan
      BY <2>2, <2>5, ScanAssumption
    <3>2. scanBit' = FALSE /\ timer' = FALSE /\ scanning' = FALSE
      BY <2>1, <2>5
    <3> QED
      BY <2>1, <2>3, <2>4, <3>1, <3>2
  <2>6. CASE ~(curChan + 1 > LastChan)
    <3>1. curChan' \in 1 .. LastChan /\ seen' = 1 .. (curChan' - 1)
      BY <2>2, <2>3, <2>6, ScanAssumption
    <3>2. timer' = TRUE /\ UNCHANGED <<scanBit, sema>> /\ scanning' = FALSE
      BY <2>1, <2>6
    <3>3. ~Has("start")'
      BY <2>1
    <3> QED
      BY <2>1, <2>4, <3>1, <3>2, <3>3
  <2> QED
    BY <2>5, <2>6
<1>5. CASE HandleLost
  <2> USE <1>5 DEF HandleLost, clientVars, faults, chain
  <2>1. queue \in Seq(Messages) /\ "lost" \in Messages
        /\ {"start", "next", "done"} \subseteq Messages \ {"lost"}
    BY DEF ScanInv, TypeOK, Messages
  <2>2. /\ queue' \in Seq(Messages) /\ Single'
        /\ \A x \in {"start", "next", "done"} : Has(x)' <=> Has(x)
    BY <2>1, TakeFacts DEF ScanInv
  <2>3. TypeOK'
    BY <2>2 DEF ScanInv, TypeOK
  <2> QED
    BY <2>2, <2>3 DEF ScanInv
<1> QED
  BY <1>1, <1>2, <1>3, <1>4, <1>5 DEF Handle

LEMMA ScanStep ==
  ASSUME ScanInv, [Next]_vars
  PROVE  ScanInv'
<1>1. TypeOK' /\ ChainInv'
  <2>1. CASE UNCHANGED vars
    BY <2>1 DEF vars, faults, ScanInv, TypeOK, ChainInv, AtMostOne, Single, ChainIsAwaited,
                BitInv, Progress, Complete, Active, Started, Awaited, Signalled,
                QueueIsQuiet, Has
  <2> QED
    BY <2>1, ClientKeepsChain, OutsideKeepsChain, HandlerKeepsChain DEF Next, ClientStep
<1>2. SemaphoreHasOneUser'
  BY SemaStep DEF ScanInv, SemaInv, PcType, TypeOK
<1> QED
  BY <1>1, <1>2 DEF ScanInv

(* The steps of a chain, counted. *)
LEMMA ChainStepsCount ==
  ASSUME TypeOK, AtMostOne
  PROVE  ChainSteps = IF Active THEN 1 ELSE 0
<1> DEFINE S == {i \in DOMAIN queue : queue[i] # "lost"}
<1>1. \A i \in DOMAIN queue : queue[i] \in Messages
  BY DEF TypeOK
<1>2. QueueIsQuiet <=> S = {}
  BY <1>1 DEF QueueIsQuiet, Has, Messages
<1>3. CASE QueueIsQuiet
  <2>1. Cardinality(S) = 0
    BY <1>2, <1>3, FS_EmptySet
  <2> HIDE DEF S
  <2> QED
    BY <1>3, <2>1 DEF ChainSteps, S, Active, AtMostOne, TypeOK
<1>4. CASE ~QueueIsQuiet
  <2>1. PICK k : k \in S
    BY <1>2, <1>4
  <2>2. S = {k}
    BY <2>1 DEF AtMostOne, Single
  <2>3. Cardinality(S) = 1
    BY <2>2, FS_Singleton
  <2>4. ~timer /\ ~scanning
    BY <1>4 DEF AtMostOne
  <2> HIDE DEF S
  <2> QED
    BY <1>4, <2>3, <2>4 DEF ChainSteps, S, Active
<1> QED
  BY <1>3, <1>4

(* The inductive invariant holds, for any number of callers, channels and  *)
(* disconnections.                                                         *)
THEOREM ScanInvCorrect == Spec => []ScanInv
BY InitScan, ScanStep, PTL DEF Spec

(* The variables have their types; cur_chan stays within what the country  *)
(* allows, and one.                                                        *)
THEOREM TypeCorrect == Spec => []TypeOK
<1>1. ScanInv => TypeOK
  BY DEF ScanInv
<1> QED
  BY <1>1, ScanInvCorrect, PTL

(* Two chains never run at once, however orders, disconnections and the    *)
(* driver's answers interleave (wifi_manager_handle_msg.c:39-90, 269-285).  *)
THEOREM OneChainCorrect == Spec => []OneChain
<1>1. ScanInv => OneChain
  BY ChainStepsCount DEF ScanInv, ChainInv, OneChain
<1> QED
  BY <1>1, ScanInvCorrect, PTL

(* SCAN_BIT is set only for a scan that runs, or whose end by a            *)
(* disconnection is yet to be handled (wifi_manager_handle_msg.c:284).     *)
THEOREM ScanBitCorrect == Spec => []ScanBitIsCovered
<1>1. ScanInv => ScanBitIsCovered
  BY ChainStepsCount DEF ScanInv, ChainInv, BitInv, Has, ScanBitIsCovered
<1> QED
  BY <1>1, ScanInvCorrect, PTL

(* No order to scan is ever ignored: its caller would wait for ever.       *)
THEOREM OrderCorrect == Spec => []OrderIsObeyed
<1>1. ScanInv => OrderIsObeyed
  <2> SUFFICES ASSUME ScanInv, queue # <<>>, Head(queue) = "start"
               PROVE  ~scanBit
    BY DEF OrderIsObeyed
  <2>1. 1 \in DOMAIN queue /\ queue[1] = "start"
    BY DEF ScanInv, TypeOK
  <2> QED
    BY <2>1 DEF ScanInv, ChainInv, BitInv, Has
<1> QED
  BY <1>1, ScanInvCorrect, PTL

(* A caller that is woken gets a list of all the channels, however many,   *)
(* unless the driver refused one (wifi_manager_handle_msg.c:39-53).        *)
THEOREM ScanCompleteCorrect == Spec => []ScanIsComplete
<1>1. ScanInv => ScanIsComplete
  BY DEF ScanInv, ChainInv, Complete, Signalled, ScanIsComplete
<1> QED
  BY <1>1, ScanInvCorrect, PTL
=============================================================================
