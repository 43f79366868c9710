--------------------------- MODULE WifiMsg_proofs ---------------------------
(***************************************************************************)
(* Safety of WifiMsg for every set of clients and every queue length.      *)
(***************************************************************************)
EXTENDS WifiMsg, SequenceTheorems, TLAPS

(* The task never sends from a locked section of its own. *)
TaskNotNested == ~nested[Task]

(* A caller in a locked section of its own knows it. *)
CallersNest ==
  \A t \in Callers : pc[t] \in {"outer", "guarded", "leave"} => nested[t]

(* Once the queue is deleted the task is leaving. *)
TaskOutlivesQueue == ~qOpen => pc[Task] \in {"leave", "done"}

(* A thread that is doing something is doing it for a message. *)
WorkHasMessage ==
  \A t \in Threads :
    job[t] = "none" => pc[t] \in {"idle", "init", "recv", "done"}

(* The mutex and the queue's lifetime. *)
SectionInv ==
  /\ TypeOK
  /\ MutexInv
  /\ NoSendOnDeletedQueue
  /\ TaskNotNested
  /\ TaskOutlivesQueue

(* The inductive invariant. *)
MsgInv == SectionInv /\ WorkHasMessage /\ CallersNest

LEMMA ThreadsFacts ==
  /\ Task \in Threads /\ Timer \in Threads /\ Starter \in Threads
  /\ Task # Timer /\ Task # Starter /\ Timer # Starter
  /\ NoThread \notin Threads
  /\ Task \notin Callers
BY ThreadsAssumption DEF Threads, Callers

LEMMA InitMsgInv == Init => MsgInv
<1> SUFFICES ASSUME Init PROVE MsgInv
  OBVIOUS
<1> USE ThreadsFacts DEF Init
<1>1. TypeOK
  <2>1. queue \in Seq(Messages)
    BY EmptySeq
  <2> QED
    BY <2>1 DEF TypeOK, Places, Messages, Posted
<1>2. MutexInv
  BY DEF MutexInv, Levels
<1> QED
  BY <1>1, <1>2 DEF MsgInv, SectionInv, NoSendOnDeletedQueue, TaskNotNested, TaskOutlivesQueue,
               WorkHasMessage, CallersNest, Callers, Threads

(* The queue keeps its type when a message is appended or removed. *)
LEMMA QueueType ==
  ASSUME TypeOK
  PROVE  /\ \A m \in Messages : Append(queue, m) \in Seq(Messages)
         /\ queue # <<>> => Tail(queue) \in Seq(Messages) /\ Head(queue) \in Messages
         /\ <<>> \in Seq(Messages)
BY EmptySeq, HeadTailProperties DEF TypeOK

(* The mutex is kept by a step inside a locked section that accounts for   *)
(* what it locks and unlocks.                                              *)
LEMMA SectionStep ==
  ASSUME MutexInv, NEW t \in Threads, owner = t, owner' = t,
         depth' = Levels(t)', depth' > 0,
         \A u \in Threads : u # t => Levels(u)' = Levels(u)
  PROVE  MutexInv'
BY ThreadsFacts DEF MutexInv

(* The steps of a thread that sends, or enters or leaves a section. *)
LEMMA SendStepSectionInv ==
  ASSUME MsgInv, NEW t \in Threads, SendStep(t)
  PROVE  SectionInv'
<1> USE ThreadsFacts DEF MsgInv, SectionInv, TypeOK, MutexInv, NoSendOnDeletedQueue, TaskNotNested,
        TaskOutlivesQueue, Levels, At, Goto, GoHome, Home, Places, queueVars, mutexVars, wdogVars
<1>1. CASE SendLock(t)
  BY <1>1 DEF SendLock, Acquire
<1>2. CASE CheckQueue(t)
  BY <1>2 DEF CheckQueue
<1>3. CASE Post(t)
  <2>1. job[t] \in Messages
    BY <1>3 DEF Post, WorkHasMessage
  <2> QED
    BY <1>3, <2>1, QueueType DEF Post
<1>4. CASE PostRefused(t)
  BY <1>4 DEF PostRefused
<1>5. CASE SendUnlock(t)
  <2>1. owner = t /\ depth = Levels(t) /\ depth > 0
    BY <1>5 DEF SendUnlock
  <2>2. CASE nested[t]
    <3>1. /\ pc' = [pc EXCEPT ![t] = "leave"] /\ nested' = nested
          /\ depth = 2 /\ depth' = 1 /\ owner' = t
      BY <1>5, <2>1, <2>2 DEF SendUnlock, Release
    <3>2. TypeOK'
      BY <1>5, <2>2, <3>1 DEF SendUnlock
    <3>3. Levels(t)' = 1 /\ \A u \in Threads : u # t => Levels(u)' = Levels(u)
      BY <3>1
    <3>4. MutexInv'
      BY <2>1, <3>1, <3>3, SectionStep
    <3> HIDE DEF TypeOK, MutexInv, Levels
    <3> QED
      BY <1>5, <2>2, <3>1, <3>2, <3>4 DEF SendUnlock
  <2>3. CASE ~nested[t]
    <3>1. /\ pc' = [pc EXCEPT ![t] = Home(t)] /\ nested' = [nested EXCEPT ![t] = FALSE]
          /\ depth = 1 /\ depth' = 0 /\ owner' = NoThread
      BY <1>5, <2>1, <2>3 DEF SendUnlock, Release
    <3>2. TypeOK'
      BY <1>5, <2>3, <3>1 DEF SendUnlock
    <3>3. \A u \in Threads : Levels(u)' = 0
      BY <2>1, <3>1
    <3> QED
      BY <1>5, <2>3, <3>1, <3>2, <3>3 DEF SendUnlock
  <2> QED
    BY <2>2, <2>3
<1>6. CASE EnterSection(t)
  BY <1>6 DEF EnterSection, Acquire
<1>7. CASE LeaveSection(t)
  <2>1. owner = t /\ depth = 1
    BY <1>7 DEF LeaveSection
  <2>2. owner' = NoThread /\ depth' = 0
    BY <1>7, <2>1 DEF LeaveSection, Release
  <2>3. CASE t = Task /\ ~qOpen
    BY <1>7, <2>1, <2>2, <2>3 DEF LeaveSection
  <2>4. CASE ~(t = Task /\ ~qOpen)
    <3>1. pc' = [pc EXCEPT ![t] = Home(t)] /\ nested' = [nested EXCEPT ![t] = FALSE]
      BY <1>7, <2>4 DEF LeaveSection
    <3>2. TypeOK'
      BY <1>7, <2>2, <2>4 DEF LeaveSection
    <3>3. \A u \in Threads : Levels(u)' = 0
      BY <2>1, <3>1
    <3> QED
      BY <1>7, <2>2, <2>4, <3>1, <3>2, <3>3 DEF LeaveSection
  <2> QED
    BY <2>3, <2>4
<1> QED
  BY <1>1, <1>2, <1>3, <1>4, <1>5, <1>6, <1>7 DEF SendStep

(* The steps that begin a call or lie inside a caller's section. *)
LEMMA CallerSectionInv ==
  ASSUME MsgInv,
         \/ \E t \in Callers, m \in Posted, n \in BOOLEAN : CallSend(t, m, n)
         \/ CallFeed
         \/ FeedInSection
         \/ \E t \in Callers : CallerStep(t)
  PROVE  SectionInv'
<1> USE ThreadsFacts DEF MsgInv, SectionInv, TypeOK, MutexInv, NoSendOnDeletedQueue, TaskNotNested,
        TaskOutlivesQueue, Levels, At, Goto, Places, Threads,
        Messages, queueVars, mutexVars, wdogVars
<1>1. ASSUME NEW t \in Callers, NEW m \in Posted, NEW n \in BOOLEAN, CallSend(t, m, n)
      PROVE  SectionInv'
  BY <1>1 DEF CallSend
<1>2. CASE CallFeed
  BY <1>2 DEF CallFeed
<1>3. CASE FeedInSection
  <2>1. owner = Timer /\ depth = 1 /\ nested[Timer]
    BY <1>3 DEF FeedInSection, Callers, CallersNest
  <2>2. CASE feedActive
    <3>1. pc' = [pc EXCEPT ![Timer] = "leave"] /\ nested' = nested
      BY <1>3, <2>2 DEF FeedInSection
    <3>2. \A u \in Threads : Levels(u)' = Levels(u)
      BY <1>3, <3>1 DEF FeedInSection
    <3>3. owner' = Timer /\ depth' = Levels(Timer)' /\ depth' > 0
      BY <1>3, <2>1, <3>1 DEF FeedInSection
    <3>4. MutexInv'
      BY <2>1, <3>2, <3>3, SectionStep
    <3>5. TypeOK'
      BY <1>3, <3>1 DEF FeedInSection
    <3> HIDE DEF TypeOK, MutexInv, Levels
    <3> QED
      BY <1>3, <3>1, <3>4, <3>5 DEF FeedInSection
  <2>3. CASE ~feedActive
    BY <1>3, <2>1, <2>3 DEF FeedInSection
  <2> QED
    BY <2>2, <2>3
<1>4. ASSUME NEW t \in Callers, SendInSection(t)
      PROVE  SectionInv'
  <2>1. owner = t /\ depth = 1 /\ nested[t]
    BY <1>4 DEF SendInSection, CallersNest
  <2>2. TypeOK'
    BY <1>4 DEF SendInSection
  <2>3. \A u \in Threads : u # t => Levels(u)' = Levels(u)
    BY <1>4 DEF SendInSection
  <2>4. owner' = t /\ depth' = Levels(t)' /\ depth' > 0
    BY <1>4, <2>1 DEF SendInSection
  <2>5. MutexInv'
    BY <2>1, <2>3, <2>4, SectionStep
  <2> HIDE DEF TypeOK, MutexInv, Levels
  <2> QED
    BY <1>4, <2>2, <2>5 DEF SendInSection
<1>5. ASSUME NEW t \in Callers, SkipInSection(t)
      PROVE  SectionInv'
  BY <1>5 DEF SkipInSection
<1> HIDE DEF MsgInv, SectionInv
<1> QED
  BY <1>1, <1>2, <1>3, <1>4, <1>5 DEF CallerStep

(* The steps of the wifi_manager task. *)
LEMMA TaskSectionInv ==
  ASSUME MsgInv, TaskStep
  PROVE  SectionInv'
<1> USE ThreadsFacts, QueueType DEF MsgInv, SectionInv, TypeOK, MutexInv, NoSendOnDeletedQueue,
        TaskNotNested, TaskOutlivesQueue, Levels, At, Goto, GoHome,
        Home, Places, Messages, Posted, Relayed, queueVars, mutexVars, wdogVars
<1>1. CASE TaskInit
  BY <1>1 DEF TaskInit
<1>2. CASE Recv
  BY <1>2 DEF Recv
<1>3. CASE HandlePlain
  BY <1>3 DEF HandlePlain
<1>4. ASSUME NEW m \in Relayed, HandleRelay(m)
      PROVE  SectionInv'
  BY <1>4 DEF HandleRelay
<1>5. CASE HandleLocked
  BY <1>5 DEF HandleLocked
<1>6. CASE ScanSection
  BY <1>6 DEF ScanSection
<1>7. CASE FeedSection
  BY <1>7 DEF FeedSection
<1>8. CASE Teardown
  <2>1. \A u \in Threads : u # Task => Levels(u) = 0
    BY <1>8 DEF Teardown
  <2>2. \A u \in Threads : pc[u] # "post"
    BY <1>8, <2>1 DEF Teardown
  <2> QED
    BY <1>8, <2>2 DEF Teardown
<1> QED
  BY <1>1, <1>2, <1>3, <1>4, <1>5, <1>6, <1>7, <1>8 DEF TaskStep

(* No step leaves a thread at work without a message. *)
LEMMA StepWork ==
  ASSUME MsgInv, Next
  PROVE  WorkHasMessage' /\ CallersNest'
<1> USE ThreadsFacts DEF MsgInv, SectionInv, TypeOK, WorkHasMessage, CallersNest, At, Goto, GoHome, Home,
        Places, Threads
<1>1. ASSUME NEW t \in Threads, SendStep(t)
      PROVE  WorkHasMessage' /\ CallersNest'
  BY <1>1 DEF SendStep, SendLock, CheckQueue, Post, PostRefused, SendUnlock, EnterSection,
              LeaveSection
<1>2. ASSUME NEW t \in Callers, NEW m \in Posted, NEW n \in BOOLEAN, CallSend(t, m, n)
      PROVE  WorkHasMessage' /\ CallersNest'
  BY <1>2 DEF CallSend, Posted
<1>3. CASE CallFeed \/ FeedInSection
  BY <1>3 DEF CallFeed, FeedInSection
<1>4. ASSUME NEW t \in Callers, CallerStep(t)
      PROVE  WorkHasMessage' /\ CallersNest'
  BY <1>4 DEF CallerStep, SendInSection, SkipInSection
<1>5. CASE Recv
  <2>1. Head(queue) # "none"
    BY <1>5, QueueType DEF Recv, Messages, Posted
  <2> QED
    BY <1>5, <2>1 DEF Recv
<1>6. CASE TaskStep /\ ~Recv
  BY <1>6 DEF TaskStep, TaskInit, HandlePlain, HandleRelay, HandleLocked, ScanSection,
              FeedSection, Teardown, Relayed
<1> QED
  BY <1>1, <1>2, <1>3, <1>4, <1>5, <1>6 DEF Next

LEMMA StepMsgInv == MsgInv /\ [Next]_vars => MsgInv'
<1> SUFFICES ASSUME MsgInv, [Next]_vars PROVE MsgInv'
  OBVIOUS
<1>1. CASE UNCHANGED vars
  BY <1>1 DEF vars, MsgInv, SectionInv, TypeOK, MutexInv, NoSendOnDeletedQueue, TaskNotNested,
              TaskOutlivesQueue, WorkHasMessage, CallersNest, Levels
<1>2. CASE Next
  BY <1>2, SendStepSectionInv, CallerSectionInv, TaskSectionInv, StepWork DEF Next, MsgInv
<1> QED
  BY <1>1, <1>2

LEMMA MsgInvariant == Spec => []MsgInv
<1>1. Spec => []MsgInv
  BY InitMsgInv, StepMsgInv, PTL DEF Spec
<1> QED
  BY <1>1

(* Every variable keeps its type; in particular no return path of the      *)
(* nested wifi_manager_lock and unlock calls makes the recursion count     *)
(* negative.                                                               *)
THEOREM TypeCorrect == Spec => []TypeOK
<1>1. MsgInv => TypeOK
  BY DEF MsgInv, SectionInv
<1> QED
  BY MsgInvariant, <1>1, PTL

(* The wifi_manager mutex excludes, and its count is that of the sections  *)
(* its holder is in.                                                       *)
THEOREM MutexCorrect == Spec => []MutexInv
<1>1. MsgInv => MutexInv
  BY DEF MsgInv, SectionInv
<1> QED
  BY MsgInvariant, <1>1, PTL

(* No caller of wifiman_msg_send_* is past its NULL test on the queue when *)
(* wifi_manager_task deletes it (wifiman_msg.c:161).                       *)
THEOREM QueueOutlivesSenders == Spec => []NoSendOnDeletedQueue
<1>1. MsgInv => NoSendOnDeletedQueue
  BY DEF MsgInv, SectionInv
<1> QED
  BY MsgInvariant, <1>1, PTL

-----------------------------------------------------------------------------
(* A step of the threads is a step of the channel or leaves it unchanged. *)
LEMMA StepChannel ==
  ASSUME MsgInv, [Next]_vars
  PROVE  [Channel!ChannelNext]_(Channel!ChannelVars)
<1> USE DEF Channel!ChannelVars, Channel!ChannelNext, queueVars
<1>1. CASE UNCHANGED vars
  BY <1>1 DEF vars
<1>2. ASSUME NEW t \in Threads, Post(t)
      PROVE  Channel!Put
  <2>1. job[t] \in Messages
    BY <1>2 DEF Post, At, MsgInv, SectionInv, TypeOK, WorkHasMessage
  <2>2. qOpen
    BY <1>2 DEF Post, At, MsgInv, SectionInv, NoSendOnDeletedQueue
  <2> QED
    BY <1>2, <2>1, <2>2 DEF Post, Channel!Put
<1>3. ASSUME NEW t \in Threads, SendStep(t), ~Post(t)
      PROVE  UNCHANGED queueVars
  BY <1>3 DEF SendStep, SendLock, CheckQueue, PostRefused, SendUnlock, EnterSection,
              LeaveSection
<1>4. CASE Recv
  <2>1. qOpen
    BY <1>4 DEF Recv, At, MsgInv, SectionInv, TaskOutlivesQueue
  <2> QED
    BY <1>4, <2>1 DEF Recv, Channel!Get
<1>5. CASE Teardown
  <2>1. qOpen
    BY <1>5 DEF Teardown, At, MsgInv, SectionInv, TypeOK, TaskOutlivesQueue
  <2> QED
    BY <1>5, <2>1 DEF Teardown, Channel!Delete
<1>6. CASE TaskStep /\ ~Recv /\ ~Teardown
  BY <1>6 DEF TaskStep, TaskInit, HandlePlain, HandleRelay, HandleLocked, ScanSection,
              FeedSection
<1>7. CASE \/ \E t \in Callers, m \in Posted, n \in BOOLEAN : CallSend(t, m, n)
           \/ CallFeed \/ FeedInSection
           \/ \E t \in Callers : CallerStep(t)
  BY <1>7 DEF CallSend, CallFeed, FeedInSection, CallerStep, SendInSection, SkipInSection
<1> QED
  BY <1>1, <1>2, <1>3, <1>4, <1>5, <1>6, <1>7 DEF Next

(* wifiman_msg_send_with_timeout, _recv and _deinit, called from any number *)
(* of threads under the mutex, are a first-in first-out channel that is     *)
(* deleted once and takes nothing afterwards (wifiman_msg.c:150-176).       *)
THEOREM QueueIsChannel == Spec => ImplementsChannel
<1>1. Init => Channel!ChannelInit
  BY DEF Init, Channel!ChannelInit
<1>2. MsgInv /\ [Next]_vars => [Channel!ChannelNext]_(Channel!ChannelVars)
  BY StepChannel
<1> QED
  BY <1>1, <1>2, MsgInvariant, PTL DEF Spec, ImplementsChannel, Channel!ChannelSpec

-----------------------------------------------------------------------------
(* Only the timer sends a feed command, and the task only takes it. *)
FeedOwners ==
  \A t \in Threads : job[t] = "feed" =>
    t = Timer \/ (t = Task /\ pc[t] \in {"handle", "outer", "guarded", "leave"})

FeedQueued == \E i \in DOMAIN queue : queue[i] = "feed"

(* The timer has found the flag clear and has not sent yet. *)
FeedPosting == job[Timer] = "feed" /\ pc[Timer] \in {"lock", "check", "post"}

(* The flag is set from before a feed command is sent until the task has   *)
(* handled it.                                                             *)
FlagCovers ==
  /\ FeedPosting => feedActive /\ ~FeedQueued /\ ~FeedInHand
  /\ FeedQueued \/ FeedInHand => feedActive

FeedInv == FeedOwners /\ FlagCovers /\ AtMostOneFeed

LEMMA QueueElements ==
  ASSUME TypeOK
  PROVE  /\ DOMAIN queue = 1..Len(queue) /\ Len(queue) \in Nat
         /\ \A m \in Messages :
              /\ DOMAIN Append(queue, m) = 1..(Len(queue) + 1)
              /\ \A i \in 1..Len(queue) : Append(queue, m)[i] = queue[i]
              /\ Append(queue, m)[Len(queue) + 1] = m
         /\ queue # <<>> =>
              /\ DOMAIN Tail(queue) = 1..(Len(queue) - 1)
              /\ \A i \in 1..(Len(queue) - 1) : Tail(queue)[i] = queue[i + 1]
              /\ Head(queue) = queue[1] /\ 1 \in DOMAIN queue
<1>1. queue \in Seq(Messages)
  BY DEF TypeOK
<1>2. DOMAIN queue = 1..Len(queue) /\ Len(queue) \in Nat
  BY <1>1, LenProperties
<1>3. \A m \in Messages :
        /\ DOMAIN Append(queue, m) = 1..(Len(queue) + 1)
        /\ \A i \in 1..Len(queue) : Append(queue, m)[i] = queue[i]
        /\ Append(queue, m)[Len(queue) + 1] = m
  BY <1>1, <1>2, AppendProperties, LenProperties
<1>4. ASSUME queue # <<>>
      PROVE  /\ DOMAIN Tail(queue) = 1..(Len(queue) - 1)
             /\ \A i \in 1..(Len(queue) - 1) : Tail(queue)[i] = queue[i + 1]
             /\ Head(queue) = queue[1] /\ 1 \in DOMAIN queue
  BY <1>1, <1>2, <1>4, HeadTailProperties, EmptySeq, LenProperties
<1> QED
  BY <1>2, <1>3, <1>4

(* Steps that leave the queue, the flag and the feed jobs alone. *)
LEMMA SendStepFeedInv ==
  ASSUME MsgInv, FeedInv, NEW t \in Threads, SendStep(t)
  PROVE  FeedInv'
<1> USE ThreadsFacts DEF MsgInv, SectionInv, TypeOK, FeedInv, FeedOwners, FlagCovers,
        AtMostOneFeed, FeedQueued, FeedPosting, FeedInHand, At, Goto, GoHome, Home, Places,
        queueVars, wdogVars
<1>1. CASE SendLock(t)
  BY <1>1 DEF SendLock
<1>2. CASE CheckQueue(t)
  BY <1>2 DEF CheckQueue
<1>3. CASE Post(t)
  <2>1. job[t] \in Messages /\ (job[t] = "feed" => t = Timer)
    BY <1>3 DEF Post, WorkHasMessage
  <2>2. queue' = Append(queue, job[t])
    BY <1>3 DEF Post
  <2>3. CASE job[t] = "feed"
    BY <1>3, <2>1, <2>2, <2>3, QueueElements DEF Post
  <2>4. CASE job[t] # "feed"
    BY <1>3, <2>1, <2>2, <2>4, QueueElements DEF Post
  <2> QED
    BY <2>3, <2>4
<1>4. CASE PostRefused(t)
  BY <1>4 DEF PostRefused
<1>5. CASE SendUnlock(t)
  BY <1>5 DEF SendUnlock
<1>6. CASE EnterSection(t)
  BY <1>6 DEF EnterSection
<1>7. CASE LeaveSection(t)
  BY <1>7 DEF LeaveSection
<1> QED
  BY <1>1, <1>2, <1>3, <1>4, <1>5, <1>6, <1>7 DEF SendStep

LEMMA CallerFeedInv ==
  ASSUME MsgInv, FeedInv,
         \/ \E t \in Callers, m \in Posted, n \in BOOLEAN : CallSend(t, m, n)
         \/ CallFeed
         \/ FeedInSection
         \/ \E t \in Callers : CallerStep(t)
  PROVE  FeedInv'
<1> USE ThreadsFacts DEF MsgInv, SectionInv, TypeOK, FeedInv, FeedOwners, FlagCovers,
        AtMostOneFeed, FeedQueued, FeedPosting, FeedInHand, At, Goto, Places, Threads,
        queueVars, wdogVars
<1>1. ASSUME NEW t \in Callers, NEW m \in Posted, NEW n \in BOOLEAN, CallSend(t, m, n)
      PROVE  FeedInv'
  BY <1>1 DEF CallSend, Posted
<1>2. CASE CallFeed
  BY <1>2 DEF CallFeed
<1>3. CASE FeedInSection
  BY <1>3 DEF FeedInSection
<1>4. ASSUME NEW t \in Callers, CallerStep(t)
      PROVE  FeedInv'
  BY <1>4 DEF CallerStep, SendInSection, SkipInSection
<1> HIDE DEF MsgInv, FeedInv
<1> QED
  BY <1>1, <1>2, <1>3, <1>4

LEMMA TaskFeedInv ==
  ASSUME MsgInv, FeedInv, TaskStep
  PROVE  FeedInv'
<1> USE ThreadsFacts DEF MsgInv, SectionInv, TypeOK, FeedInv, FeedOwners, FlagCovers,
        AtMostOneFeed, FeedQueued, FeedPosting, FeedInHand, At, Goto, GoHome, Home, Places,
        queueVars, wdogVars
<1>1. CASE Recv
  BY <1>1, QueueElements DEF Recv
<1>2. CASE TaskInit \/ HandlePlain \/ HandleLocked \/ ScanSection
  BY <1>2 DEF TaskInit, HandlePlain, HandleLocked, ScanSection
<1>3. ASSUME NEW m \in Relayed, HandleRelay(m)
      PROVE  FeedInv'
  BY <1>3 DEF HandleRelay, Relayed
<1>4. CASE FeedSection
  BY <1>4 DEF FeedSection
<1>5. CASE Teardown
  BY <1>5 DEF Teardown
<1> QED
  BY <1>1, <1>2, <1>3, <1>4, <1>5 DEF TaskStep

(* However fast the watchdog timer fires, at most one of its feed commands  *)
(* is queued or being handled (wifiman_msg.c:199-218).                      *)
THEOREM OneFeedAtATime == Spec => []AtMostOneFeed
<1>1. Init => FeedInv
  BY ThreadsFacts DEF Init, FeedInv, FeedOwners, FlagCovers, AtMostOneFeed, FeedQueued,
     FeedPosting, FeedInHand
<1>2. MsgInv /\ FeedInv /\ [Next]_vars => FeedInv'
  <2>1. ASSUME FeedInv, UNCHANGED vars PROVE FeedInv'
    BY <2>1 DEF vars, FeedInv, FeedOwners, FlagCovers, AtMostOneFeed, FeedQueued,
                FeedPosting, FeedInHand
  <2> QED
    BY <2>1, SendStepFeedInv, CallerFeedInv, TaskFeedInv DEF Next
<1>3. FeedInv => AtMostOneFeed
  BY DEF FeedInv
<1> QED
  BY <1>1, <1>2, <1>3, MsgInvariant, PTL DEF Spec
=============================================================================
