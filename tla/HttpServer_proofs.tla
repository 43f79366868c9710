-------------------------- MODULE HttpServer_proofs --------------------------
(***************************************************************************)
(* The HTTP server, for any number of threads and every limit: whatever    *)
(* peers, allocator and application do, what a connection took is given    *)
(* back, and the request stays inside its buffer.                          *)
(***************************************************************************)
EXTENDS HttpServer, HttpRecv_proofs

Places_pc == {"none", "created", "gone", "crashed"} \cup Starting \cup Looping \cup Ending

PcType == pc \in [Tasks -> Places_pc] /\ owner \in Tasks \cup {NoTask}

(* The registered thread is the only one inside http_server_task. *)
OwnerInv == \A t \in Tasks : pc[t] \notin {"none", "created"} <=> owner = t

(* What the registered thread holds, by where it is. *)
HeldAt(p, h) ==
  /\ p \in {"open", "unregister"} => h = {}
  /\ p \in {"listen", "arm", "shut"} => h = {"listen"}
  /\ p = "disarm" => h = {"listen", "timer"}
  /\ p \in {"signals", "accept", "accepting", "unlock", "unwatch"} => h = Server
  /\ p \in {"serve", "recv", "received", "close"} => h = Server \cup {"conn"}
  /\ p = "frame" => h = Server \cup {"conn", "netbuf"}
  /\ p = "handle" => h = Server \cup {"conn", "hostname"}
  /\ p \in Replying =>
       /\ Server \cup {"conn"} \subseteq h
       /\ h \subseteq Server \cup {"conn", "content", "hostname", "line", "chunk"}
       /\ "line" \in h => p \in {"write", "delay"} /\ "chunk" \notin h
       /\ "chunk" \in h => p \in {"body", "write", "delay"}

(* Where there may be a request buffer, and where the server may have the  *)
(* mutex of the application.                                               *)
BufferAt == {"recv", "frame", "received", "handle", "close", "crashed"} \cup Replying
GateAt == {"crashed"} \cup (Looping \ {"signals", "accept"})

At(t, p) ==
  /\ HeldAt(p, held)
  /\ ctx.buf => p \in BufferAt
  /\ gateOwner \in Tasks => gateOwner = t /\ p \in GateAt

NobodyIn == held = {} /\ ~ctx.buf /\ gateOwner \notin Tasks

HoldInv ==
  /\ PcType /\ OwnerInv
  /\ owner = NoTask => NobodyIn
  /\ owner # NoTask => At(owner, pc[owner])

LEMMA InitHold == Init => HoldInv
BY TasksAssumption
DEF Init, HoldInv, PcType, Places_pc, OwnerInv, NobodyIn, NewContext

LEMMA HoldIsReleased == HoldInv => EverythingReleased
BY TasksAssumption
DEF HoldInv, PcType, OwnerInv, NobodyIn, At, HeldAt, BufferAt, GateAt, Replying, Looping,
    Receiving, EverythingReleased

(* A step of the registered thread, from one place to another.             *)
LEMMA MoveKeepsHold ==
  ASSUME HoldInv, NEW t \in Tasks, NEW from \in Places_pc, NEW to \in Places_pc,
         from \notin {"none", "created"}, to \notin {"none", "created"},
         Goto(t, from, to), owner' = owner,
         At(t, from) => At(t, to)'
  PROVE  HoldInv'
<1>1. pc[t] = from /\ owner = t /\ t # NoTask
  BY TasksAssumption DEF Goto, HoldInv, OwnerInv
<1>2. PcType'
  BY DEF Goto, HoldInv, PcType
<1>3. OwnerInv'
  BY <1>1 DEF Goto, HoldInv, PcType, OwnerInv
<1>4. At(owner, pc[owner])'
  <2>1. pc'[t] = to /\ owner' = t
    BY <1>1 DEF Goto, HoldInv, PcType
  <2>2. At(t, to)'
    BY <1>1 DEF HoldInv
  <2> QED
    BY <2>1, <2>2 DEF At
<1> QED
  BY <1>1, <1>2, <1>3, <1>4 DEF HoldInv

-----------------------------------------------------------------------------
(* The calls from other threads, the end of a thread, and time.            *)
LEMMA OthersKeepHold ==
  ASSUME HoldInv, Others \/ TimePasses \/ UNCHANGED vars
  PROVE  HoldInv'
<1>1. CASE Start
  <2>1. PICK t \in Tasks : pc[t] = "none" /\ pc' = [pc EXCEPT ![t] = "created"]
    BY <1>1 DEF Start, Goto
  <2>2. owner' = owner /\ held' = held /\ ctx' = ctx /\ gateOwner' = gateOwner
    BY <1>1 DEF Start, outside, incoming
  <2>3. PcType' /\ OwnerInv'
    BY <2>1, <2>2 DEF HoldInv, PcType, OwnerInv, Places_pc
  <2>4. owner # NoTask => pc'[owner] = pc[owner]
    BY <2>1 DEF HoldInv, PcType, OwnerInv
  <2> QED
    BY <2>2, <2>3, <2>4 DEF HoldInv, NobodyIn, At
<1>2. CASE Stop \/ UserReq \/ UseMutex \/ TimePasses \/ UNCHANGED vars
  <2>1. pc' = pc /\ owner' = owner /\ held' = held /\ ctx' = ctx /\ gateOwner' = gateOwner
    BY <1>2 DEF Stop, UserReq, Send, UseMutex, TimePasses, vars, outside, incoming
  <2> QED
    BY <2>1 DEF HoldInv, PcType, OwnerInv, NobodyIn, At
<1>3. CASE AppLocks
  <2>1. pc' = pc /\ owner' = owner /\ held' = held /\ ctx' = ctx /\ gateOwner' \notin Tasks
    BY <1>3, TasksAssumption DEF AppLocks, incoming
  <2> QED
    BY <2>1 DEF HoldInv, PcType, OwnerInv, NobodyIn, At
<1> QED
  BY <1>1, <1>2, <1>3 DEF Others

LEMMA TaskKeepsHold ==
  ASSUME HoldInv, NEW t \in Tasks,
         \/ Register(t) \/ Open(t) \/ Listen(t) \/ Arm(t) \/ TakeSignals(t)
         \/ Unwatch(t) \/ Disarm(t) \/ Shut(t) \/ Unregister(t)
  PROVE  HoldInv'
<1> USE DEF Places_pc, Starting, Looping, Ending, Receiving, Replying
<1>1. CASE Register(t)
  <2>1. pc[t] = "created" /\ owner # t
    BY <1>1 DEF Register, Goto, HoldInv, OwnerInv
  <2>2. held' = held /\ ctx' = ctx /\ gateOwner' = gateOwner
    BY <1>1 DEF Register, outside, incoming
  <2>3. CASE owner = NoTask /\ owner' = t /\ pc' = [pc EXCEPT ![t] = "open"]
    <3>1. PcType' /\ OwnerInv'
      BY <2>1, <2>3, TasksAssumption DEF HoldInv, PcType, OwnerInv
    <3>2. pc'[t] = "open"
      BY <2>3 DEF HoldInv, PcType
    <3>3. At(t, "open")'
      BY <2>2, <2>3, <3>2 DEF HoldInv, NobodyIn, At, HeldAt
    <3> QED
      BY <2>3, <3>1, <3>2, <3>3, TasksAssumption DEF HoldInv, At
  <2>4. CASE owner # NoTask /\ owner' = owner /\ pc' = [pc EXCEPT ![t] = "none"]
    <3>1. PcType' /\ OwnerInv'
      BY <2>1, <2>4 DEF HoldInv, PcType, OwnerInv
    <3>2. pc'[owner] = pc[owner]
      BY <2>1, <2>4 DEF HoldInv, PcType
    <3> QED
      BY <2>2, <2>4, <3>1, <3>2 DEF HoldInv, At
  <2> QED
    BY <1>1, <2>3, <2>4 DEF Register, Goto
<1> USE DEF At, HeldAt, BufferAt, GateAt, Server, outside, incoming
<1>2. CASE Open(t)
  <2>1. /\ owner' = owner
        /\ \E to \in {"listen", "gone"} :
             Goto(t, "open", to) /\ (At(t, "open") => At(t, to)')
    BY <1>2 DEF Open, Goto
  <2> QED
    BY <2>1, MoveKeepsHold
<1>3. CASE Listen(t)
  <2>1. /\ owner' = owner
        /\ \E to \in {"arm", "gone"} :
             Goto(t, "listen", to) /\ (At(t, "listen") => At(t, to)')
    BY <1>3 DEF Listen, Goto
  <2> QED
    BY <2>1, MoveKeepsHold
<1>4. CASE Arm(t)
  <2>1. /\ owner' = owner /\ Goto(t, "arm", "signals")
        /\ At(t, "arm") => At(t, "signals")'
    BY <1>4 DEF Arm, Goto
  <2> QED
    BY <2>1, MoveKeepsHold
<1>5. CASE TakeSignals(t)
  <2>1. /\ owner' = owner
        /\ \E to \in {"unwatch", "accept"} :
             Goto(t, "signals", to) /\ (At(t, "signals") => At(t, to)')
    BY <1>5 DEF TakeSignals, Goto
  <2> QED
    BY <2>1, MoveKeepsHold
<1>6. CASE Unwatch(t)
  <2>1. /\ owner' = owner /\ Goto(t, "unwatch", "disarm")
        /\ At(t, "unwatch") => At(t, "disarm")'
    BY <1>6 DEF Unwatch, Drop, Goto
  <2> QED
    BY <2>1, MoveKeepsHold
<1>7. CASE Disarm(t)
  <2>1. /\ owner' = owner /\ Goto(t, "disarm", "shut")
        /\ At(t, "disarm") => At(t, "shut")'
    BY <1>7 DEF Disarm, Drop, Goto
  <2> QED
    BY <2>1, MoveKeepsHold
<1>8. CASE Shut(t)
  <2>1. /\ owner' = owner /\ Goto(t, "shut", "unregister")
        /\ At(t, "shut") => At(t, "unregister")'
    BY <1>8 DEF Shut, Drop, Goto
  <2> QED
    BY <2>1, MoveKeepsHold
<1>9. CASE Unregister(t)
  <2>1. pc[t] = "unregister" /\ pc' = [pc EXCEPT ![t] = "none"] /\ owner = t /\ t # NoTask
    BY <1>9, TasksAssumption DEF Unregister, Goto, HoldInv, OwnerInv
  <2>2. owner' = NoTask /\ held' = held /\ ctx' = ctx /\ gateOwner' = gateOwner
    BY <1>9 DEF Unregister
  <2>3. PcType' /\ OwnerInv'
    BY <2>1, <2>2, TasksAssumption DEF HoldInv, PcType, OwnerInv
  <2>4. NobodyIn'
    BY <2>1, <2>2 DEF HoldInv, NobodyIn
  <2> QED
    BY <2>2, <2>3, <2>4 DEF HoldInv
<1> QED
  BY <1>1, <1>2, <1>3, <1>4, <1>5, <1>6, <1>7, <1>8, <1>9

LEMMA ConnectionKeepsHold ==
  ASSUME HoldInv, NEW t \in Tasks, Connection(t)
  PROVE  HoldInv'
<1> USE DEF Places_pc, Starting, Looping, Ending, Receiving, Replying,
            At, HeldAt, BufferAt, GateAt, Server, outside, incoming, outgoing
<1>1. CASE TryLock(t)
  <2>1. /\ owner' = owner
        /\ \E to \in {"accepting", "signals"} :
             Goto(t, "accept", to) /\ (At(t, "accept") => At(t, to)')
    BY <1>1, TasksAssumption DEF TryLock, Goto
  <2> QED
    BY <2>1, MoveKeepsHold
<1>2. CASE AcceptNothing(t)
  <2>1. /\ owner' = owner /\ Goto(t, "accepting", "unlock")
        /\ At(t, "accepting") => At(t, "unlock")'
    BY <1>2, TasksAssumption DEF AcceptNothing, Goto
  <2> QED
    BY <2>1, MoveKeepsHold
<1>3. CASE Accept(t)
  <2>1. /\ owner' = owner /\ Goto(t, "accepting", "serve")
        /\ At(t, "accepting") => At(t, "serve")'
    BY <1>3, TasksAssumption DEF Accept, Goto
  <2> QED
    BY <2>1, MoveKeepsHold
<1>4. CASE Unlock(t)
  <2>1. /\ owner' = owner /\ Goto(t, "unlock", "signals")
        /\ At(t, "unlock") => At(t, "signals")'
    BY <1>4, TasksAssumption DEF Unlock, Goto
  <2> QED
    BY <2>1, MoveKeepsHold
<1>5. CASE ConnectionIsGone(t)
  <2>1. /\ owner' = owner /\ Goto(t, "serve", "close")
        /\ At(t, "serve") => At(t, "close")'
    BY <1>5, TasksAssumption DEF ConnectionIsGone, Goto
  <2> QED
    BY <2>1, MoveKeepsHold
<1>6. CASE Serve(t)
  <2>1. /\ owner' = owner /\ Goto(t, "serve", "recv")
        /\ At(t, "serve") => At(t, "recv")'
    BY <1>6, TasksAssumption DEF Serve, NewContext, Goto
  <2> QED
    BY <2>1, MoveKeepsHold
<1>7. CASE GiveUpReceiving(t)
  <2>1. /\ owner' = owner /\ Goto(t, "recv", "received")
        /\ At(t, "recv") => At(t, "received")'
    BY <1>7, TasksAssumption DEF GiveUpReceiving, Goto
  <2> QED
    BY <2>1, MoveKeepsHold
<1>8. CASE Receive(t)
  <2>1. /\ owner' = owner /\ Goto(t, "recv", "frame")
        /\ At(t, "recv") => At(t, "frame")'
    BY <1>8, TasksAssumption DEF Receive, Goto
  <2> QED
    BY <2>1, MoveKeepsHold
<1>9. CASE Frame(t)
  <2>1. PICK n \in Fragments, grow \in BOOLEAN, fit \in BOOLEAN :
          LET step == HandleReceivedBuf(ctx, n, req, grow, fit)
              more == step.ok /\ frags > 1
          IN  /\ Goto(t, "frame", IF more THEN "frame"
                                  ELSE IF step.ok /\ ~step.ctx.ready THEN "recv" ELSE "received")
              /\ held' = IF more THEN held ELSE held \ {"netbuf"}
              /\ owner' = owner /\ gateOwner' = gateOwner
    BY <1>9 DEF Frame
  <2>2. PICK to \in {"frame", "recv", "received"} :
          /\ Goto(t, "frame", to) /\ owner' = owner /\ gateOwner' = gateOwner
          /\ held' = IF to = "frame" THEN held ELSE held \ {"netbuf"}
    <3> DEFINE step == HandleReceivedBuf(ctx, n, req, grow, fit)
               more == step.ok /\ frags > 1
               next == IF more THEN "frame"
                       ELSE IF step.ok /\ ~step.ctx.ready THEN "recv" ELSE "received"
    <3>1. next \in {"frame", "recv", "received"} /\ (more <=> next = "frame")
      OBVIOUS
    <3>2. /\ Goto(t, "frame", next) /\ owner' = owner /\ gateOwner' = gateOwner
          /\ held' = IF more THEN held ELSE held \ {"netbuf"}
      BY <2>1
    <3> HIDE DEF more, next
    <3> QED
      BY <3>1, <3>2
  <2>3. At(t, "frame") => At(t, to)'
    BY <2>2
  <2> QED
    BY <2>2, <2>3, MoveKeepsHold
<1>10. CASE FrameIsBad(t)
  <2>1. /\ owner' = owner /\ Goto(t, "frame", "received")
        /\ At(t, "frame") => At(t, "received")'
    BY <1>10, TasksAssumption DEF FrameIsBad, Goto
  <2> QED
    BY <2>1, MoveKeepsHold
<1>11. CASE Incomplete(t)
  <2>1. /\ owner' = owner /\ Goto(t, "received", "close")
        /\ At(t, "received") => At(t, "close")'
    BY <1>11, TasksAssumption DEF Incomplete, ForgetRequest, Goto
  <2> QED
    BY <2>1, MoveKeepsHold
<1>12. CASE Close(t)
  <2>1. /\ owner' = owner /\ Goto(t, "close", "unlock")
        /\ At(t, "close") => At(t, "unlock")'
    BY <1>12, TasksAssumption DEF Close, NewContext, Goto
  <2> QED
    BY <2>1, MoveKeepsHold
<1> QED
  BY <1>1, <1>2, <1>3, <1>4, <1>5, <1>6, <1>7, <1>8, <1>9, <1>10, <1>11, <1>12 DEF Connection

(* A reply is there, with its content and perhaps the name of the host.    *)
LEMMA AnswerKeepsHold ==
  ASSUME HoldInv, NEW t \in Tasks, NEW from \in {"received", "handle"},
         NEW with \in SUBSET {"hostname"}, NEW r, Answer(t, from, with, r),
         ctx'.buf = ctx.buf
  PROVE  HoldInv'
<1> USE DEF Places_pc, Starting, Looping, Ending, Receiving, Replying,
            At, HeldAt, BufferAt, GateAt, Server, outside, incoming, outgoing
<1>1. /\ owner' = owner /\ gateOwner' = gateOwner
      /\ held \subseteq held' /\ held' \subseteq held \cup {"hostname", "content"}
  BY DEF Answer
<1>2. PICK to \in {"penalty", "header"} : Goto(t, from, to)
  BY DEF Answer
<1>3. At(t, from) => At(t, to)'
  BY <1>1, <1>2
<1> QED
  BY <1>1, <1>2, <1>3, MoveKeepsHold

LEMMA RespondKeepsHold ==
  ASSUME HoldInv, NEW t \in Tasks, Respond(t)
  PROVE  HoldInv'
<1> USE DEF Places_pc, Starting, Looping, Ending, Receiving, Replying,
            At, HeldAt, BufferAt, GateAt, Server, outside, incoming, outgoing
<1>1. CASE ParseNull(t)
  <2>1. /\ owner' = owner /\ Goto(t, "received", "crashed")
        /\ At(t, "received") => At(t, "crashed")'
    BY <1>1, TasksAssumption DEF ParseNull, Goto
  <2> QED
    BY <2>1, MoveKeepsHold
<1>2. CASE AnswerAtOnce(t) \/ TurnAway(t)
  <2>1. PICK with \in SUBSET {"hostname"}, code \in {302, 400, 500, 503} :
          Answer(t, "received", with, RespErr(code)) /\ ForgetRequest
    BY <1>2 DEF AnswerAtOnce, TurnAway, Readable
  <2>2. ctx'.buf = ctx.buf
    BY <2>1 DEF ForgetRequest, NewContext
  <2> QED
    BY <2>1, <2>2, AnswerKeepsHold
<1>3. CASE Penalty(t)
  <2>1. /\ owner' = owner /\ Goto(t, "penalty", "header")
        /\ At(t, "penalty") => At(t, "header")'
    BY <1>3, TasksAssumption DEF Penalty, Goto
  <2> QED
    BY <2>1, MoveKeepsHold
<1>4. CASE NoLine(t)
  <2>1. /\ owner' = owner
        /\ \E to \in {"body", "release"} :
             Goto(t, "header", to) /\ (At(t, "header") => At(t, to)')
    BY <1>4, TasksAssumption DEF NoLine, AfterHeader, Goto
  <2> QED
    BY <2>1, MoveKeepsHold
<1>5. CASE SendLine(t)
  <2>1. /\ owner' = owner /\ Goto(t, "header", "write")
        /\ At(t, "header") => At(t, "write")'
    BY <1>5, TasksAssumption DEF SendLine, Goto
  <2> QED
    BY <2>1, MoveKeepsHold
<1>6. CASE SendChunk(t)
  <2>1. /\ owner' = owner /\ Goto(t, "body", "write")
        /\ At(t, "body") => At(t, "write")'
    BY <1>6, TasksAssumption DEF SendChunk, Goto
  <2> QED
    BY <2>1, MoveKeepsHold
<1>7. CASE NoChunk(t)
  <2>1. /\ owner' = owner /\ Goto(t, "body", "release")
        /\ At(t, "body") => At(t, "release")'
    BY <1>7, TasksAssumption DEF NoChunk, Goto
  <2> QED
    BY <2>1, MoveKeepsHold
<1>8. CASE WriteFails(t)
  <2>1. /\ owner' = owner
        /\ \E to \in {"body", "release"} :
             Goto(t, "write", to) /\ (At(t, "write") => At(t, to)')
    BY <1>8, TasksAssumption DEF WriteFails, AfterWrite, AfterHeader, AfterChunk, Goto
  <2> QED
    BY <2>1, MoveKeepsHold
<1>9. CASE WriteDone(t)
  <2>1. /\ owner' = owner
        /\ \E to \in {"body", "release"} :
             Goto(t, "write", to) /\ (At(t, "write") => At(t, to)')
    BY <1>9, TasksAssumption DEF WriteDone, AfterWrite, AfterHeader, AfterChunk, Goto
  <2> QED
    BY <2>1, MoveKeepsHold
<1>10. CASE WriteSome(t)
  <2>1. /\ owner' = owner /\ Goto(t, "write", "delay")
        /\ At(t, "write") => At(t, "delay")'
    BY <1>10, TasksAssumption DEF WriteSome, Goto
  <2> QED
    BY <2>1, MoveKeepsHold
<1>11. CASE WriteAgain(t)
  <2>1. /\ owner' = owner /\ Goto(t, "delay", "write")
        /\ At(t, "delay") => At(t, "write")'
    BY <1>11, TasksAssumption DEF WriteAgain, Goto
  <2> QED
    BY <2>1, MoveKeepsHold
<1>12. CASE Release(t)
  <2>1. /\ owner' = owner /\ Goto(t, "release", "close")
        /\ At(t, "release") => At(t, "close")'
    BY <1>12, TasksAssumption DEF Release, Goto
  <2> QED
    BY <2>1, MoveKeepsHold
<1>13. CASE HandleReq(t)
  <2>1. /\ owner' = owner /\ Goto(t, "received", "handle")
        /\ At(t, "received") => At(t, "handle")'
    BY <1>13, TasksAssumption DEF HandleReq, Readable, ForgetRequest, Goto
  <2> QED
    BY <2>1, MoveKeepsHold
<1> QED
  BY <1>1, <1>2, <1>3, <1>4, <1>5, <1>6, <1>7, <1>8, <1>9, <1>10, <1>11, <1>12, <1>13 DEF Respond

(* The handler returns what it returns. *)
LEMMA ReturnKeepsHold ==
  ASSUME HoldInv, NEW t \in Tasks, HandlerReturns(t)
  PROVE  HoldInv'
<1>1. PICK r \in Replies : Answer(t, "handle", {}, r) /\ ctx' = ctx
  BY DEF HandlerReturns
<1> QED
  BY <1>1, AnswerKeepsHold

LEMMA NextKeepsHold == HoldInv /\ [Next]_vars => HoldInv'
BY OthersKeepHold, TaskKeepsHold, ConnectionKeepsHold, RespondKeepsHold, ReturnKeepsHold
DEF Next, Run

LEMMA HoldCorrect == Spec => []HoldInv
BY InitHold, NextKeepsHold, PTL DEF Spec

(* Between two connections the server holds its own things only, and once  *)
(* it has unregistered nothing: whatever fails while a request is received *)
(* or answered (http_server_accept_and_handle_conn.c:223-495,              *)
(* http_server.c:396-423).                                                 *)
THEOREM EverythingReleasedCorrect == Spec => []EverythingReleased
BY HoldCorrect, HoldIsReleased, PTL

-----------------------------------------------------------------------------
(* While a request is received its buffer may take more of it; afterwards  *)
(* it is inside the buffer.                                                *)
InReceipt(p) == p \in {"recv", "frame"}

FitInv ==
  /\ req \in Request /\ ctx \in Contexts /\ Fits(ctx)
  /\ \A t \in Tasks : InReceipt(pc[t]) => Going(ctx, req)

LEMMA InitFit == Init => FitInv
<1> SUFFICES ASSUME Init PROVE FitInv
  OBVIOUS
<1>1. req \in Request
  BY SizesAssumption DEF Init, NoRequest, Request
<1>2. ctx \in Contexts /\ Fits(ctx)
  BY <1>1, NewContextGoes, GoingFits DEF Init, Going
<1>3. \A t \in Tasks : ~InReceipt(pc[t])
  BY DEF Init, InReceipt
<1> QED
  BY <1>1, <1>2, <1>3 DEF FitInv

(* Nobody else is where the registered thread is. *)
LEMMA OthersAreOut ==
  ASSUME HoldInv, NEW t \in Tasks, pc[t] \notin {"none", "created"},
         NEW u \in Tasks, u # t
  PROVE  ~InReceipt(pc[u])
BY DEF HoldInv, OwnerInv, InReceipt

LEMMA QuietKeepsFit ==
  ASSUME FitInv, UNCHANGED <<req, ctx>>,
         \A t \in Tasks : InReceipt(pc'[t]) => InReceipt(pc[t])
  PROVE  FitInv'
BY DEF FitInv

(* The steps that leave the request alone. *)
LEMMA ElsewhereKeepsFit ==
  ASSUME HoldInv, FitInv, NEW t \in Tasks,
         NEW from, NEW to, Goto(t, from, to), InReceipt(to) => InReceipt(from),
         UNCHANGED <<req, ctx>>
  PROVE  FitInv'
<1>1. \A u \in Tasks : InReceipt(pc'[u]) => InReceipt(pc[u])
  BY DEF Goto, HoldInv, PcType
<1> QED
  BY <1>1, QuietKeepsFit

(* The request is handed on or given up: its buffer stays as it is.        *)
LEMMA ForgetKeepsFit ==
  ASSUME HoldInv, FitInv, NEW t \in Tasks,
         NEW to, Goto(t, "received", to), ~InReceipt(to), ForgetRequest
  PROVE  FitInv'
<1>1. req' \in Request
  BY SizesAssumption DEF ForgetRequest, NoRequest, Request
<1>2. ctx.buf \in BOOLEAN
  BY ContextFields DEF FitInv
<1>3. ctx' \in Contexts /\ Fits(ctx')
  <2>1. /\ ctx' \in Contexts /\ ~ctx'.ready
        /\ ctx'.header = 0 /\ ctx'.accum = 0 /\ ctx'.size = 0 /\ ctx'.room = 0
    BY <1>2 DEF ForgetRequest, NewContext, Contexts
  <2> QED
    BY <2>1, SizesAssumption DEF Fits
<1>4. \A u \in Tasks : ~InReceipt(pc'[u])
  BY OthersAreOut DEF Goto, HoldInv, PcType
<1> QED
  BY <1>1, <1>3, <1>4 DEF FitInv

LEMMA FrameKeepsFit ==
  ASSUME HoldInv, FitInv, NEW t \in Tasks, Frame(t)
  PROVE  FitInv'
<1>1. PICK n \in Fragments, grow \in BOOLEAN, fit \in BOOLEAN :
        LET step == HandleReceivedBuf(ctx, n, req, grow, fit)
            more == step.ok /\ frags > 1
        IN  /\ Goto(t, "frame", IF more THEN "frame"
                                ELSE IF step.ok /\ ~step.ctx.ready THEN "recv" ELSE "received")
            /\ ctx' = step.ctx /\ req' = req
  BY DEF Frame
<1> DEFINE step == HandleReceivedBuf(ctx, n, req, grow, fit)
<1>2. pc[t] = "frame" /\ ctx' = step.ctx /\ req' = req
  BY <1>1 DEF Goto
<1>3. /\ step.ctx \in Contexts /\ Fits(step.ctx)
      /\ step.ok => Going(step.ctx, req)
  <2>1. n \in Nat \ {0}
    BY SizesAssumption DEF Fragments
  <2> QED
    BY <1>2, <2>1, FragmentFits DEF FitInv, InReceipt
<1>4. InReceipt(pc'[t]) => step.ok
  BY <1>1 DEF Goto, InReceipt, HoldInv, PcType
<1>5. \A u \in Tasks : u # t => ~InReceipt(pc'[u])
  BY <1>1, <1>2, OthersAreOut DEF Goto, HoldInv, PcType
<1> HIDE DEF step
<1> QED
  BY <1>2, <1>3, <1>4, <1>5 DEF FitInv

LEMMA NextKeepsFit == HoldInv /\ FitInv /\ [Next]_vars => FitInv'
<1> SUFFICES ASSUME HoldInv, FitInv, [Next]_vars PROVE FitInv'
  OBVIOUS
<1> USE DEF InReceipt, incoming
<1>1. CASE Others \/ TimePasses \/ UNCHANGED vars
  <2>1. UNCHANGED <<req, ctx>>
    BY <1>1 DEF Others, Start, Stop, UserReq, Send, UseMutex, AppLocks, TimePasses, vars
  <2>2. \A t \in Tasks : InReceipt(pc'[t]) => InReceipt(pc[t])
    BY <1>1 DEF Others, Start, Goto, Stop, UserReq, Send, UseMutex, AppLocks, TimePasses, vars,
                HoldInv, PcType
  <2> QED
    BY <2>1, <2>2, QuietKeepsFit
<1> SUFFICES ASSUME NEW t \in Tasks, Run(t) \/ HandlerReturns(t) PROVE FitInv'
  BY <1>1 DEF Next
<1>2. CASE \/ Register(t) \/ Open(t) \/ Listen(t) \/ Arm(t) \/ TakeSignals(t)
           \/ Unwatch(t) \/ Disarm(t) \/ Shut(t) \/ Unregister(t)
  <2>1. /\ UNCHANGED <<req, ctx>>
        /\ \E from, to : Goto(t, from, to) /\ ~InReceipt(to)
    BY <1>2 DEF Register, Open, Listen, Arm, TakeSignals, Drop, Unwatch, Disarm, Shut, Unregister
  <2> QED
    BY <2>1, ElsewhereKeepsFit
<1>3. CASE \/ TryLock(t) \/ AcceptNothing(t) \/ Accept(t) \/ Unlock(t)
           \/ ConnectionIsGone(t) \/ GiveUpReceiving(t) \/ FrameIsBad(t)
  <2>1. /\ UNCHANGED <<req, ctx>>
        /\ \E from, to : Goto(t, from, to) /\ ~InReceipt(to)
    BY <1>3 DEF TryLock, AcceptNothing, Accept, Unlock, ConnectionIsGone, GiveUpReceiving, FrameIsBad
  <2> QED
    BY <2>1, ElsewhereKeepsFit
<1>4. CASE Receive(t)
  BY <1>4, ElsewhereKeepsFit DEF Receive
<1>5. CASE Serve(t)
  <2>1. req' \in Request /\ ctx' = NewContext
    BY <1>5 DEF Serve, Requests, Request
  <2>2. Going(ctx', req') /\ Fits(ctx')
    BY <2>1, NewContextGoes, GoingFits
  <2> QED
    BY <2>1, <2>2 DEF FitInv, Going
<1>6. CASE Frame(t)
  BY <1>6, FrameKeepsFit
<1>7. CASE Incomplete(t)
  BY <1>7, ForgetKeepsFit DEF Incomplete
<1>8. CASE Close(t)
  <2>1. req' = req /\ ctx' = NewContext /\ Goto(t, "close", "unlock")
    BY <1>8 DEF Close
  <2>2. ctx' \in Contexts /\ Fits(ctx')
    BY <2>1, NewContextGoes, GoingFits DEF FitInv, Going
  <2>3. \A u \in Tasks : ~InReceipt(pc'[u])
    BY <2>1, OthersAreOut DEF Goto, HoldInv, PcType
  <2> QED
    BY <2>1, <2>2, <2>3 DEF FitInv
<1>9. CASE AnswerAtOnce(t) \/ TurnAway(t) \/ HandleReq(t)
  <2>1. \E to : Goto(t, "received", to) /\ ~InReceipt(to) /\ ForgetRequest
    BY <1>9 DEF AnswerAtOnce, TurnAway, HandleReq, Readable, Answer
  <2> QED
    BY <2>1, ForgetKeepsFit
<1>10. CASE \/ ParseNull(t) \/ Penalty(t) \/ NoLine(t) \/ SendLine(t) \/ SendChunk(t)
            \/ NoChunk(t) \/ WriteFails(t) \/ WriteDone(t) \/ WriteSome(t)
            \/ WriteAgain(t) \/ Release(t) \/ HandlerReturns(t)
  <2>1. /\ UNCHANGED <<req, ctx>>
        /\ \E from, to : Goto(t, from, to) /\ ~InReceipt(to)
    BY <1>10 DEF ParseNull, Penalty, NoLine, AfterHeader, SendLine, SendChunk, NoChunk, AfterChunk,
                 AfterWrite, WriteFails, WriteDone, WriteSome, WriteAgain, Release,
                 HandlerReturns, Answer
  <2> QED
    BY <2>1, ElsewhereKeepsFit
<1> QED
  BY <1>2, <1>3, <1>4, <1>5, <1>6, <1>7, <1>8, <1>9, <1>10 DEF Run, Connection, Respond

LEMMA FitIsFit == FitInv => RequestFitsBuffer
BY DEF FitInv, Fits, RequestFitsBuffer

(* The bytes of the request stay inside the allocated buffer, its header   *)
(* and, when it is handed on, its whole body with them, for every limit,   *)
(* fragmentation and failure of the allocator                              *)
(* (http_server_accept_and_handle_conn.c:67-200).                          *)
THEOREM RequestFitsBufferCorrect == Spec => []RequestFitsBuffer
<1>1. Spec => []HoldInv
  BY HoldCorrect
<1>2. Init => FitInv
  BY InitFit
<1>3. HoldInv /\ FitInv /\ [Next]_vars => FitInv'
  BY NextKeepsFit
<1> QED
  BY <1>1, <1>2, <1>3, FitIsFit, PTL DEF Spec
=============================================================================
