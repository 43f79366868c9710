----------------------------- MODULE HttpServer -----------------------------
(***************************************************************************)
(* The HTTP server: the thread that runs http_server_task, the calls that  *)
(* start, stop and signal it, and the connections it serves one after the  *)
(* other, from netconn_accept to the reply and back. What a request is     *)
(* answered is in HttpHandle; here any reply may be the answer. The peer,  *)
(* lwIP and the allocator choose freely, also to fail; the application may *)
(* start and stop the server and may give it a mutex to serve under.       *)
(***************************************************************************)
EXTENDS HttpRecv, HttpResp, FiniteSets

CONSTANTS
  Tasks,        (* threads that may run http_server_task                   *)
  NoTask,       (* no thread                                               *)
  App,          (* the application, as a holder of its mutex               *)
  MaxFragments, (* fragments of one netbuf                                 *)
  MaxChunks     (* chunks a file or a generator is sent in                 *)

ASSUME TasksAssumption == NoTask \notin Tasks /\ App \notin Tasks \cup {NoTask}
ASSUME BoundsAssumption == MaxFragments \in Nat \ {0} /\ MaxChunks \in Nat

(* The signal of the feed timer is left out: taking it resets the watchdog   *)
(* and nothing else. The two user requests are one.                         *)
Signals == {"STOP", "USER"}

(* What a thread holds on its way, besides the request buffer and the mutex *)
(* of the application.                                                      *)
Things == {"listen", "watched", "timer", "conn", "netbuf", "hostname",
           "content", "line", "chunk"}
Server == {"listen", "watched", "timer"}

Starting == {"open", "listen", "arm"}
Receiving == {"serve", "recv", "frame", "received"}
Replying == {"penalty", "header", "body", "write", "delay", "release"}
Looping == {"signals", "accept", "accepting", "handle", "close", "unlock"}
             \cup Receiving \cup Replying
Ending == {"unwatch", "disarm", "shut", "unregister"}

VARIABLES
  pc,        (* where each thread is                                       *)
  owner,     (* the thread registered with g_p_http_server_sig             *)
  pending,   (* the signals it has not taken                               *)
  held,      (* what the registered thread holds                           *)
  gate,      (* g_p_mutex_accept_conn is set                               *)
  gateOwner, (* who holds that mutex                                       *)
  req,       (* the request the peer is sending                            *)
  ctx,       (* http_server_recv_ctx_t                                     *)
  frags,     (* fragments of the netbuf not looked at yet                  *)
  late,      (* the timeout under way is over                              *)
  reply,     (* http_server_resp_t                                         *)
  left       (* chunks of the content not sent yet                         *)

outside == <<gate, gateOwner>>
incoming == <<req, ctx, frags>>
outgoing == <<reply, left>>
vars == <<pc, owner, pending, held, outside, incoming, late, outgoing>>

(* The lengths of a request, each up to one that is too long.               *)
Requests == [header : 1 .. (MaxRequest + 1), length : {NoLength} \cup 0 .. (MaxContent + 1)]

(* The lengths of a fragment; the longest never fits.                       *)
Fragments == 1 .. (MaxRequest + MaxContent + 1)
NoRequest == [header |-> 1, length |-> NoLength]
NoReply == RespErr(500)

TypeOK ==
  /\ pc \in [Tasks -> {"none", "created", "gone", "crashed"} \cup Starting \cup Looping \cup Ending]
  /\ owner \in Tasks \cup {NoTask}
  /\ pending \subseteq Signals
  /\ held \subseteq Things
  /\ gate \in BOOLEAN /\ gateOwner \in Tasks \cup {NoTask, App}
  /\ req \in Requests /\ ctx \in Contexts /\ frags \in 0 .. MaxFragments
  /\ late \in BOOLEAN
  /\ reply \in Replies /\ left \in 0 .. MaxChunks + 1

Init ==
  /\ pc = [t \in Tasks |-> "none"]
  /\ owner = NoTask /\ pending = {} /\ held = {}
  /\ gate = FALSE /\ gateOwner = NoTask
  /\ req = NoRequest /\ ctx = NewContext /\ frags = 0 /\ late = FALSE
  /\ reply = NoReply /\ left = 0

Goto(t, from, to) == pc[t] = from /\ pc' = [pc EXCEPT ![t] = to]

-----------------------------------------------------------------------------
(* Calls from other threads. *)

(* http_server_start creates a thread whether one is registered or not, and *)
(* does not look at whether it could.                                       *)
Start ==
  /\ \E t \in Tasks : Goto(t, "none", "created")
  /\ UNCHANGED <<owner, pending, held, outside, incoming, late, outgoing>>

Send(signal) ==
  /\ pending' = IF owner = NoTask THEN pending ELSE pending \cup {signal}
  /\ UNCHANGED <<pc, owner, held, outside, incoming, late, outgoing>>

Stop == Send("STOP")

UserReq == Send("USER")

(* http_server_use_mutex_for_incoming_connection_handling, and the          *)
(* application's own use of that mutex.                                     *)
UseMutex ==
  /\ gate' = ~gate
  /\ UNCHANGED <<pc, owner, pending, held, gateOwner, incoming, late, outgoing>>

AppLocks ==
  /\ \/ gateOwner = NoTask /\ gateOwner' = App
     \/ gateOwner = App /\ gateOwner' = NoTask
  /\ UNCHANGED <<pc, owner, pending, held, gate, incoming, late, outgoing>>

-----------------------------------------------------------------------------
(* http_server_task, around its loop. *)

Register(t) ==
  /\ \/ owner = NoTask /\ owner' = t /\ Goto(t, "created", "open")
     \/ owner # NoTask /\ owner' = owner /\ Goto(t, "created", "none")
  /\ UNCHANGED <<pending, held, outside, incoming, late, outgoing>>

(* Without a netconn, and when it cannot listen, the thread ends as it is:  *)
(* registered, and with the netconn.                                        *)
Open(t) ==
  /\ \/ Goto(t, "open", "listen") /\ held' = held \cup {"listen"}
     \/ Goto(t, "open", "gone") /\ held' = held
  /\ UNCHANGED <<owner, pending, outside, incoming, late, outgoing>>

Listen(t) ==
  /\ Goto(t, "listen", "arm") \/ Goto(t, "listen", "gone")
  /\ UNCHANGED <<owner, pending, held, outside, incoming, late, outgoing>>

Arm(t) ==
  /\ Goto(t, "arm", "signals")
  /\ held' = held \cup {"timer", "watched"}
  /\ UNCHANGED <<owner, pending, outside, incoming, late, outgoing>>

TakeSignals(t) ==
  /\ Goto(t, "signals", IF "STOP" \in pending THEN "unwatch" ELSE "accept")
  /\ pending' = {}
  /\ UNCHANGED <<owner, held, outside, incoming, late, outgoing>>

Drop(t, from, thing, to) ==
  /\ Goto(t, from, to)
  /\ held' = held \ {thing}
  /\ UNCHANGED <<owner, pending, outside, incoming, late, outgoing>>

Unwatch(t) == Drop(t, "unwatch", "watched", "disarm")
Disarm(t) == Drop(t, "disarm", "timer", "shut")
Shut(t) == Drop(t, "shut", "listen", "unregister")

(* Whether the library keeps the signals of a thread that unregisters is    *)
(* not known here.                                                          *)
Unregister(t) ==
  /\ Goto(t, "unregister", "none")
  /\ owner' = NoTask
  /\ pending' \in {pending, {}}
  /\ UNCHANGED <<held, outside, incoming, late, outgoing>>

-----------------------------------------------------------------------------
(* http_server_accept_and_handle_conn. *)

TryLock(t) ==
  /\ \/ gate /\ gateOwner = NoTask /\ gateOwner' = t /\ Goto(t, "accept", "accepting")
     \/ gate /\ gateOwner # NoTask /\ gateOwner' = gateOwner /\ Goto(t, "accept", "signals")
     \/ ~gate /\ gateOwner' = gateOwner /\ Goto(t, "accept", "accepting")
  /\ UNCHANGED <<owner, pending, held, gate, incoming, late, outgoing>>

(* netconn_accept times out or fails, or the connection is of no use.       *)
AcceptNothing(t) ==
  /\ Goto(t, "accepting", "unlock")
  /\ UNCHANGED <<owner, pending, held, outside, incoming, late, outgoing>>

Accept(t) ==
  /\ Goto(t, "accepting", "serve")
  /\ held' = held \cup {"conn"}
  /\ UNCHANGED <<owner, pending, outside, incoming, late, outgoing>>

(* Mutated form: looks at the setting again to decide whether to unlock.    *)
UnlockIfSet(t) ==
  /\ Goto(t, "unlock", "signals")
  /\ gateOwner' = IF gate /\ gateOwner = t THEN NoTask ELSE gateOwner
  /\ UNCHANGED <<owner, pending, held, gate, incoming, late, outgoing>>

Unlock(t) ==
  /\ Goto(t, "unlock", "signals")
  /\ gateOwner' = IF gateOwner = t THEN NoTask ELSE gateOwner
  /\ UNCHANGED <<owner, pending, held, gate, incoming, late, outgoing>>

-----------------------------------------------------------------------------
(* http_server_netconn_serve: the request is received. *)

ConnectionIsGone(t) ==
  /\ Goto(t, "serve", "close")
  /\ UNCHANGED <<owner, pending, held, outside, incoming, late, outgoing>>

Serve(t) ==
  /\ Goto(t, "serve", "recv")
  /\ req' \in Requests
  /\ ctx' = NewContext /\ late' = FALSE
  /\ UNCHANGED <<owner, pending, held, outside, frags, outgoing>>

(* The timeout for the request, or for its content, is over, or             *)
(* netconn_recv gives an error, a timeout of its own included.              *)
GiveUpReceiving(t) ==
  /\ Goto(t, "recv", "received")
  /\ UNCHANGED <<owner, pending, held, outside, incoming, late, outgoing>>

Receive(t) ==
  /\ ~late
  /\ Goto(t, "recv", "frame")
  /\ held' = held \cup {"netbuf"}
  /\ frags' \in 1 .. MaxFragments
  /\ UNCHANGED <<owner, pending, outside, req, ctx, late, outgoing>>

(* One fragment of the netbuf. The others follow even when the request is   *)
(* ready; the netbuf is deleted after the last one or a failure.            *)
Frame(t) ==
  \E n \in Fragments, grow, fit \in BOOLEAN :
    LET step == HandleReceivedBuf(ctx, n, req, grow, fit)
        more == step.ok /\ frags > 1
    IN  /\ Goto(t, "frame", IF more THEN "frame"
                            ELSE IF step.ok /\ ~step.ctx.ready THEN "recv" ELSE "received")
        /\ ctx' = step.ctx
        /\ frags' = IF more THEN frags - 1 ELSE 0
        /\ held' = IF more THEN held ELSE held \ {"netbuf"}
        /\ UNCHANGED <<owner, pending, outside, req, late, outgoing>>

(* netbuf_data gives an error.                                              *)
FrameIsBad(t) ==
  /\ Goto(t, "frame", "received")
  /\ held' = held \ {"netbuf"} /\ frags' = 0
  /\ UNCHANGED <<owner, pending, outside, req, ctx, late, outgoing>>

(* Once the request is handed on or given up only its buffer matters.       *)
ForgetRequest == ctx' = [NewContext EXCEPT !.buf = ctx.buf] /\ req' = NoRequest

Incomplete(t) ==
  /\ ~ctx.ready
  /\ Goto(t, "received", "close")
  /\ ForgetRequest
  /\ UNCHANGED <<owner, pending, held, outside, frags, late, outgoing>>

-----------------------------------------------------------------------------
(* http_server_netconn_serve_handle_req. *)

(* Undefined: a later fragment of the netbuf that completed the request     *)
(* found no memory to grow the buffer, and http_req_parse gets NULL.        *)
ParseNull(t) ==
  /\ ctx.ready /\ ~ctx.buf
  /\ Goto(t, "received", "crashed")
  /\ UNCHANGED <<owner, pending, held, outside, incoming, late, outgoing>>

Readable == ctx.ready /\ ctx.buf /\ ForgetRequest

Answer(t, from, with, r) ==
  /\ Goto(t, from, IF IsRefusal(r) THEN "penalty" ELSE "header")
  /\ held' = held \cup with \cup (IF Owns(r) THEN {"content"} ELSE {})
  /\ reply' = r
  /\ UNCHANGED <<owner, pending, outside, frags, late, left>>

(* The request cannot be parsed, or there is no memory for the host name.   *)
AnswerAtOnce(t) ==
  Readable /\ \E code \in {400, 500} : Answer(t, "received", {}, RespErr(code))

(* From the LAN while the access point is active: 503. To the access point, *)
(* for another host: 302, the captive portal.                               *)
TurnAway(t) ==
  Readable /\ \E code \in {302, 503} : Answer(t, "received", {"hostname"}, RespErr(code))

(* http_server_handle_req is called. It may wait: GET /ap.json for the      *)
(* results of a scan, an order for room in the queue of the manager, the    *)
(* rest for what the application does, all of them without a limit.         *)
HandleReq(t) ==
  /\ Readable
  /\ Goto(t, "received", "handle")
  /\ held' = held \cup {"hostname"}
  /\ UNCHANGED <<owner, pending, outside, frags, late, outgoing>>

(* It returns, if ever.                                                     *)
HandlerReturns(t) ==
  /\ \E r \in Replies : Answer(t, "handle", {}, r)
  /\ UNCHANGED <<req, ctx>>

(* A second of delay after 401 and 403.                                     *)
Penalty(t) ==
  /\ Goto(t, "penalty", "header")
  /\ UNCHANGED <<owner, pending, held, outside, incoming, late, outgoing>>

-----------------------------------------------------------------------------
(* http_server_netconn_resp. *)

(* The header is sent, or not: the content follows anyway.                  *)
AfterHeader(t, from) ==
  /\ Goto(t, from, IF SendsContent(reply) THEN "body" ELSE "release")
  /\ held' = held \ {"line"}
  /\ left' \in IF ~SendsContent(reply) THEN {0}
               ELSE IF reply.place \in {"fatfs", "generator"} THEN 0 .. MaxChunks ELSE {1}
  /\ UNCHANGED <<owner, pending, outside, incoming, late, reply>>

NoLine(t) == AfterHeader(t, "header")

SendLine(t) ==
  /\ Goto(t, "header", "write")
  /\ held' = held \cup {"line"}
  /\ late' = FALSE
  /\ UNCHANGED <<owner, pending, outside, incoming, outgoing>>

(* The next chunk of the content. A file is sent from a buffer of its own.  *)
SendChunk(t) ==
  /\ left > 0
  /\ Goto(t, "body", "write")
  /\ held' = IF reply.place = "fatfs" THEN held \cup {"chunk"} ELSE held
  /\ late' = FALSE
  /\ UNCHANGED <<owner, pending, outside, incoming, outgoing>>

(* There is no more; or, of a file or a generator, no memory, a short read, *)
(* or an error.                                                             *)
NoChunk(t) ==
  /\ left = 0 \/ reply.place \in {"fatfs", "generator"}
  /\ Goto(t, "body", "release")
  /\ held' = held \ {"chunk"} /\ left' = 0
  /\ UNCHANGED <<owner, pending, outside, incoming, late, reply>>

AfterChunk(t, ok) ==
  /\ Goto(t, "write", "body")
  /\ left' = IF ok THEN left - 1 ELSE 0
  /\ UNCHANGED <<owner, pending, held, outside, incoming, late, reply>>

AfterWrite(t, ok) ==
  IF "line" \in held THEN AfterHeader(t, "write") ELSE AfterChunk(t, ok)

(* netconn_write_partly in http_server_netconn_write: an error, everything, *)
(* or a part; the time is looked at after each call.                        *)
WriteFails(t) == AfterWrite(t, FALSE)
WriteDone(t) == AfterWrite(t, ~late)

(* Mutated form: waits for the peer without a limit.                        *)
WriteSomeAlways(t) ==
  /\ Goto(t, "write", "delay")
  /\ UNCHANGED <<owner, pending, held, outside, incoming, late, outgoing>>

WriteSome(t) ==
  /\ ~late
  /\ Goto(t, "write", "delay")
  /\ UNCHANGED <<owner, pending, held, outside, incoming, late, outgoing>>

WriteAgain(t) ==
  /\ Goto(t, "delay", "write")
  /\ UNCHANGED <<owner, pending, held, outside, incoming, late, outgoing>>

(* The content and the host name are given back.                            *)
Release(t) ==
  /\ Goto(t, "release", "close")
  /\ held' = held \ {"content", "hostname"}
  /\ reply' = NoReply
  /\ UNCHANGED <<owner, pending, outside, incoming, late, left>>

(* The request buffer is freed, the connection is closed and deleted.       *)
Close(t) ==
  /\ Goto(t, "close", "unlock")
  /\ ctx' = NewContext
  /\ held' = held \ {"conn"}
  /\ UNCHANGED <<owner, pending, outside, req, frags, late, outgoing>>

(* The timeout of http_server_netconn_serve, or of the write, runs out.     *)
TimePasses ==
  /\ ~late
  /\ \E t \in Tasks : pc[t] \in {"recv", "frame", "write", "delay"}
  /\ late' = TRUE
  /\ UNCHANGED <<pc, owner, pending, held, outside, incoming, outgoing>>

-----------------------------------------------------------------------------
Others == Start \/ Stop \/ UserReq \/ UseMutex \/ AppLocks

Connection(t) ==
  \/ TryLock(t) \/ AcceptNothing(t) \/ Accept(t) \/ Unlock(t)
  \/ ConnectionIsGone(t) \/ Serve(t) \/ GiveUpReceiving(t) \/ Receive(t)
  \/ Frame(t) \/ FrameIsBad(t) \/ Incomplete(t) \/ Close(t)

Respond(t) ==
  \/ ParseNull(t) \/ AnswerAtOnce(t) \/ TurnAway(t) \/ HandleReq(t) \/ Penalty(t)
  \/ NoLine(t) \/ SendLine(t) \/ SendChunk(t) \/ NoChunk(t)
  \/ WriteFails(t) \/ WriteDone(t) \/ WriteSome(t) \/ WriteAgain(t) \/ Release(t)

Run(t) ==
  \/ Register(t) \/ Open(t) \/ Listen(t) \/ Arm(t) \/ TakeSignals(t)
  \/ Unwatch(t) \/ Disarm(t) \/ Shut(t) \/ Unregister(t)
  \/ Connection(t) \/ Respond(t)

Next ==
  /\ \A t \in Tasks : pc[t] # "crashed"
  /\ Others \/ TimePasses \/ \E t \in Tasks : Run(t) \/ HandlerReturns(t)

Spec == Init /\ [][Next]_vars

(* Threads run and time passes; nobody else has to do anything, and the     *)
(* handler of a request need not return.                                    *)
FairSpec == Spec /\ WF_vars(TimePasses) /\ \A t \in Tasks : WF_vars(Run(t))

-----------------------------------------------------------------------------
(* Between two connections the server holds its own things only: no request *)
(* buffer, netbuf, host name, content of a reply, buffer to send from,      *)
(* connection, nor the mutex of the application, whatever failed on the way *)
(* and whoever set or unset that mutex meanwhile; and once it has           *)
(* unregistered (http_server.c:412-422) it holds nothing.                   *)
EverythingReleased ==
  /\ \A t \in Tasks : pc[t] = "signals" =>
       held = Server /\ ~ctx.buf /\ gateOwner # t
  /\ owner = NoTask => held = {} /\ ~ctx.buf /\ gateOwner \notin Tasks

(* The bytes the buffer is said to hold are inside what was allocated, with *)
(* the header within them, and "req_buf_size" is that allocation and never  *)
(* above the limits the code names (http_server_accept_and_handle_conn.c    *)
(* :67-200); a request with a length is handed on with its whole body.      *)
RequestFitsBuffer ==
  ctx.buf =>
    /\ ctx.header <= ctx.accum /\ ctx.accum <= ctx.size /\ ctx.size = ctx.room
    /\ ctx.size <= MaxRequest + MaxContent
    /\ ctx.ready => ctx.accum >= ctx.header + ctx.content

(* A server that is told to stop while it serves does stop, or stays for    *)
(* ever in the handler of one request: GET /ap.json waits for a scan without *)
(* a limit (http_server_handle_req.c:177), and orders wait for room in the  *)
(* queue of the manager. Nothing else keeps it: no peer, full window or     *)
(* held mutex (http_server.c:396-423), and no row of requests, each of      *)
(* which is handled in time. A crash is the reset of the device.            *)
StopEndsServer ==
  \A t \in Tasks :
    (owner = t /\ "STOP" \in pending /\ pc[t] \in Looping)
      ~> (owner # t \/ pc[t] = "crashed" \/ [](pc[t] = "handle"))

=============================================================================
