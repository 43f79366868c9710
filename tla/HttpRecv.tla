------------------------------ MODULE HttpRecv ------------------------------
(***************************************************************************)
(* How http_server_handle_received_buf collects a request: the fragments   *)
(* of the connection are appended to one buffer that is allocated for the  *)
(* first fragment, grown while the header is not complete, and fitted to   *)
(* header and body when Content-Length is known. Only lengths count here:  *)
(* a request is the length of its header and what Content-Length says. A   *)
(* step yields whether the connection goes on, and the context after it.   *)
(* "room" is what the allocator was last asked for, which the code relies  *)
(* on and does not keep.                                                   *)
(***************************************************************************)
EXTENDS Naturals

CONSTANTS
  MaxRequest,   (* HTTP_SERVER_MAX_REQUEST_SIZE                            *)
  MaxContent,   (* HTTP_SERVER_MAX_ENCRYPTED_CONTENT_SIZE                  *)
  NoLength      (* the header has no Content-Length                        *)

ASSUME SizesAssumption == MaxRequest \in Nat \ {0} /\ MaxContent \in Nat
ASSUME NoLengthAssumption == NoLength \notin Nat

Contexts == [buf : BOOLEAN, room : Nat, size : Nat, accum : Nat, header : Nat,
             content : Nat, expected : Nat, completed : BOOLEAN, ready : BOOLEAN]

NewContext ==
  [buf |-> FALSE, room |-> 0, size |-> 0, accum |-> 0, header |-> 0,
   content |-> 0, expected |-> 0, completed |-> FALSE, ready |-> FALSE]

Goes(ctx) == [ok |-> TRUE, ctx |-> ctx]
Fails(ctx) == [ok |-> FALSE, ctx |-> ctx]

(* os_realloc_safe_and_clean frees the buffer when there is no memory.      *)
Resize(ctx, size, mem) ==
  IF mem THEN Goes([ctx EXCEPT !.size = size, !.room = size])
         ELSE Fails([ctx EXCEPT !.buf = FALSE])

AllocFirst(ctx, n, mem) ==
  IF n <= MaxRequest /\ mem
  THEN Goes([ctx EXCEPT !.buf = TRUE, !.size = n, !.room = n, !.completed = FALSE])
  ELSE Fails(ctx)

AllocNext(ctx, n, mem) ==
  IF ctx.size # ctx.accum THEN Goes(ctx)
  ELSE IF ctx.size + n > MaxRequest THEN Fails(ctx)
  ELSE Resize(ctx, ctx.size + n, mem)

Alloc(ctx, n, mem) ==
  IF ctx.buf THEN AllocNext(ctx, n, mem) ELSE AllocFirst(ctx, n, mem)

(* Mutated form: the fragment is appended whatever room there is.           *)
CopyAnyway(ctx, n) == Goes([ctx EXCEPT !.accum = @ + n])

Copy(ctx, n) ==
  IF ctx.accum + n > ctx.size THEN Fails(ctx)
  ELSE Goes([ctx EXCEPT !.accum = @ + n])

(* Content-Length has been found in the header: what came beyond it is      *)
(* discarded, and the buffer is fitted to the request.                      *)
FitToLength(ctx, length, mem) ==
  LET expected == ctx.header + length
      cut == [ctx EXCEPT !.content = length, !.expected = expected,
                         !.accum = IF @ > expected THEN expected ELSE @]
  IN  IF length > MaxContent THEN Fails([ctx EXCEPT !.content = length])
      ELSE IF ctx.size = expected THEN Goes(cut)
      ELSE Resize(cut, expected, mem)

Ready(ctx) == [ctx EXCEPT !.ready = @ \/ ctx.accum >= ctx.expected]

(* The header is looked for, then Content-Length, which is looked for again *)
(* with every fragment as long as it is not found or zero.                  *)
Parse(ctx, req, mem) ==
  LET seen == [ctx EXCEPT !.completed = @ \/ ctx.accum >= req.header,
                          !.header = IF ctx.accum >= req.header THEN req.header ELSE @]
  IN  IF ~seen.completed THEN Goes(seen)
      ELSE IF seen.content # 0 THEN Goes(Ready(seen))
      ELSE IF req.length = NoLength THEN Goes([seen EXCEPT !.ready = TRUE])
      ELSE LET fit == FitToLength(seen, req.length, mem)
           IN  IF fit.ok THEN Goes(Ready(fit.ctx)) ELSE fit

(* http_server_handle_received_buf; "grow" and "fit" say whether there is   *)
(* memory for the two allocations.                                          *)
HandleReceivedBuf(ctx, n, req, grow, fit) ==
  LET room == Alloc(ctx, n, grow)
      put  == IF room.ok THEN Copy(room.ctx, n) ELSE room
  IN  IF put.ok THEN Parse(put.ctx, req, fit) ELSE put

=============================================================================
