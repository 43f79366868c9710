--------------------------- MODULE HttpRecv_proofs ---------------------------
(***************************************************************************)
(* How a request is collected, for every limit of its size, every length   *)
(* of header, content and fragment, and every failure of the allocator.    *)
(***************************************************************************)
EXTENDS HttpRecv, TLAPS

(* Whatever lengths a request declares, if any. *)
Request == [header : Nat \ {0}, length : {NoLength} \cup Nat]

(* What the buffer holds is inside it; a request that is ready is there    *)
(* with its whole content. It is what RequestFitsBuffer says of ctx.       *)
Fits(c) ==
  c.buf =>
    /\ c.header <= c.accum /\ c.accum <= c.size /\ c.size = c.room
    /\ c.size <= MaxRequest + MaxContent
    /\ c.ready => c.accum >= c.header + c.content

(* A buffer that more may come into: nothing is in it before it exists, and *)
(* it only grows beyond the limit of a header once the content is known.    *)
BufferOK(c) ==
  /\ ~c.buf => c.accum = 0 /\ ~c.completed
  /\ c.buf => c.accum <= c.size /\ c.size = c.room /\ c.size <= MaxRequest + MaxContent
  /\ c.buf /\ c.content = 0 => c.size <= MaxRequest

(* What is known of the request so far, and that Content-Length is looked  *)
(* for again only while it is not known or zero.                           *)
KnownOK(c, req) ==
  /\ ~c.completed => c.header = 0 /\ c.content = 0 /\ ~c.ready
  /\ c.completed => c.header = req.header /\ c.header <= c.accum
  /\ c.content # 0 =>
       c.content = req.length /\ c.content <= MaxContent /\ c.expected = c.header + c.content
  /\ c.ready =>
       /\ c.accum >= c.header + c.content
       /\ c.content = 0 => req.length \in {NoLength, 0}

Going(c, req) == c \in Contexts /\ BufferOK(c) /\ KnownOK(c, req)

-----------------------------------------------------------------------------
(* The fields of a context are naturals and flags. *)
LEMMA ContextFields ==
  ASSUME NEW c \in Contexts
  PROVE  /\ c.buf \in BOOLEAN /\ c.completed \in BOOLEAN /\ c.ready \in BOOLEAN
         /\ c.room \in Nat /\ c.size \in Nat /\ c.accum \in Nat
         /\ c.header \in Nat /\ c.content \in Nat /\ c.expected \in Nat
BY DEF Contexts

LEMMA NewContextGoes ==
  ASSUME NEW req \in Request
  PROVE  Going(NewContext, req)
BY DEF Going, BufferOK, KnownOK, NewContext, Contexts

LEMMA GoingFits ==
  ASSUME NEW req \in Request, NEW c, Going(c, req)
  PROVE  Fits(c)
<1>1. c.accum \in Nat /\ c.header \in Nat /\ c.completed \in BOOLEAN
  BY ContextFields DEF Going
<1> QED
  BY <1>1 DEF Going, BufferOK, KnownOK, Fits

LEMMA StepFields ==
  ASSUME NEW c
  PROVE  /\ Goes(c).ok = TRUE /\ Goes(c).ctx = c
         /\ Fails(c).ok = FALSE /\ Fails(c).ctx = c
BY DEF Goes, Fails

(* A reallocation to a size that still holds what is in the buffer; when   *)
(* it fails there is no buffer.                                            *)
LEMMA ResizeFacts ==
  ASSUME NEW req \in Request, NEW c \in Contexts, c.buf, KnownOK(c, req),
         NEW size \in Nat, c.accum <= size, size <= MaxRequest + MaxContent,
         c.content = 0 => size <= MaxRequest,
         NEW mem \in BOOLEAN
  PROVE  /\ Resize(c, size, mem).ctx \in Contexts
         /\ Fits(Resize(c, size, mem).ctx)
         /\ Resize(c, size, mem).ok =>
              /\ Going(Resize(c, size, mem).ctx, req)
              /\ Resize(c, size, mem).ctx.buf
              /\ Resize(c, size, mem).ctx.size = size
<1>1. CASE mem
  <2> DEFINE d == [c EXCEPT !.size = size, !.room = size]
  <2>1. Resize(c, size, mem) = Goes(d)
    BY <1>1 DEF Resize
  <2>2. /\ d \in Contexts /\ d.buf
        /\ d.size = size /\ d.room = size /\ d.accum = c.accum
        /\ d.header = c.header /\ d.content = c.content /\ d.expected = c.expected
        /\ d.completed = c.completed /\ d.ready = c.ready
    BY DEF Contexts
  <2> HIDE DEF d
  <2>3. KnownOK(d, req)
    BY <2>2 DEF KnownOK
  <2>4. BufferOK(d)
    BY <2>2 DEF BufferOK
  <2>5. Going(d, req)
    BY <2>2, <2>3, <2>4 DEF Going
  <2> QED
    BY <2>1, <2>2, <2>5, StepFields, GoingFits
<1>2. CASE ~mem
  <2> DEFINE d == [c EXCEPT !.buf = FALSE]
  <2>1. Resize(c, size, mem) = Fails(d)
    BY <1>2 DEF Resize
  <2>2. d \in Contexts /\ ~d.buf
    BY DEF Contexts
  <2> HIDE DEF d
  <2> QED
    BY <2>1, <2>2, StepFields DEF Fits
<1> QED
  BY <1>1, <1>2

(* The first allocation, and the growth, leave room for the fragment or    *)
(* end the request; what is in the buffer stays there.                     *)
LEMMA AllocFacts ==
  ASSUME NEW req \in Request, NEW c, Going(c, req),
         NEW n \in Nat \ {0}, NEW mem \in BOOLEAN
  PROVE  /\ Alloc(c, n, mem).ctx \in Contexts
         /\ Fits(Alloc(c, n, mem).ctx)
         /\ Alloc(c, n, mem).ok => Going(Alloc(c, n, mem).ctx, req) /\ Alloc(c, n, mem).ctx.buf
<1>0. c \in Contexts /\ n \in Nat /\ MaxRequest \in Nat /\ MaxContent \in Nat
  BY SizesAssumption DEF Going
<1>1. CASE Alloc(c, n, mem) = Goes(c) /\ c.buf
  BY <1>0, <1>1, GoingFits, StepFields
<1>2. CASE Alloc(c, n, mem) = Fails(c)
  BY <1>0, <1>2, GoingFits, StepFields
<1>3. CASE /\ c.buf /\ c.size = c.accum /\ ~(c.size + n > MaxRequest)
           /\ Alloc(c, n, mem) = Resize(c, c.size + n, mem)
  <2>1. /\ c.size + n \in Nat /\ c.accum <= c.size + n
        /\ c.size + n <= MaxRequest + MaxContent /\ c.size + n <= MaxRequest
    BY <1>0, <1>3, ContextFields
  <2>2. KnownOK(c, req)
    BY DEF Going
  <2>3. /\ Resize(c, c.size + n, mem).ctx \in Contexts
        /\ Fits(Resize(c, c.size + n, mem).ctx)
        /\ Resize(c, c.size + n, mem).ok =>
             Going(Resize(c, c.size + n, mem).ctx, req) /\ Resize(c, c.size + n, mem).ctx.buf
    BY <1>0, <1>3, <2>1, <2>2, ResizeFacts
  <2> QED
    BY <1>3, <2>3
<1>4. CASE /\ ~c.buf /\ n <= MaxRequest
           /\ Alloc(c, n, mem)
                = Goes([c EXCEPT !.buf = TRUE, !.size = n, !.room = n, !.completed = FALSE])
  <2> DEFINE d == [c EXCEPT !.buf = TRUE, !.size = n, !.room = n, !.completed = FALSE]
  <2>1. /\ d \in Contexts /\ d.buf
        /\ d.size = n /\ d.room = n /\ d.accum = c.accum
        /\ d.header = c.header /\ d.content = c.content
        /\ d.completed = FALSE /\ d.ready = c.ready
    BY <1>0 DEF Contexts
  <2>2. Alloc(c, n, mem) = Goes(d)
    BY <1>4
  <2> HIDE DEF d
  <2>3. c.accum = 0 /\ ~c.completed
    BY <1>4 DEF Going, BufferOK
  <2>4. KnownOK(d, req)
    BY <2>1, <2>3 DEF Going, KnownOK
  <2>5. BufferOK(d)
    BY <1>0, <1>4, <2>1, <2>3 DEF BufferOK
  <2>6. Going(d, req)
    BY <2>1, <2>4, <2>5 DEF Going
  <2> QED
    BY <2>1, <2>2, <2>6, GoingFits, StepFields
<1>5. \/ Alloc(c, n, mem) = Goes(c) /\ c.buf
      \/ Alloc(c, n, mem) = Fails(c)
      \/ /\ c.buf /\ c.size = c.accum /\ ~(c.size + n > MaxRequest)
         /\ Alloc(c, n, mem) = Resize(c, c.size + n, mem)
      \/ /\ ~c.buf /\ n <= MaxRequest
         /\ Alloc(c, n, mem)
              = Goes([c EXCEPT !.buf = TRUE, !.size = n, !.room = n, !.completed = FALSE])
  BY Zenon DEF Alloc, AllocFirst, AllocNext
<1> QED
  BY <1>1, <1>2, <1>3, <1>4, <1>5

(* The fragment is copied only where there is room for it. *)
LEMMA CopyFacts ==
  ASSUME NEW req \in Request, NEW c, Going(c, req), c.buf, NEW n \in Nat \ {0}
  PROVE  /\ Copy(c, n).ctx \in Contexts
         /\ Fits(Copy(c, n).ctx)
         /\ Copy(c, n).ok => Going(Copy(c, n).ctx, req) /\ Copy(c, n).ctx.buf
<1>0. c \in Contexts /\ n \in Nat /\ c.accum \in Nat /\ c.size \in Nat
  BY SizesAssumption, ContextFields DEF Going
<1>1. CASE c.accum + n > c.size
  BY <1>0, <1>1, GoingFits, StepFields DEF Copy
<1>2. CASE ~(c.accum + n > c.size)
  <2> DEFINE sum == c.accum + n
             d == [c EXCEPT !.accum = sum]
  <2>1. sum \in Nat /\ c.accum <= sum /\ sum <= c.size
    BY <1>0, <1>2
  <2>2. Copy(c, n) = Goes(d)
    BY <1>2 DEF Copy
  <2> HIDE DEF sum
  <2>3. /\ d \in Contexts /\ d.buf
        /\ d.size = c.size /\ d.room = c.room /\ d.accum = sum
        /\ d.header = c.header /\ d.content = c.content /\ d.expected = c.expected
        /\ d.completed = c.completed /\ d.ready = c.ready
    BY <1>0, <2>1 DEF Contexts
  <2> HIDE DEF d
  <2>4. KnownOK(d, req)
    BY <1>0, <2>1, <2>3, ContextFields DEF Going, KnownOK
  <2>5. BufferOK(d)
    BY <1>0, <2>1, <2>3, ContextFields DEF Going, BufferOK
  <2>6. Going(d, req)
    BY <2>3, <2>4, <2>5 DEF Going
  <2> QED
    BY <2>2, <2>3, <2>6, GoingFits, StepFields
<1> QED
  BY <1>1, <1>2

(* Content-Length is known: the buffer is cut and fitted to the request.   *)
LEMMA FitFacts ==
  ASSUME NEW req \in Request, NEW c, Going(c, req), c.buf, c.completed, c.content = 0,
         req.length # NoLength, NEW mem \in BOOLEAN
  PROVE  LET fit == FitToLength(c, req.length, mem)
         IN  /\ fit.ctx \in Contexts
             /\ Fits(fit.ctx)
             /\ fit.ok => /\ Going(fit.ctx, req) /\ fit.ctx.buf
                          /\ fit.ctx.completed
                          /\ fit.ctx.expected = fit.ctx.header + fit.ctx.content
                          /\ fit.ctx.content = req.length
<1> DEFINE length == req.length
           expected == c.header + length
           accum == IF c.accum > expected THEN expected ELSE c.accum
           cut == [c EXCEPT !.content = length, !.expected = expected, !.accum = accum]
           fit == FitToLength(c, length, mem)
<1>0. /\ c \in Contexts /\ length \in Nat /\ MaxContent \in Nat /\ MaxRequest \in Nat
      /\ c.header = req.header /\ c.header \in Nat /\ c.header <= MaxRequest
      /\ c.header <= c.accum /\ c.accum \in Nat /\ c.size \in Nat
  <2>1. c.size <= MaxRequest /\ c.accum <= c.size
    BY DEF Going, BufferOK
  <2> QED
    BY <2>1, SizesAssumption, ContextFields DEF Going, KnownOK, Request
<1>1. expected \in Nat /\ accum \in Nat /\ c.header <= accum /\ accum <= expected /\ accum <= c.accum
  BY <1>0
<1>2. CASE length > MaxContent
  <2> DEFINE d == [c EXCEPT !.content = length]
  <2>1. fit = Fails(d)
    BY <1>2 DEF FitToLength
  <2>2. /\ d \in Contexts /\ d.buf = c.buf
        /\ d.size = c.size /\ d.room = c.room /\ d.accum = c.accum
        /\ d.header = c.header /\ d.ready = c.ready
    BY <1>0 DEF Contexts
  <2>3. ~c.ready
    BY <1>0, <1>2 DEF Going, KnownOK
  <2> HIDE DEF d, fit
  <2>4. Fits(d)
    BY <1>0, <2>2, <2>3 DEF Fits, Going, BufferOK
  <2> QED
    BY <2>1, <2>2, <2>4, StepFields DEF fit
<1>3. CASE ~(length > MaxContent)
  <2> HIDE DEF expected, accum
  <2>1. /\ cut \in Contexts /\ cut.buf
        /\ cut.size = c.size /\ cut.room = c.room /\ cut.accum = accum
        /\ cut.header = c.header /\ cut.content = length /\ cut.expected = expected
        /\ cut.completed /\ cut.ready = c.ready
    BY <1>0, <1>1 DEF Contexts
  <2>2. expected <= MaxRequest + MaxContent /\ (length = 0 => expected <= MaxRequest)
    BY <1>0, <1>3 DEF expected
  <2>3. KnownOK(cut, req)
    <3>1. c.ready => length = 0
      BY <1>0 DEF Going, KnownOK
    <3>2. c.ready => accum >= c.header + length
      BY <1>0, <1>1, <3>1
    <3> HIDE DEF cut, length
    <3> QED
      BY <1>0, <1>1, <1>3, <2>1, <3>1, <3>2 DEF KnownOK, expected, length
  <2>4. fit = IF c.size = expected THEN Goes(cut) ELSE Resize(cut, expected, mem)
    BY <1>3, <1>1 DEF FitToLength, expected, accum
  <2> HIDE DEF cut, fit
  <2>5. BufferOK(cut)
    BY <1>0, <1>1, <2>1 DEF BufferOK, Going
  <2>6. Going(cut, req)
    BY <2>1, <2>3, <2>5 DEF Going
  <2>7. CASE c.size = expected
    BY <2>1, <2>4, <2>6, <2>7, StepFields, GoingFits DEF fit, expected, length
  <2>8. CASE c.size # expected
    <3>1. /\ fit.ctx \in Contexts /\ Fits(fit.ctx)
          /\ fit.ok => Going(fit.ctx, req) /\ fit.ctx.buf
      BY <1>1, <2>1, <2>2, <2>3, <2>4, <2>8, ResizeFacts
    <3>2. fit.ok => fit.ctx = [cut EXCEPT !.size = expected, !.room = expected]
      BY <2>4, <2>8, StepFields DEF Resize
    <3>3. fit.ok => /\ fit.ctx.completed /\ fit.ctx.header = c.header
                    /\ fit.ctx.content = length /\ fit.ctx.expected = expected
      BY <2>1, <3>2 DEF Contexts
    <3> QED
      BY <3>1, <3>3 DEF fit, expected, length
  <2> QED
    BY <2>7, <2>8
<1> QED
  BY <1>2, <1>3

(* What came in is enough, once the header is complete. *)
LEMMA ReadyFacts ==
  ASSUME NEW req \in Request, NEW c, Going(c, req), c.completed,
         c.expected = c.header + c.content,
         c.content = 0 => req.length \in {NoLength, 0}
  PROVE  Going(Ready(c), req)
<1> DEFINE ready == c.ready \/ c.accum >= c.expected
           d == [c EXCEPT !.ready = ready]
<1>1. Ready(c) = d
  BY DEF Ready
<1>2. c \in Contexts /\ ready \in BOOLEAN
  BY ContextFields DEF Going
<1>3. ready => c.accum >= c.header + c.content
  BY DEF Going, KnownOK
<1> HIDE DEF ready
<1>4. /\ d \in Contexts /\ d.buf = c.buf
      /\ d.size = c.size /\ d.room = c.room /\ d.accum = c.accum
      /\ d.header = c.header /\ d.content = c.content /\ d.expected = c.expected
      /\ d.completed = c.completed /\ d.ready = ready
  BY <1>2 DEF Contexts
<1> HIDE DEF d
<1>5. KnownOK(d, req)
  BY <1>3, <1>4 DEF Going, KnownOK
<1>6. BufferOK(d)
  BY <1>4 DEF Going, BufferOK
<1> QED
  BY <1>1, <1>4, <1>5, <1>6 DEF Going

LEMMA ParseFacts ==
  ASSUME NEW req \in Request, NEW c, Going(c, req), c.buf, NEW mem \in BOOLEAN
  PROVE  LET step == Parse(c, req, mem)
         IN  /\ step.ctx \in Contexts
             /\ Fits(step.ctx)
             /\ step.ok => Going(step.ctx, req)
<1> DEFINE found == c.accum >= req.header
           seen == [c EXCEPT !.completed = c.completed \/ found,
                             !.header = IF found THEN req.header ELSE c.header]
           step == Parse(c, req, mem)
<1>0. /\ c \in Contexts /\ req.header \in Nat /\ c.header \in Nat /\ c.accum \in Nat
      /\ c.completed \in BOOLEAN /\ found \in BOOLEAN
  BY SizesAssumption, ContextFields DEF Going, Request
<1>1. c.completed => found /\ c.header = req.header
  BY DEF Going, KnownOK
<1>2. /\ seen \in Contexts /\ seen.buf
      /\ seen.size = c.size /\ seen.room = c.room /\ seen.accum = c.accum
      /\ seen.header = (IF found THEN req.header ELSE c.header)
      /\ seen.content = c.content /\ seen.expected = c.expected
      /\ seen.completed = (c.completed \/ found) /\ seen.ready = c.ready
  BY <1>0 DEF Contexts
<1>3. seen.completed <=> found
  BY <1>0, <1>1, <1>2
<1>4. Going(seen, req)
  <2>1. found => req.header <= c.accum
    BY <1>0
  <2>2. found => seen.header = req.header
    BY <1>2
  <2>3. ~found => seen.header = c.header /\ ~c.completed
    BY <1>0, <1>1, <1>2
  <2>4. c.content # 0 => c.completed /\ c.header = req.header
    BY DEF Going, KnownOK
  <2>5. c.ready => c.completed /\ c.header = req.header
    BY DEF Going, KnownOK
  <2> HIDE DEF found, seen
  <2>6. KnownOK(seen, req)
    BY <1>1, <1>2, <1>3, <2>1, <2>2, <2>3, <2>4, <2>5 DEF Going, KnownOK
  <2>7. BufferOK(seen)
    BY <1>2 DEF Going, BufferOK
  <2> QED
    BY <1>2, <2>6, <2>7 DEF Going
<1>5. step = IF ~seen.completed THEN Goes(seen)
             ELSE IF seen.content # 0 THEN Goes(Ready(seen))
             ELSE IF req.length = NoLength THEN Goes([seen EXCEPT !.ready = TRUE])
             ELSE LET fit == FitToLength(seen, req.length, mem)
                  IN  IF fit.ok THEN Goes(Ready(fit.ctx)) ELSE fit
  BY DEF Parse
<1> HIDE DEF seen, step, found
<1>6. CASE ~seen.completed
  BY <1>4, <1>5, <1>6, StepFields, GoingFits DEF step, Going
<1>7. CASE seen.completed /\ seen.content # 0
  <2>1. Going(Ready(seen), req)
    BY <1>4, <1>7, ReadyFacts DEF Going, KnownOK
  <2> QED
    BY <1>5, <1>7, <2>1, StepFields, GoingFits DEF step, Going
<1>8. CASE seen.completed /\ seen.content = 0 /\ req.length = NoLength
  <2> DEFINE d == [seen EXCEPT !.ready = TRUE]
  <2>1. /\ d \in Contexts /\ d.buf
        /\ d.size = seen.size /\ d.room = seen.room /\ d.accum = seen.accum
        /\ d.header = seen.header /\ d.content = 0 /\ d.completed /\ d.ready
    BY <1>2, <1>8 DEF Contexts
  <2>2. step = Goes(d)
    BY <1>5, <1>8
  <2>3. seen.header \in Nat /\ seen.accum \in Nat /\ seen.header <= seen.accum
    BY <1>2, <1>4, <1>8, ContextFields DEF Going, KnownOK
  <2> HIDE DEF d
  <2>4. KnownOK(d, req)
    BY <1>4, <1>8, <2>1, <2>3 DEF Going, KnownOK
  <2>5. BufferOK(d)
    BY <1>2, <1>4, <1>8, <2>1 DEF Going, BufferOK
  <2>6. Going(d, req)
    BY <2>1, <2>4, <2>5 DEF Going
  <2> QED
    BY <2>1, <2>2, <2>6, StepFields, GoingFits DEF step
<1>9. CASE seen.completed /\ seen.content = 0 /\ req.length # NoLength
  <2> DEFINE fit == FitToLength(seen, req.length, mem)
  <2>1. step = IF fit.ok THEN Goes(Ready(fit.ctx)) ELSE fit
    BY <1>5, <1>9
  <2>2. /\ fit.ctx \in Contexts /\ Fits(fit.ctx)
        /\ fit.ok => /\ Going(fit.ctx, req) /\ fit.ctx.completed
                     /\ fit.ctx.expected = fit.ctx.header + fit.ctx.content
                     /\ fit.ctx.content = req.length
    BY <1>2, <1>4, <1>9, FitFacts
  <2> HIDE DEF fit
  <2>3. CASE fit.ok
    <3>1. Going(Ready(fit.ctx), req)
      BY <2>2, <2>3, ReadyFacts
    <3> QED
      BY <2>1, <2>3, <3>1, StepFields, GoingFits DEF step, Going
  <2>4. CASE ~fit.ok
    BY <2>1, <2>2, <2>4 DEF step
  <2> QED
    BY <2>3, <2>4
<1> QED
  BY <1>6, <1>7, <1>8, <1>9

(* One fragment, whatever its length and whatever memory there is: what    *)
(* http_server_handle_received_buf leaves in the buffer is inside it, and  *)
(* while it succeeds the next fragment finds the same                      *)
(* (http_server_accept_and_handle_conn.c:67-200).                          *)
THEOREM FragmentFits ==
  ASSUME NEW req \in Request, NEW c, Going(c, req),
         NEW n \in Nat \ {0}, NEW grow \in BOOLEAN, NEW fit \in BOOLEAN
  PROVE  LET step == HandleReceivedBuf(c, n, req, grow, fit)
         IN  /\ step.ctx \in Contexts
             /\ Fits(step.ctx)
             /\ step.ok => Going(step.ctx, req)
<1> DEFINE room == Alloc(c, n, grow)
           put == IF room.ok THEN Copy(room.ctx, n) ELSE room
           step == HandleReceivedBuf(c, n, req, grow, fit)
<1>1. /\ room.ctx \in Contexts /\ Fits(room.ctx)
      /\ room.ok => Going(room.ctx, req) /\ room.ctx.buf
  BY AllocFacts
<1>2. step = IF put.ok THEN Parse(put.ctx, req, fit) ELSE put
  BY DEF HandleReceivedBuf
<1> HIDE DEF room, step
<1>3. /\ put.ctx \in Contexts /\ Fits(put.ctx)
      /\ put.ok => Going(put.ctx, req) /\ put.ctx.buf
  <2>1. CASE room.ok
    BY <1>1, <2>1, CopyFacts
  <2>2. CASE ~room.ok
    BY <1>1, <2>2
  <2> QED
    BY <2>1, <2>2
<1> HIDE DEF put
<1>4. CASE put.ok
  BY <1>2, <1>3, <1>4, ParseFacts DEF step
<1>5. CASE ~put.ok
  BY <1>2, <1>3, <1>5 DEF step
<1> QED
  BY <1>4, <1>5
=============================================================================
