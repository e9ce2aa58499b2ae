------------------------------- MODULE H2Body -------------------------------
(***************************************************************************)
(* The bytes of an HTTP/2 connection: response bodies through the pipe of  *)
(* each stream, and the flow-control windows of both directions            *)
(* (internal/http2: flow.go, pipe.go, and the parts of transport.go that   *)
(* move data).  H2Conn models the life of the streams and leaves the       *)
(* bytes out; here the bytes are explicit and the life of a stream is      *)
(* reduced to: opened, aborted, pipe closed, forgotten.                    *)
(*                                                                         *)
(* The bytes of a response are numbered 1, 2, ... so that a lost, repeated *)
(* or reordered byte shows.  The server is external: it sends what the     *)
(* windows it was told allow, and may reset a stream at any moment.        *)
(***************************************************************************)
EXTENDS Integers, Sequences, FiniteSetsExt

CONSTANTS
    Streams,        \* streams of the connection
    ConnWindow,     \* transportDefaultConnFlow plus the initial 65535
    StreamWindow,   \* transportDefaultStreamFlow
    MinRefresh,     \* inflowMinRefresh
    MaxWindow,      \* math.MaxInt32, also the largest int32
    MaxFrameSize,   \* cc.maxFrameSize
    Situations,     \* the situations considered: see SituationType
    MaxInFlight     \* bound: frames of the server in flight

\* What the server answers and what happens meanwhile.
SituationType ==
    [streams : SUBSET Streams,
     total : Nat,                   \* bytes of each response body
     clen : Int,                    \* its Content-Length, -1 for none
     pad : Nat,                     \* padding of each DATA frame
     trailers : BOOLEAN,
     head : BOOLEAN,                \* the requests are HEAD requests
     reads : SUBSET Nat,            \* sizes of the caller's Read buffer
     closes : Nat,                  \* calls of Body.Close per response
     upload : Nat,                  \* bytes of each request body
     increments : SUBSET Nat,       \* of the server's WINDOW_UPDATE frames
     initials : SUBSET Nat,         \* values of SETTINGS_INITIAL_WINDOW_SIZE
     updates : Nat,                 \* bound: such frames the server sends
     events : SUBSET {"cancel", "reset", "lost"}]

VARIABLES
    sit,      \* the situation, which never changes
    wire,     \* frames from the server, in order
    peer,     \* the server: its windows and how far each response is
    credit,   \* window updates the server has not seen yet
    ccf,      \* cc.inflow, cc.flow, cc.initialWindowSize, and the read loop
    csf,      \* the fields of each clientStream
    pipe,     \* cs.bufPipe of each stream
    body,     \* the caller: where it is in a Read or Close
    got       \* the bytes and the final error the caller saw

vars == <<sit, wire, peer, credit, ccf, csf, pipe, body, got>>

-----------------------------------------------------------------------------
(* flow.go                                                                 *)

\* Mutant: an update is held back until it reaches inflowMinRefresh.
inflowAdd_lazy(f, n) ==
    IF f.unsent + n < MinRefresh
    THEN [f EXCEPT !.unsent = @ + n]
    ELSE [avail |-> f.avail + f.unsent + n, unsent |-> 0]

\* inflow.add: the window after n bytes came free; what its avail grew by is
\* sent to the peer.
inflowAdd(f, n) ==
    IF f.unsent + n < MinRefresh /\ f.unsent + n < f.avail
    THEN [f EXCEPT !.unsent = @ + n]
    ELSE [avail |-> f.avail + f.unsent + n, unsent |-> 0]

Sent(f, n) == inflowAdd(f, n).avail - f.avail

take(f, n) == [f EXCEPT !.avail = @ - n]

\* int32 arithmetic.
Wrap(x) == ((x + MaxWindow + 1) % (2 * MaxWindow + 2)) - (MaxWindow + 1)

\* outflow.add's test that the sum is an int32.
outflowFits(f, n) == (Wrap(f + n) > n) = (f > 0)

\* Mutant: the window of the connection is not looked at.
available_stream(s) == csf[s].flow

available(s) == IF ccf.flow < csf[s].flow THEN ccf.flow ELSE csf[s].flow

-----------------------------------------------------------------------------
(* pipe.go                                                                 *)

NewPipe == [b |-> FALSE, buf |-> <<>>, unread |-> 0, err |-> "nil", breakErr |-> "nil",
            readFn |-> FALSE]

setBuffer(p) == [p EXCEPT !.b = p.err = "nil" /\ p.breakErr = "nil"]

Len_(p) == IF p.b THEN Len(p.buf) ELSE p.unread

writable(p) == p.err = "nil" /\ p.breakErr = "nil" /\ p.b

\* CloseWithError and closeWithErrorAndCode; fn says whether there is code.
CloseWithError(p, e, fn) ==
    IF p.err # "nil" THEN p ELSE [p EXCEPT !.err = e, !.readFn = fn]

BreakWithError(p, e) ==
    IF p.breakErr # "nil" THEN p
    ELSE [p EXCEPT !.breakErr = e, !.readFn = FALSE, !.b = FALSE, !.buf = <<>>,
                   !.unread = @ + (IF p.b THEN Len(p.buf) ELSE 0)]

-----------------------------------------------------------------------------
(* The connection.                                                         *)

Frame(type, s, data, n, end) ==
    [type |-> type, s |-> s, data |-> data, n |-> n, end |-> end]

NewStreamFields ==
    [open |-> TRUE, pastHeaders |-> FALSE, pastTrailers |-> FALSE, readClosed |-> FALSE,
     readAborted |-> FALSE, abort |-> "nil", res |-> "none", bytesRemain |-> -1,
     readErr |-> "nil", trailer |-> FALSE, resTrailer |-> FALSE,
     inflow |-> [avail |-> StreamWindow, unsent |-> 0],
     flow |-> 0, toSend |-> 0, sent |-> 0, taken |-> 0, granted |-> 0, done |-> FALSE]

\* Every stream of the situation is open (addStreamLocked) and its request
\* header sent; its outgoing window is the server's initial window.
Init ==
    /\ sit \in Situations
    /\ \E w \in (IF sit.initials = {} THEN {0} ELSE sit.initials) :
          /\ ccf = [inflow |-> [avail |-> ConnWindow, unsent |-> 0], flow |-> w,
                    initial |-> w, reader |-> "run"]
          /\ csf = [s \in sit.streams |->
                       [NewStreamFields EXCEPT !.flow = w, !.granted = w, !.toSend = sit.upload]]
    /\ wire = <<>>
    /\ peer = [conn |-> ConnWindow, stream |-> [s \in sit.streams |-> StreamWindow],
               at |-> [s \in sit.streams |-> "headers"], sent |-> [s \in sit.streams |-> 0],
               updates |-> 0]
    /\ credit = [conn |-> 0, stream |-> [s \in sit.streams |-> 0]]
    /\ pipe = [s \in sit.streams |-> NewPipe]
    /\ body = [s \in sit.streams |-> [at |-> "wait", n |-> 0, closes |-> 0]]
    /\ got = [s \in sit.streams |-> [bytes |-> <<>>, err |-> "nil"]]

\* The read loop waits for cc.mu for ever once it locks it twice.
Unlocked == ccf.reader # "stuck"

\* streamByID.
Live(s) == csf[s].open /\ ~csf[s].readAborted

abortStream(c, e) == [c EXCEPT !.abort = IF @ = "nil" THEN e ELSE @]
endStreamError(c, e) == [abortStream(c, e) EXCEPT !.readAborted = TRUE]

\* WINDOW_UPDATE frames: conn bytes for the connection, n for stream s.
writeWindowUpdate(s, conn, n) ==
    credit' = [credit EXCEPT !.conn = @ + conn, !.stream[s] = @ + n]


\* endStream, c and p being the fields and the pipe of the stream before it.
endStream(c, p) == <<[c EXCEPT !.readClosed = TRUE],
                     IF c.readClosed THEN p ELSE CloseWithError(p, "EOF", TRUE)>>

ReadLoop(type) == /\ ccf.reader = "run" /\ wire # <<>> /\ Head(wire).type = type
                  /\ wire' = Tail(wire)

\* What handleResponse makes of the final response header: its body, and for a
\* streamed body the bytes Content-Length promises.
handleResponse(c, f) ==
    IF sit.head THEN [c EXCEPT !.res = "noBody"]
    ELSE IF f.end THEN [c EXCEPT !.res = IF f.n > 0 THEN "missingBody" ELSE "noBody"]
    ELSE [c EXCEPT !.res = "pipe", !.bytesRemain = f.n]

\* processHeaders.
processHeaders ==
    /\ ReadLoop("headers")
    /\ LET f == Head(wire) s == f.s  c == csf[s]
           r == handleResponse([c EXCEPT !.pastHeaders = TRUE], f)
           p == IF r.res = "pipe" THEN setBuffer(pipe[s]) ELSE pipe[s]
           cp == CASE ~Live(s) -> <<c, pipe[s]>>
                   [] Live(s) /\ c.readClosed -> <<endStreamError(c, "proto"), pipe[s]>>
                   [] OTHER -> IF f.end THEN endStream(r, p) ELSE <<r, p>>
       IN csf' = [csf EXCEPT ![s] = cp[1]] /\ pipe' = [pipe EXCEPT ![s] = cp[2]]
    /\ UNCHANGED <<sit, peer, credit, ccf, body, got>>

\* processTrailers.
processTrailers ==
    /\ ReadLoop("trailers")
    /\ LET s == Head(wire).s  c == csf[s]
           cp == CASE ~Live(s) -> <<c, pipe[s]>>
                   [] Live(s) /\ c.readClosed -> <<endStreamError(c, "proto"), pipe[s]>>
                   [] OTHER -> endStream([c EXCEPT !.pastTrailers = TRUE, !.trailer = TRUE], pipe[s])
       IN csf' = [csf EXCEPT ![s] = cp[1]] /\ pipe' = [pipe EXCEPT ![s] = cp[2]]
    /\ UNCHANGED <<sit, peer, credit, ccf, body, got>>

\* cleanup of the read loop after error e: every stream whose response has not
\* ended is aborted.
StopReading(e) ==
    /\ ccf' = [ccf EXCEPT !.reader = e]
    /\ csf' = [s \in DOMAIN csf |-> IF csf[s].open /\ ~csf[s].readClosed
                                    THEN abortStream(csf[s], e) ELSE csf[s]]

\* processData of a stream that was cancelled: its flow control is returned.
processDataForgotten ==
    /\ ReadLoop("data") /\ ~Live(Head(wire).s)
    /\ LET n == Head(wire).n IN
       IF n > ccf.inflow.avail
       THEN StopReading("flowControl") /\ UNCHANGED credit
       ELSE /\ ccf' = [ccf EXCEPT !.inflow = inflowAdd(take(@, n), n)]
            /\ writeWindowUpdate(Head(wire).s, Sent(take(ccf.inflow, n), n), 0)
            /\ UNCHANGED csf
    /\ UNCHANGED <<sit, peer, pipe, body, got>>

\* Mutant: the data a closed pipe refuses is not returned.
Refund_padding(p, f) == f.n - Len(f.data)

\* The bytes returned at once: the padding, and the data that the pipe refuses.
Refund(p, f) == f.n - (IF writable(p) THEN Len(f.data) ELSE 0)

\* processData of a live stream.
processData ==
    /\ ReadLoop("data") /\ Live(Head(wire).s)
    /\ LET f == Head(wire)  s == f.s  c == csf[s]  p == pipe[s]
           refund == Refund(p, f)
           reset == f.data # <<>> /\ ~writable(p)
           ci == take(ccf.inflow, f.n)
           si == take(c.inflow, f.n)
           c1 == [c EXCEPT !.inflow = IF reset THEN si ELSE inflowAdd(si, refund)]
           p1 == IF reset THEN p ELSE [p EXCEPT !.buf = @ \o f.data]
           cp == CASE reset -> <<endStreamError(c1, "closedPipe"), p1>>
                   [] ~reset /\ f.end -> endStream(c1, p1)
                   [] OTHER -> <<c1, p1>>
       IN IF c.readClosed \/ ~c.pastHeaders \/ (sit.head /\ f.data # <<>>)
          THEN /\ csf' = [csf EXCEPT ![s] = endStreamError(c, "proto")]
               /\ UNCHANGED <<ccf, credit, pipe>>
          ELSE IF f.n > ccf.inflow.avail \/ f.n > c.inflow.avail
          THEN StopReading("flowControl") /\ UNCHANGED <<credit, pipe>>
          ELSE /\ ccf' = [ccf EXCEPT !.inflow = inflowAdd(ci, refund)]
               /\ csf' = [csf EXCEPT ![s] = cp[1]]
               /\ pipe' = [pipe EXCEPT ![s] = cp[2]]
               /\ writeWindowUpdate(s, Sent(ci, refund), IF reset THEN 0 ELSE Sent(si, refund))
    /\ UNCHANGED <<sit, peer, body, got>>

\* processResetStream: the stream is aborted and the pipe closed.
processResetStream ==
    /\ ReadLoop("reset")
    /\ LET s == Head(wire).s IN
       IF Live(s) THEN /\ csf' = [csf EXCEPT ![s] = abortStream(@, "reset")]
                       /\ pipe' = [pipe EXCEPT ![s] = CloseWithError(@, "reset", FALSE)]
                  ELSE UNCHANGED <<csf, pipe>>
    /\ UNCHANGED <<sit, peer, credit, ccf, body, got>>

\* processSettings with a new SETTINGS_INITIAL_WINDOW_SIZE: the windows of the
\* open streams move by the difference; one that would overflow stays.
processSettings ==
    /\ ReadLoop("settings")
    /\ LET d == Head(wire).n - ccf.initial IN
       /\ ccf' = [ccf EXCEPT !.initial = Head(wire).n]
       /\ csf' = [s \in DOMAIN csf |->
                    IF csf[s].open
                    THEN [csf[s] EXCEPT !.flow = IF outflowFits(@, d) THEN Wrap(@ + d) ELSE @,
                                        !.granted = @ + d]
                    ELSE csf[s]]
    /\ UNCHANGED <<sit, peer, credit, pipe, body, got>>

\* processWindowUpdate for the connection ("conn") or for a stream.  For a
\* stream's window that would overflow, endStreamError locks cc.mu, which
\* processWindowUpdate holds.
processWindowUpdate ==
    /\ ReadLoop("windowUpdate")
    /\ LET s == Head(wire).s  n == Head(wire).n IN
       \/ /\ Head(wire).end /\ outflowFits(ccf.flow, n)
          /\ ccf' = [ccf EXCEPT !.flow = Wrap(@ + n)] /\ UNCHANGED csf
       \/ /\ Head(wire).end /\ ~outflowFits(ccf.flow, n)
          /\ StopReading("overflow")
       \/ /\ ~Head(wire).end /\ ~Live(s) /\ UNCHANGED <<ccf, csf>>
       \/ /\ ~Head(wire).end /\ Live(s) /\ outflowFits(csf[s].flow, n)
          /\ csf' = [csf EXCEPT ![s].flow = Wrap(@ + n), ![s].granted = @ + n]
          /\ UNCHANGED ccf
       \/ /\ ~Head(wire).end /\ Live(s) /\ ~outflowFits(csf[s].flow, n)
          /\ ccf' = [ccf EXCEPT !.reader = "stuck"]
          /\ csf' = [csf EXCEPT ![s].readAborted = TRUE]
    /\ UNCHANGED <<sit, peer, credit, pipe, body, got>>

\* The connection is lost.
readError ==
    /\ "lost" \in sit.events /\ ccf.reader = "run"
    /\ StopReading("unexpectedEOF")
    /\ UNCHANGED <<sit, wire, peer, credit, pipe, body, got>>

-----------------------------------------------------------------------------
(* The goroutine of each stream.                                           *)

\* awaitFlowControl: the writer takes what it may send.
awaitFlowControl(s) ==
    /\ Unlocked /\ csf[s].open /\ csf[s].abort = "nil" /\ csf[s].taken = 0 /\ csf[s].toSend > 0
    /\ available(s) > 0
    /\ LET n == Min({available(s), csf[s].toSend, MaxFrameSize}) IN
       /\ ccf' = [ccf EXCEPT !.flow = @ - n]
       /\ csf' = [csf EXCEPT ![s].flow = @ - n, ![s].taken = n, ![s].toSend = @ - n]
    /\ UNCHANGED <<sit, wire, peer, credit, pipe, body, got>>

\* writeRequestBody writes the DATA frame it has the window for.
writeData(s) ==
    /\ csf[s].taken > 0
    /\ csf' = [csf EXCEPT ![s].sent = @ + csf[s].taken, ![s].taken = 0]
    /\ UNCHANGED <<sit, wire, peer, credit, ccf, pipe, body, got>>

\* cleanupWriteRequest, when the stream was aborted or both sides ended: the
\* pipe is closed, and then the stream forgotten.
closePipe(s) ==
    /\ Unlocked /\ csf[s].open /\ csf[s].taken = 0 /\ ~csf[s].done
    /\ csf[s].abort # "nil" \/ (csf[s].readClosed /\ csf[s].toSend = 0)
    /\ LET e == IF csf[s].abort # "nil" /\ ~(csf[s].readClosed /\ csf[s].toSend = 0)
                THEN csf[s].abort ELSE "canceled"
       IN pipe' = [pipe EXCEPT ![s] = CloseWithError(@, e, FALSE)]
    /\ csf' = [csf EXCEPT ![s].done = TRUE]
    /\ UNCHANGED <<sit, wire, peer, credit, ccf, body, got>>

forgetStreamID(s) ==
    /\ Unlocked /\ csf[s].open /\ csf[s].done
    /\ csf' = [csf EXCEPT ![s].open = FALSE]
    /\ UNCHANGED <<sit, wire, peer, credit, ccf, pipe, body, got>>

-----------------------------------------------------------------------------
(* The caller: RoundTrip, then Read and Close of the response body.        *)

\* RoundTrip takes the response, or gives up.
roundTrip(s) ==
    /\ body[s].at = "wait"
    /\ \/ csf[s].res # "none" /\ body' = [body EXCEPT ![s].at = "reading"] /\ UNCHANGED csf
       \/ /\ csf[s].res = "none" /\ csf[s].abort # "nil"
          /\ body' = [body EXCEPT ![s].at = "failed"] /\ UNCHANGED csf
       \/ /\ "cancel" \in sit.events /\ Unlocked
          /\ csf' = [csf EXCEPT ![s] = abortStream(@, "canceled")]
          /\ body' = [body EXCEPT ![s].at = "failed"]
    /\ UNCHANGED <<sit, wire, peer, credit, ccf, pipe, got>>

\* The context ends while the caller reads; the writer sees it and aborts.
cancel(s) ==
    /\ "cancel" \in sit.events /\ Unlocked /\ body[s].at = "reading"
    /\ csf[s].open /\ ~csf[s].done /\ csf[s].abort = "nil"
    /\ csf' = [csf EXCEPT ![s] = abortStream(@, "canceled")]
    /\ UNCHANGED <<sit, wire, peer, credit, ccf, pipe, body, got>>

\* Read of noBody and of missingBody.
ReadNothing(s) ==
    /\ body[s].at = "reading" /\ csf[s].res \in {"noBody", "missingBody"}
    /\ got[s].err = "nil"
    /\ got' = [got EXCEPT ![s].err = IF csf[s].res = "noBody" THEN "EOF" ELSE "unexpectedEOF"]
    /\ UNCHANGED <<sit, wire, peer, credit, ccf, csf, pipe, body>>

\* What pipe.Read with a buffer of k bytes gives, once it does not wait.
pipeReady(p) == p.breakErr # "nil" \/ p.buf # <<>> \/ p.err # "nil"
pipeRead(p, k) ==
    CASE p.breakErr # "nil" -> [data |-> <<>>, err |-> p.breakErr, p |-> p]
      [] p.breakErr = "nil" /\ p.buf # <<>> ->
           LET n == Min({k, Len(p.buf)}) IN
           [data |-> SubSeq(p.buf, 1, n), err |-> "nil",
            p |-> [p EXCEPT !.buf = SubSeq(@, n + 1, Len(@))]]
      [] OTHER -> [data |-> <<>>, err |-> p.err, p |-> [p EXCEPT !.b = FALSE, !.readFn = FALSE]]

\* transportResponseBody.Read up to the return of the window: what was read is
\* checked against Content-Length.
Read(s) ==
    /\ body[s].at = "reading" /\ csf[s].res = "pipe" /\ csf[s].readErr = "nil"
    /\ got[s].err = "nil" /\ pipeReady(pipe[s])
    /\ \E k \in sit.reads :
          LET r == pipeRead(pipe[s], k)  n == Len(r.data)  remain == csf[s].bytesRemain
              long == remain # -1 /\ n > remain
              short == remain # -1 /\ r.err = "EOF" /\ remain > 0
              e == CASE long /\ r.err = "nil" -> "truncated"
                     [] short -> "unexpectedEOF"
                     [] OTHER -> r.err
          IN /\ long => Unlocked
             /\ pipe' = [pipe EXCEPT ![s] = r.p]
             /\ csf' = [csf EXCEPT ![s] =
                           [(IF long THEN abortStream(csf[s], "truncated") ELSE csf[s])
                            EXCEPT !.bytesRemain = IF remain = -1 \/ long THEN @ ELSE @ - n,
                                   !.readErr = IF long \/ short THEN e ELSE @,
                                   !.resTrailer = @ \/ (pipe[s].readFn /\ r.err = "EOF" /\ csf[s].trailer)]]
             /\ got' = [got EXCEPT ![s] =
                           [bytes |-> @.bytes \o (IF long THEN SubSeq(r.data, 1, remain) ELSE r.data),
                            err |-> e]]
             /\ body' = [body EXCEPT ![s] =
                           IF n = 0 \/ long THEN @ ELSE [@ EXCEPT !.at = "return", !.n = n]]
    /\ UNCHANGED <<sit, wire, peer, credit, ccf>>

\* The end of Read: the bytes read are returned to both windows.
returnWindow(s) ==
    /\ body[s].at = "return" /\ Unlocked
    /\ LET n == body[s].n IN
       /\ ccf' = [ccf EXCEPT !.inflow = inflowAdd(@, n)]
       /\ csf' = [csf EXCEPT ![s].inflow = inflowAdd(@, n)]
       /\ writeWindowUpdate(s, Sent(ccf.inflow, n), Sent(csf[s].inflow, n))
    /\ body' = [body EXCEPT ![s].at = "reading", ![s].n = 0]
    /\ UNCHANGED <<sit, wire, peer, pipe, got>>

\* transportResponseBody.Close: the pipe is broken and the stream aborted.
Close(s) ==
    /\ body[s].at = "reading" /\ Unlocked /\ body[s].closes < sit.closes
    /\ IF csf[s].res = "pipe"
       THEN /\ pipe' = [pipe EXCEPT ![s] = BreakWithError(@, "closedBody")]
            /\ csf' = [csf EXCEPT ![s] = abortStream(@, "closedBody")]
            /\ body' = [body EXCEPT ![s].at = "unread", ![s].closes = @ + 1]
       ELSE body' = [body EXCEPT ![s].closes = @ + 1] /\ UNCHANGED <<pipe, csf>>
    /\ UNCHANGED <<sit, wire, peer, credit, ccf, got>>

\* Mutant: the unread bytes are not returned.
returnUnread_not(s) ==
    /\ body[s].at = "unread" /\ Unlocked
    /\ body' = [body EXCEPT ![s].at = "reading"]
    /\ UNCHANGED <<sit, wire, peer, credit, ccf, csf, pipe, got>>

\* Close returns the unread bytes to the window of the connection.
returnUnread(s) ==
    /\ body[s].at = "unread" /\ Unlocked
    /\ LET n == Len_(pipe[s]) IN
       /\ ccf' = [ccf EXCEPT !.inflow = IF n > 0 THEN inflowAdd(@, n) ELSE @]
       /\ writeWindowUpdate(s, IF n > 0 THEN Sent(ccf.inflow, n) ELSE 0, 0)
    /\ body' = [body EXCEPT ![s].at = "reading"]
    /\ UNCHANGED <<sit, wire, peer, csf, pipe, got>>

-----------------------------------------------------------------------------
(* The server, external.                                                   *)

serverSends(f) == /\ Len(wire) < MaxInFlight /\ ccf.reader = "run"
                  /\ wire' = Append(wire, f)

serverHeaders(s) ==
    /\ peer.at[s] = "headers"
    /\ \E end \in BOOLEAN :
          /\ end => sit.total = 0 /\ ~sit.trailers
          /\ serverSends(Frame("headers", s, <<>>, sit.clen, end))
          /\ peer' = [peer EXCEPT !.at[s] = IF end THEN "ended" ELSE "data"]
    /\ UNCHANGED <<sit, credit, ccf, csf, pipe, body, got>>

\* A DATA frame of up to two bytes and its padding, within both windows.
serverData(s) ==
    /\ peer.at[s] = "data" /\ peer.sent[s] < sit.total
    /\ \E k \in 1 .. 2 :
          LET n == k + sit.pad  last == peer.sent[s] + k = sit.total /\ ~sit.trailers IN
          /\ peer.sent[s] + k <= sit.total /\ n <= peer.conn /\ n <= peer.stream[s]
          /\ serverSends(Frame("data", s, [i \in 1 .. k |-> peer.sent[s] + i], n, last))
          /\ peer' = [peer EXCEPT !.conn = @ - n, !.stream[s] = @ - n, !.sent[s] = @ + k,
                                  !.at[s] = IF last THEN "ended" ELSE @]
    /\ UNCHANGED <<sit, credit, ccf, csf, pipe, body, got>>

\* The end of a response that no DATA frame ended: trailers, or an empty DATA.
serverEnd(s) ==
    /\ peer.at[s] = "data" /\ peer.sent[s] = sit.total
    /\ serverSends(IF sit.trailers THEN Frame("trailers", s, <<>>, 0, TRUE)
                                   ELSE Frame("data", s, <<>>, 0, TRUE))
    /\ peer' = [peer EXCEPT !.at[s] = "ended"]
    /\ UNCHANGED <<sit, credit, ccf, csf, pipe, body, got>>

serverReset(s) ==
    /\ "reset" \in sit.events /\ peer.at[s] # "reset"
    /\ serverSends(Frame("reset", s, <<>>, 0, TRUE))
    /\ peer' = [peer EXCEPT !.at[s] = "reset"]
    /\ UNCHANGED <<sit, credit, ccf, csf, pipe, body, got>>

\* WINDOW_UPDATE and SETTINGS frames; end marks one for the connection.
serverUpdates(s) ==
    /\ peer.updates < sit.updates
    /\ \/ \E n \in sit.increments, conn \in BOOLEAN :
             serverSends(Frame("windowUpdate", s, <<>>, n, conn))
       \/ \E n \in sit.initials : serverSends(Frame("settings", s, <<>>, n, FALSE))
    /\ peer' = [peer EXCEPT !.updates = @ + 1]
    /\ UNCHANGED <<sit, credit, ccf, csf, pipe, body, got>>

\* The server sees the WINDOW_UPDATE frames sent so far.
serverSeesCredit ==
    /\ credit.conn > 0 \/ \E s \in DOMAIN credit.stream : credit.stream[s] > 0
    /\ peer' = [peer EXCEPT !.conn = @ + credit.conn,
                            !.stream = [s \in DOMAIN @ |-> @[s] + credit.stream[s]]]
    /\ credit' = [conn |-> 0, stream |-> [s \in DOMAIN credit.stream |-> 0]]
    /\ UNCHANGED <<sit, wire, ccf, csf, pipe, body, got>>

Next ==
    \/ processHeaders \/ processTrailers \/ processData \/ processDataForgotten
    \/ processResetStream \/ processSettings \/ processWindowUpdate \/ readError
    \/ serverSeesCredit
    \/ \E s \in sit.streams :
          \/ awaitFlowControl(s) \/ writeData(s) \/ closePipe(s) \/ forgetStreamID(s)
          \/ roundTrip(s) \/ cancel(s) \/ ReadNothing(s) \/ Read(s) \/ returnWindow(s)
          \/ Close(s) \/ returnUnread(s)
          \/ serverHeaders(s) \/ serverData(s) \/ serverEnd(s) \/ serverReset(s)
          \/ serverUpdates(s)

Spec == Init /\ [][Next]_vars

-----------------------------------------------------------------------------
(* Properties                                                              *)

\* The caller reads the response body and nothing else: the bytes it was given
\* are a prefix of what the server sent, in order and once each; io.EOF comes
\* only when the server ended the response, all of its bytes were read, their
\* number is the declared Content-Length and the trailers were copied, however
\* END_STREAM, RST_STREAM, cancellation and Close are interleaved.
BodyFaithful ==
    \A s \in sit.streams :
       /\ got[s].bytes = [i \in 1 .. Len(got[s].bytes) |-> i]
       /\ got[s].err = "EOF" /\ csf[s].res = "pipe" =>
             /\ Len(got[s].bytes) = sit.total
             /\ sit.clen \in {-1, sit.total}
             /\ csf[s].resTrailer = sit.trailers
       /\ got[s].err = "EOF" /\ csf[s].res = "noBody" => sit.total = 0

\* The bytes of the connection's window that are neither available nor waiting
\* to be announced: buffered, or read or discarded and not returned yet.
Outstanding ==
    MapThenSumSet(LAMBDA s : Len(pipe[s].buf)
                             + (IF body[s].at = "unread" THEN pipe[s].unread ELSE body[s].n),
                  sit.streams)

\* Flow control of the connection is exact: every byte of its window is either
\* available to the server, waiting to be announced, or held by a body the
\* caller has yet to read or close.  A byte that is returned twice, or never,
\* changes the window for all later streams of the connection.
WindowConserved == ccf.inflow.avail + ccf.inflow.unsent + Outstanding = ConnWindow

\* A server that keeps to the windows it was told is never refused for flow
\* control, and is never starved: when everything it sent was read or
\* discarded and it has seen every update, it may send on.
PolitePeerServed ==
    /\ ccf.reader # "flowControl"
    /\ wire = <<>> /\ credit.conn = 0 /\ Outstanding = 0 => peer.conn > 0

\* The request body never overdraws the server's windows: of each stream, the
\* bytes written, those reserved for the next frame and what may still be taken
\* are at most what the initial window, its changes and the updates allowed,
\* with the windows in int32 arithmetic and those of streams moving below zero;
\* and all of them together never overdraw the window of the connection.
NoOverdraft ==
    /\ \A s \in sit.streams : csf[s].flow + csf[s].sent + csf[s].taken <= csf[s].granted
    /\ ccf.flow >= 0
=============================================================================
