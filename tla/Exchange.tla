------------------------------ MODULE Exchange ------------------------------
(***************************************************************************)
(* The HTTP/1 side of Transport.roundTrip (transport.go): the retry loop,  *)
(* persistConn.roundTrip, and the readLoop and writeLoop goroutines of     *)
(* each connection, which meet over the channels reqch, writech,           *)
(* writeErrCh, continueCh, resc and waitForBodyRead, while the caller may  *)
(* cancel and the server may answer early, close or reset.                 *)
(*                                                                         *)
(* A message is its head and its body; both are tagged with the request    *)
(* they belong to.  The pool is the set of idle connections: what it       *)
(* promises is the subject of ConnPool.                                    *)
(***************************************************************************)
EXTENDS Naturals, Sequences

CONSTANTS Reqs, Conns,
          NoReq,          \* no request
          Scenarios,      \* the situations explored, see ScenarioOK
          Max1xx          \* max1xxResponses of readResponse

\* What matters of an http.Request: it has a body, the body can be opened
\* again (GetBody), the method is idempotent, the caller wants the connection
\* closed, Expect: 100-continue, and whether HTTP/2 is tried first (https).
Profile == [body : BOOLEAN, getBody : BOOLEAN, idempotent : BOOLEAN,
            close : BOOLEAN, expect : BOOLEAN, https : BOOLEAN]

\* The requests and which of them may run (the callers of after[r] have
\* returned before r starts), the final responses the server gives, and what
\* may go wrong.
ScenarioOK(e) ==
    /\ e.profile \in [Reqs -> Profile]
    /\ e.after \in [Reqs -> SUBSET Reqs]
    /\ e.replies \subseteq [code : {"final", "101"}, close : BOOLEAN, body : BOOLEAN]
    /\ e.faults \subseteq {"invalid", "dial", "cancel", "timeout", "bodyRead", "malformed",
                          "full", "closeIdle", "1xx", "408", "close", "reset"}

ASSUME ExchangeAssumption ==
    /\ NoReq \notin Reqs \cup Conns
    /\ Max1xx \in Nat
    /\ \A e \in Scenarios : ScenarioOK(e)

VARIABLES
    env,      \* the scenario
    req,      \* per request: the goroutine in Transport.roundTrip and its caller
    conn,     \* per connection: the persistConn and its two goroutines
    net,      \* per connection: what is on the wire, and the server
    handled,  \* history: how often the server began to act on each request
    mixed     \* history: the server read bytes of one request inside another

vars == <<env, req, conn, net, handled, mixed>>

-----------------------------------------------------------------------------
(* Initial state                                                           *)

\* A response head, and what the read loop offers: none yet, or an error.
Response(r, code, close, body) == [of |-> r, code |-> code, close |-> close, body |-> body]
NoResp  == Response(NoReq, "none", FALSE, FALSE)
ErrResp == Response(NoReq, "error", FALSE, FALSE)

NewReq == [pc |-> "start", conn |-> NoReq, ctx |-> "live", err |-> "nil",
           writeErrCh |-> "none", timer |-> FALSE, setError |-> FALSE,
           didRead |-> FALSE, didClose |-> FALSE,
           answer |-> "none", respBody |-> "none"]

\* A persistConn before dialConn has made it; dialConn starts both loops.
NewConn == [open |-> FALSE, idle |-> FALSE, closed |-> "no", canceled |-> FALSE,
            reused |-> FALSE, numExpectedResponses |-> 0,
            writech |-> NoReq, reqch |-> NoReq, writeErrCh |-> "none",
            continueCh |-> "nil", waitForBodyRead |-> "none",
            wl |-> "idle", wr |-> NoReq, wrote |-> FALSE, werr |-> "nil",
            rl |-> "peek", rc |-> NoReq, peek |-> "nil", resp |-> NoResp,
            alive |-> TRUE, sawEOF |-> FALSE, num1xx |-> 0, closeErr |-> "readLoop"]

NewNet == [up |-> <<>>, down |-> <<>>, fin |-> "no", srv |-> NoReq, owed |-> <<>>,
           hinted |-> FALSE]

Init ==
    /\ env \in Scenarios
    /\ req = [r \in Reqs |-> NewReq]
    /\ conn = [c \in Conns |-> NewConn]
    /\ net = [c \in Conns |-> NewNet]
    /\ handled = [r \in Reqs |-> 0]
    /\ mixed = FALSE

\* persistConn.closeLocked on the record k.
closeLocked(k, reason) == [k EXCEPT !.closed = IF @ = "no" THEN reason ELSE @]

isBroken(k) == k.closed # "no"

\* persistConn.cancelRequest.
cancelRequest(k) == [closeLocked(k, "canceled") EXCEPT !.canceled = TRUE]

-----------------------------------------------------------------------------
(* Transport.roundTrip                                                     *)

\* closeBody of the request body, through readTrackingBody.
closeBody(q) == [q EXCEPT !.didClose = TRUE]

\* The end of roundTrip: with an error it cancels the request's context.
Return(q, a) == [q EXCEPT !.pc = "done", !.answer = a,
                          !.ctx = IF a = "error" /\ @ = "live" THEN "done" ELSE @]

hasBody(r) == env.profile[r].body

isReplayable(r) == env.profile[r].idempotent /\ (~hasBody(r) \/ env.profile[r].getBody)

\* rewindBody: an untouched body is sent as it is, another one is closed and,
\* with GetBody, opened again.  GetBody itself may fail.
rewindBody(r, q, next) ==
    IF ~hasBody(r) \/ (~q.didRead /\ ~q.didClose)
    THEN {[q EXCEPT !.pc = next]}
    ELSE {Return(closeBody(q), "error")} \union
         (IF env.profile[r].getBody
          THEN {[q EXCEPT !.pc = next, !.didRead = FALSE, !.didClose = FALSE]}
          ELSE {})

\* A request that fails validation never reaches a connection.
roundTripReject(r) ==
    /\ req[r].pc = "start"
    /\ "invalid" \in env.faults
    /\ req' = [req EXCEPT ![r] = Return(closeBody(@), "error")]
    /\ UNCHANGED <<env, conn, net, handled, mixed>>

\* RoundTripOnlyCachedConn of HTTP/2 (and HTTP/3) before HTTP/1 is tried: no
\* connection, a response, an error, or an error that allows another try,
\* which leaves the body read and closed.
roundTripCached(r) ==
    /\ req[r].pc = "start"
    /\ \A p \in env.after[r] : req[p].pc = "done"
    /\ \/ /\ req' = [req EXCEPT ![r].pc = "loop"]
          /\ UNCHANGED handled
       \/ /\ env.profile[r].https
          /\ handled' = [handled EXCEPT ![r] = @ + 1]
          /\ req' = [req EXCEPT ![r].pc = "cached"]
       \/ /\ env.profile[r].https
          /\ \E q \in rewindBody(r, [closeBody(req[r]) EXCEPT !.didRead = TRUE], "loop") :
                req' = [req EXCEPT ![r] = q]
          /\ UNCHANGED handled
    /\ UNCHANGED <<env, conn, net, mixed>>

\* The HTTP/2 connection took the request: its answer is final.
roundTripCachedEnd(r) ==
    /\ req[r].pc = "cached"
    /\ \E a \in {r, "error"} :
            req' = [req EXCEPT ![r] = Return([closeBody(@) EXCEPT !.didRead = TRUE], a)]
    /\ UNCHANGED <<env, conn, net, handled, mixed>>

\* The head of the retry loop and getConn: the context is done, the dial
\* fails, a live idle connection is used or a new one made.
getConn(r) ==
    /\ req[r].pc = "loop"
    /\ \/ /\ req[r].ctx # "live" \/ "dial" \in env.faults
          /\ req' = [req EXCEPT ![r] = Return(closeBody(@), "error")]
          /\ UNCHANGED conn
       \/ /\ req[r].ctx = "live"
          /\ \E c \in Conns :
                /\ IF conn[c].open THEN conn[c].idle /\ ~isBroken(conn[c])
                   ELSE \A d \in Conns : ~(conn[d].idle /\ ~isBroken(conn[d]))
                /\ conn' = [conn EXCEPT ![c].open = TRUE, ![c].idle = FALSE]
                /\ req' = [req EXCEPT ![r].pc = "enter", ![r].conn = c]
    /\ UNCHANGED <<env, net, handled, mixed>>

\* Mutant: a request that is not idempotent is sent again as well.
shouldRetryRequest_any(r, k, err) ==
    /\ k.reused
    /\ err \in {"nothingWritten", "readFromServer", "serverClosedIdle"}

shouldRetryRequest(r, k, err) ==
    /\ k.reused
    /\ IF err = "nothingWritten" THEN ~hasBody(r) \/ env.profile[r].getBody
       ELSE isReplayable(r) /\ err \in {"readFromServer", "serverClosedIdle"}

\* Mutant: the body is left to the write loop (issue 49621).
roundTripFailed_leave(r) ==
    /\ req[r].pc = "failed"
    /\ IF shouldRetryRequest(r, conn[req[r].conn], req[r].err)
       THEN \E q \in rewindBody(r, req[r], "loop") : req' = [req EXCEPT ![r] = q]
       ELSE req' = [req EXCEPT ![r] = Return(@, "error")]
    /\ UNCHANGED <<env, conn, net, handled, mixed>>

\* persistConn.roundTrip failed: try again, or close the body and return.
roundTripFailed(r) ==
    /\ req[r].pc = "failed"
    /\ IF shouldRetryRequest(r, conn[req[r].conn], req[r].err)
       THEN \E q \in rewindBody(r, req[r], "loop") : req' = [req EXCEPT ![r] = q]
       ELSE req' = [req EXCEPT ![r] = Return(closeBody(@), "error")]
    /\ UNCHANGED <<env, conn, net, handled, mixed>>

\* The caller's context ends, during the call or while the response is read.
Cancel(r) ==
    /\ "cancel" \in env.faults
    /\ req[r].pc # "start" /\ req[r].ctx = "live"
    /\ req' = [req EXCEPT ![r].ctx = "canceled"]
    /\ UNCHANGED <<env, conn, net, handled, mixed>>

-----------------------------------------------------------------------------
(* persistConn.roundTrip                                                   *)

\* The first critical section: one more response is expected.
roundTripEnter(r) ==
    /\ req[r].pc = "enter"
    /\ req' = [req EXCEPT ![r].pc = "send"]
    /\ conn' = [conn EXCEPT ![req[r].conn].numExpectedResponses = @ + 1]
    /\ UNCHANGED <<env, net, handled, mixed>>

\* The request goes to the write loop and to the read loop.
roundTripSend(r) ==
    LET c == req[r].conn IN
    /\ req[r].pc = "send"
    /\ conn[c].writech = NoReq /\ conn[c].reqch = NoReq
    /\ conn' = [conn EXCEPT ![c].writech = r, ![c].reqch = r, ![c].wrote = FALSE,
                    ![c].continueCh = IF env.profile[r].expect /\ hasBody(r) THEN "empty" ELSE "nil"]
    /\ req' = [req EXCEPT ![r].pc = "select", ![r].writeErrCh = "none",
                          ![r].timer = FALSE, ![r].setError = FALSE]
    /\ UNCHANGED <<env, net, handled, mixed>>

\* The read loop of c offers r a response or an error on resc.
Offers(c, r) == conn[c].rl = "deliver" /\ conn[c].rc = r

\* Both ends of resc move: handleResponse at this end; at the other the read
\* loop waits for the body to be read, or ends this exchange.
handleResponse(c, r) ==
    LET k == conn[c] IN
    IF k.resp = ErrResp
    THEN /\ req' = [req EXCEPT ![r].pc = "map", ![r].err = k.peek]
         /\ conn' = [conn EXCEPT ![c].rl = "exit"]
    ELSE /\ LET q == Return(req[r], k.resp.of) IN
            req' = [req EXCEPT ![r] =
                [q EXCEPT !.respBody = IF k.resp.body THEN "open" ELSE "none",
                          !.ctx = IF ~k.resp.body /\ @ = "live" THEN "done" ELSE @]]
         /\ conn' = [conn EXCEPT ![c].rl = IF k.resp.body THEN "bodyWait"
                                           ELSE IF k.alive THEN "peek" ELSE "exit"]

\* One round of the select of persistConn.roundTrip.
roundTripSelect(r) ==
    LET c == req[r].conn
        q == req[r]
    IN
    /\ q.pc = "select"
    /\ \/ /\ q.writeErrCh = "nil"
          /\ req' = [req EXCEPT ![r].writeErrCh = "none", ![r].timer = "timeout" \in env.faults]
          /\ UNCHANGED conn
       \/ /\ q.writeErrCh = "err"
          /\ req' = [req EXCEPT ![r].pc = "map", ![r].err = "write"]
          /\ conn' = [conn EXCEPT ![c] = closeLocked(@, "write")]
       \/ Offers(c, r) /\ handleResponse(c, r)
       \/ /\ isBroken(conn[c]) /\ ~Offers(c, r)
          /\ req' = [req EXCEPT ![r].pc = "map", ![r].err = conn[c].closed]
          /\ UNCHANGED conn
       \/ /\ q.timer
          /\ req' = [req EXCEPT ![r].pc = "failed", ![r].err = "timeout"]
          /\ conn' = [conn EXCEPT ![c] = closeLocked(@, "timeout")]
       \/ /\ q.ctx # "live" /\ ~Offers(c, r)
          /\ conn' = [conn EXCEPT ![c] = cancelRequest(@)]
          /\ UNCHANGED req
    /\ UNCHANGED <<env, net, handled, mixed>>

\* What the caller of persistConn.roundTrip is told, once the write loop is done.
mapRoundTripError(r) ==
    LET k == conn[req[r].conn]
        q == req[r]
    IN
    /\ q.pc = "map"
    /\ k.wl = "done"
    /\ req' = [req EXCEPT ![r].pc = "failed", ![r].err =
            CASE k.canceled -> "canceled"
              [] ~k.canceled /\ q.setError -> "bodyRead"
              [] ~k.canceled /\ ~q.setError /\ @ = "serverClosedIdle" -> @
              [] ~k.canceled /\ ~q.setError /\ @ # "serverClosedIdle" /\ ~k.wrote
                    /\ (@ = "readFromServer" \/ isBroken(k)) -> "nothingWritten"
              [] OTHER -> @]
    /\ UNCHANGED <<env, conn, net, handled, mixed>>

-----------------------------------------------------------------------------
(* persistConn.writeLoop                                                   *)

Head1(r) == [of |-> r, part |-> "head"]
Body1(r) == [of |-> r, part |-> "body"]

\* What the server can still receive of the items s.
Sent(n, s) == IF n.fin = "no" THEN [n EXCEPT !.up = @ \o s] ELSE n

\* Mutant: the write loop does not watch closech.
writeLoopSelect_deaf(c) ==
    LET k == conn[c] IN
    /\ k.open /\ k.wl = "idle"
    /\ k.writech # NoReq
    /\ conn' = [conn EXCEPT ![c].wl = IF k.continueCh = "nil" THEN "body" ELSE "head",
                            ![c].wr = k.writech, ![c].writech = NoReq]
    /\ UNCHANGED <<env, req, net, handled, mixed>>

\* The select of writeLoop.
writeLoopSelect(c) ==
    LET k == conn[c] IN
    /\ k.open /\ k.wl = "idle"
    /\ \/ /\ k.writech # NoReq
          /\ conn' = [conn EXCEPT ![c].wl = IF k.continueCh = "nil" THEN "body" ELSE "head",
                                  ![c].wr = k.writech, ![c].writech = NoReq]
       \/ /\ isBroken(k)
          /\ conn' = [conn EXCEPT ![c].wl = "done"]
    /\ UNCHANGED <<env, req, net, handled, mixed>>

\* writeRequest up to the flush that Expect: 100-continue needs.
writeRequestHead(c) ==
    LET k == conn[c] IN
    /\ k.wl = "head"
    /\ ~isBroken(k)
    /\ conn' = [conn EXCEPT ![c].wl = "wait", ![c].wrote = TRUE]
    /\ net' = [net EXCEPT ![c] = Sent(@, <<Head1(k.wr)>>)]
    /\ UNCHANGED <<env, req, handled, mixed>>

\* Mutant: every final response cancels the wait, also one that keeps the
\* connection open.
waitForContinue_skip(c) ==
    LET k == conn[c] IN
    /\ k.wl = "wait"
    /\ k.continueCh # "empty" \/ isBroken(k)
    /\ conn' = [conn EXCEPT ![c].wl = "report", ![c].werr = "nil"]
    /\ req' = [req EXCEPT ![k.wr] = closeBody(@)]
    /\ UNCHANGED <<env, net, handled, mixed>>

\* waitForContinue: the body is sent on a 100, or on a final response when the
\* connection stays open, or when the timer fires; else it is only closed.
waitForContinue(c) ==
    LET k == conn[c] IN
    /\ k.wl = "wait"
    /\ \/ /\ conn' = [conn EXCEPT ![c].wl = "body"]
          /\ UNCHANGED req
       \/ /\ k.continueCh = "closed" \/ isBroken(k)
          /\ conn' = [conn EXCEPT ![c].wl = "report", ![c].werr = "nil"]
          /\ req' = [req EXCEPT ![k.wr] = closeBody(@)]
    /\ UNCHANGED <<env, net, handled, mixed>>

\* transferWriter.writeBody and the flush, with the head if it is still buffered.
writeRequestBody(c) ==
    LET k == conn[c]
        r == k.wr
        head == IF k.wrote THEN <<>> ELSE <<Head1(r)>>
    IN
    /\ k.wl = "body"
    /\ ~isBroken(k)
    /\ conn' = [conn EXCEPT ![c].wl = "report", ![c].werr = "nil", ![c].wrote = TRUE]
    /\ net' = [net EXCEPT ![c] = Sent(@, IF hasBody(r) THEN head \o <<Body1(r)>> ELSE head)]
    /\ req' = [req EXCEPT ![r].didRead = TRUE, ![r].didClose = TRUE]
    /\ UNCHANGED <<env, handled, mixed>>

\* writeRequest fails: the head cannot be built, a write fails because either
\* side closed, or the caller's body does.  Some of the head may have gone out.
writeRequestFails(c) ==
    LET k == conn[c]
        r == k.wr
    IN
    /\ k.wl \in {"head", "body"}
    /\ \E cause \in {"invalid", "net", "bodyRead"}, out \in BOOLEAN :
        /\ cause = "net" \/ cause \in env.faults
        /\ cause = "net" => isBroken(k) \/ net[c].fin # "no"
        /\ cause = "bodyRead" => hasBody(r) /\ k.wl = "body"
        /\ cause = "invalid" => ~out /\ ~k.wrote
        /\ k.wrote => ~out
        /\ conn' = [conn EXCEPT ![c].wl = "report", ![c].werr = "err", ![c].wrote = @ \/ out]
        /\ net' = [net EXCEPT ![c] = Sent(@, IF out THEN <<Head1(r)>> ELSE <<>>)]
        /\ req' = [req EXCEPT ![r].didRead = @ \/ k.wl = "body", ![r].didClose = TRUE,
                              ![r].setError = @ \/ cause = "bodyRead"]
    /\ UNCHANGED <<env, handled, mixed>>

\* The two sends of the result: to the read loop, which may recycle the
\* connection, and to persistConn.roundTrip; an error also closes.
writeLoopReport(c) ==
    LET k == conn[c] IN
    /\ k.wl = "report"
    /\ k.writeErrCh = "none"
    /\ conn' = [conn EXCEPT ![c].writeErrCh = k.werr,
                            ![c].wl = IF k.werr = "nil" THEN "idle" ELSE "close"]
    /\ req' = [req EXCEPT ![k.wr].writeErrCh =
                    IF req[k.wr].conn = c /\ req[k.wr].pc = "select" THEN k.werr ELSE @]
    /\ UNCHANGED <<env, net, handled, mixed>>

writeLoopClose(c) ==
    /\ conn[c].wl = "close"
    /\ conn' = [conn EXCEPT ![c] = [closeLocked(@, "write") EXCEPT !.wl = "done"]]
    /\ UNCHANGED <<env, req, net, handled, mixed>>

-----------------------------------------------------------------------------
(* persistConn.readLoop                                                    *)

\* Peek(1): data, the end of the stream, or an error.  The result is used
\* after the lock of the next step is taken.
readLoopPeek(c) ==
    LET k == conn[c]
        n == net[c]
    IN
    /\ k.open /\ k.rl = "peek"
    /\ isBroken(k) \/ n.down # <<>> \/ n.fin # "no"
    /\ conn' = [conn EXCEPT ![c].rl = "peeked", ![c].rc = NoReq, ![c].resp = NoResp,
                    ![c].peek = IF isBroken(k) \/ n.fin = "reset" THEN "readErr"
                                ELSE IF n.down # <<>> THEN "nil" ELSE "EOF"]
    /\ UNCHANGED <<env, req, net, handled, mixed>>

is408Message(m) == m.code = "408"

\* Data or an error on a connection from which no response is expected.
readLoopPeekFailLocked(k, down) ==
    closeLocked(k, IF k.peek = "EOF" \/ (k.peek = "nil" /\ is408Message(Head(down)))
                   THEN "serverClosedIdle" ELSE "peekFail")

\* Nothing was asked for: the connection is closed.
\* Otherwise the request is fetched; a failed Peek is the answer to it.
readLoopExpect(c) ==
    LET k == conn[c] IN
    /\ k.rl = "peeked"
    /\ \/ /\ k.numExpectedResponses = 0
          /\ conn' = [conn EXCEPT ![c] =
                        [readLoopPeekFailLocked(@, net[c].down) EXCEPT !.rl = "exit"]]
       \/ /\ k.numExpectedResponses > 0
          /\ k.reqch # NoReq
          /\ conn' = [conn EXCEPT
                 ![c].rc = k.reqch, ![c].reqch = NoReq, ![c].num1xx = 0,
                 ![c].rl = IF k.peek = "nil" THEN "response" ELSE "deliver",
                 ![c].resp = IF k.peek = "nil" THEN NoResp ELSE ErrResp,
                 ![c].closeErr = IF k.peek = "nil" THEN @ ELSE "readFromServer",
                 ![c].peek = IF @ = "nil" THEN @ ELSE "readFromServer"]
    /\ UNCHANGED <<env, req, net, handled, mixed>>

\* Reading may or may not notice that the server closed behind the last item.
SeesEOF(n) == IF n.fin = "eof" /\ Len(n.down) = 1 THEN BOOLEAN ELSE {FALSE}

\* readResponse: one message head.  Informational ones are counted and skipped,
\* a 100 lets the write loop go on; the final one settles keep-alive and, when
\* no 100 came, whether a waiting request body is still sent.
readResponse(c) ==
    LET k == conn[c]
        m == Head(net[c].down)
        over == k.num1xx = Max1xx
    IN
    /\ k.rl = "response"
    /\ ~isBroken(k) /\ net[c].down # <<>>
    /\ net' = [net EXCEPT ![c].down = Tail(@)]
    /\ \E eof \in SeesEOF(net[c]) :
       \/ /\ m.code \in {"100", "1xx"}
          /\ conn' = [conn EXCEPT
                 ![c].num1xx = @ + 1, ![c].sawEOF = eof,
                 ![c].continueCh = IF m.code = "100" /\ @ = "empty" THEN "go" ELSE @,
                 ![c].rl = IF over THEN "deliver" ELSE @,
                 ![c].resp = IF over THEN ErrResp ELSE @,
                 ![c].peek = IF over THEN "too many 1xx" ELSE @]
       \/ /\ m.code \notin {"100", "1xx"}
          /\ LET close == m.close \/ env.profile[k.rc].close IN
             conn' = [conn EXCEPT
                 ![c].numExpectedResponses = @ - 1, ![c].sawEOF = eof, ![c].resp = m,
                 ![c].continueCh = CASE @ = "empty" /\ close -> "closed"
                                     [] @ = "empty" /\ ~close -> "go"
                                     [] OTHER -> @,
                 ![c].alive = ~close /\ m.code # "101",
                 ![c].closeErr = IF m.code = "101" THEN "callerOwnsConn" ELSE @,
                 ![c].rl = IF m.body THEN "deliver" ELSE "recycle"]
    /\ UNCHANGED <<env, req, handled, mixed>>

\* readResponse fails: the stream ends inside the response, or is malformed.
readResponseFails(c) ==
    LET k == conn[c] IN
    /\ k.rl = "response"
    /\ isBroken(k) \/ (net[c].down = <<>> /\ net[c].fin # "no") \/ "malformed" \in env.faults
    /\ conn' = [conn EXCEPT ![c].rl = "deliver", ![c].resp = ErrResp, ![c].peek = "read"]
    /\ UNCHANGED <<env, req, net, handled, mixed>>

\* The caller of roundTrip is gone: nobody takes the response.
readLoopCallerGone(c) ==
    LET k == conn[c] IN
    /\ k.rl = "deliver"
    /\ ~(req[k.rc].conn = c /\ req[k.rc].pc \in {"select", "map"})
    /\ conn' = [conn EXCEPT ![c].rl = "exit", ![c].resp = ErrResp]
    /\ UNCHANGED <<env, req, net, handled, mixed>>

\* The select of readLoop behind a response with a body.
readLoopBodyWait(c) ==
    LET k == conn[c]
        r == k.rc
    IN
    /\ k.rl = "bodyWait"
    /\ \/ /\ k.waitForBodyRead = "EOF"
          /\ conn' = [conn EXCEPT ![c].rl = "recycle", ![c].waitForBodyRead = "none"]
       \/ /\ k.waitForBodyRead = "early" \/ isBroken(k)
          /\ conn' = [conn EXCEPT ![c].rl = "exit", ![c].alive = FALSE]
       \/ /\ req[r].ctx # "live"
          /\ conn' = [conn EXCEPT ![c] = [cancelRequest(@) EXCEPT !.rl = "exit", !.alive = FALSE]]
    /\ UNCHANGED <<env, req, net, handled, mixed>>

\* After recycling, or not: a response without a body is delivered; a caller
\* at the end of its body is released (eofc), and its request is done.
AfterRecycle(c, k, alive) ==
    IF k.resp.body
    THEN /\ conn' = [conn EXCEPT ![c] = [k EXCEPT !.alive = alive,
                                                  !.rl = IF alive THEN "peek" ELSE "exit"]]
         /\ req' = [req EXCEPT ![k.rc].respBody = "done",
                               ![k.rc].ctx = IF @ = "live" THEN "done" ELSE @]
    ELSE /\ conn' = [conn EXCEPT ![c] = [k EXCEPT !.alive = alive, !.rl = "deliver"]]
         /\ UNCHANGED req

\* Mutant: the connection is recycled without waiting for the write.
wroteRequest_hurry(c) ==
    LET k == conn[c] IN
    /\ k.rl = "recycle"
    /\ IF ~k.alive \/ k.sawEOF THEN AfterRecycle(c, k, FALSE)
       ELSE conn' = [conn EXCEPT ![c].rl = "put"] /\ UNCHANGED req
    /\ UNCHANGED <<env, net, handled, mixed>>

\* alive && bodyEOF && !sawEOF && wroteRequest(): the result of the write is
\* taken if it is there, or comes before the timer fires.
wroteRequest(c) ==
    LET k == conn[c] IN
    /\ k.rl = "recycle"
    /\ \/ /\ ~k.alive \/ k.sawEOF \/ k.writeErrCh = "none"
          /\ AfterRecycle(c, k, FALSE)
       \/ /\ k.alive /\ ~k.sawEOF /\ k.writeErrCh = "err"
          /\ AfterRecycle(c, [k EXCEPT !.writeErrCh = "none"], FALSE)
       \/ /\ k.alive /\ ~k.sawEOF /\ k.writeErrCh = "nil"
          /\ conn' = [conn EXCEPT ![c].writeErrCh = "none", ![c].rl = "put"]
          /\ UNCHANGED req
    /\ UNCHANGED <<env, net, handled, mixed>>

\* tryPutIdleConn, before idleMu: a broken connection is not put back.
tryPutIdleConnCheck(c) ==
    LET k == conn[c] IN
    /\ k.rl = "put"
    /\ IF isBroken(k) THEN AfterRecycle(c, k, FALSE)
       ELSE /\ conn' = [conn EXCEPT ![c].reused = TRUE, ![c].rl = "putLocked"]
            /\ UNCHANGED req
    /\ UNCHANGED <<env, net, handled, mixed>>

\* tryPutIdleConn under idleMu: the pool takes the connection, or is full.
tryPutIdleConn(c) ==
    LET k == conn[c] IN
    /\ k.rl = "putLocked"
    /\ \/ AfterRecycle(c, [k EXCEPT !.idle = TRUE], TRUE)
       \/ "full" \in env.faults /\ AfterRecycle(c, [k EXCEPT !.closeErr = "pool"], FALSE)
    /\ UNCHANGED <<env, net, handled, mixed>>

\* Mutant: eofc is not closed when the loop ends.
readLoopExit_hold(c) ==
    /\ conn[c].rl = "exit"
    /\ conn' = [conn EXCEPT ![c].rl = "close"]
    /\ UNCHANGED <<env, req, net, handled, mixed>>

\* The deferred calls of readLoop, last first: eofc is closed, ...
readLoopExit(c) ==
    LET k == conn[c] IN
    /\ k.rl = "exit"
    /\ conn' = [conn EXCEPT ![c].rl = "close"]
    /\ req' = IF k.rc = NoReq THEN req
              ELSE [req EXCEPT ![k.rc].respBody = IF @ \in {"EOFWait", "earlyWait"} THEN "done" ELSE @,
                               ![k.rc].ctx = IF @ = "live" /\ k.resp # ErrResp THEN "done" ELSE @]
    /\ UNCHANGED <<env, net, handled, mixed>>

\* ... the connection is closed, ...
readLoopClose(c) ==
    /\ conn[c].rl = "close"
    /\ conn' = [conn EXCEPT ![c] = [closeLocked(@, conn[c].closeErr) EXCEPT !.rl = "remove"]]
    /\ UNCHANGED <<env, req, net, handled, mixed>>

\* ... and removed from the idle list.
removeIdleConn(c) ==
    /\ conn[c].rl = "remove"
    /\ conn' = [conn EXCEPT ![c].rl = "dead", ![c].idle = FALSE]
    /\ UNCHANGED <<env, req, net, handled, mixed>>

\* closeConnIfStillIdle and CloseIdleConnections.
closeConnIfStillIdle(c) ==
    /\ "closeIdle" \in env.faults
    /\ conn[c].idle
    /\ conn' = [conn EXCEPT ![c] = [closeLocked(@, "idleClosed") EXCEPT !.idle = FALSE]]
    /\ UNCHANGED <<env, req, net, handled, mixed>>

-----------------------------------------------------------------------------
(* bodyEOFSignal: the caller and the response body                         *)

LoopEnded(c) == conn[c].rl \in {"close", "remove", "dead"}

\* fn and earlyCloseFn: what the read loop is told first is what counts.
Signal(c, v) == conn' = [conn EXCEPT ![c].waitForBodyRead = IF @ = "none" THEN v ELSE @]

\* Read reaches the end of the body, and waits for the read loop (eofc).
bodyReadEOF(r) ==
    LET c == req[r].conn IN
    /\ req[r].respBody = "open"
    /\ ~isBroken(conn[c]) /\ net[c].down # <<>>
    /\ \E eof \in SeesEOF(net[c]) :
            conn' = [conn EXCEPT ![c].sawEOF = @ \/ eof,
                                 ![c].waitForBodyRead = IF @ = "none" THEN "EOF" ELSE @]
    /\ net' = [net EXCEPT ![c].down = Tail(@)]
    /\ req' = [req EXCEPT ![r].respBody = IF LoopEnded(c) THEN "done" ELSE "EOFWait"]
    /\ UNCHANGED <<env, handled, mixed>>

\* Read fails inside the body.
bodyReadErr(r) ==
    LET c == req[r].conn IN
    /\ req[r].respBody = "open"
    /\ isBroken(conn[c]) \/ (net[c].down = <<>> /\ net[c].fin # "no")
    /\ Signal(c, "early")
    /\ req' = [req EXCEPT ![r].respBody = "failed"]
    /\ UNCHANGED <<env, net, handled, mixed>>

\* Close before the end: waits until the read loop has ended.
bodyClose(r) ==
    LET c == req[r].conn IN
    /\ req[r].respBody \in {"open", "failed"}
    /\ Signal(c, "early")
    /\ req' = [req EXCEPT ![r].respBody = IF LoopEnded(c) THEN "done" ELSE "earlyWait"]
    /\ UNCHANGED <<env, net, handled, mixed>>

-----------------------------------------------------------------------------
(* The server (external): it reads requests in the order of the wire,      *)
(* begins to act on a request at its head, and answers in order.           *)

serverRead(c) ==
    LET n == net[c]
        m == Head(n.up)
    IN
    /\ n.fin = "no" /\ n.up # <<>>
    /\ IF m.part = "head"
       THEN /\ handled' = [handled EXCEPT ![m.of] = @ + 1]
            /\ net' = [net EXCEPT ![c].up = Tail(@), ![c].owed = Append(@, m.of),
                                  ![c].srv = IF hasBody(m.of) THEN m.of ELSE NoReq]
       ELSE /\ net' = [net EXCEPT ![c].up = Tail(@), ![c].srv = NoReq]
            /\ UNCHANGED handled
    /\ mixed' = (mixed \/ n.srv # IF m.part = "head" THEN NoReq ELSE m.of)
    /\ UNCHANGED <<env, req, conn>>

\* A final response, maybe before the body was read.  Its own body may be cut
\* short; with "Connection: close" the server closes behind it.
serverReply(c) ==
    LET n == net[c]
        r == Head(n.owed)
    IN
    /\ n.fin = "no" /\ n.owed # <<>> /\ ~isBroken(conn[c])
    /\ \E p \in env.replies :
        LET head == <<Response(r, p.code, p.close, p.body)>>
            rest == IF p.body THEN <<Response(r, "body", FALSE, FALSE)>>
                    ELSE <<>>
        IN
        \/ net' = [net EXCEPT ![c].owed = Tail(@), ![c].hinted = FALSE,
                              ![c].down = @ \o head \o rest,
                              ![c].fin = IF p.close THEN "eof" ELSE @]
        \/ /\ p.body /\ "close" \in env.faults
           /\ net' = [net EXCEPT ![c].owed = Tail(@), ![c].down = @ \o head, ![c].fin = "eof"]
    /\ UNCHANGED <<env, req, conn, handled, mixed>>

\* Informational responses: 100 to a request that expects it, and others.
serverHint(c) ==
    LET n == net[c] IN
    /\ n.fin = "no" /\ n.owed # <<>> /\ ~isBroken(conn[c]) /\ ~n.hinted
    /\ \E s \in {<<"100">>} \union (IF "1xx" \in env.faults THEN {<<"1xx", "100">>} ELSE {}) :
        /\ env.profile[Head(n.owed)].expect
        /\ net' = [net EXCEPT ![c].hinted = TRUE, ![c].down =
                    @ \o [i \in 1..Len(s) |-> Response(Head(n.owed), s[i], FALSE, FALSE)]]
    /\ UNCHANGED <<env, req, conn, handled, mixed>>

\* The server gives up waiting for a request: a 408 nobody asked for.
serverTimeout(c) ==
    LET n == net[c] IN
    /\ "408" \in env.faults
    /\ conn[c].open /\ n.fin = "no" /\ n.owed = <<>> /\ n.srv = NoReq
    /\ net' = [net EXCEPT ![c].down = Append(@, Response("408", "408", TRUE, FALSE)), ![c].fin = "eof"]
    /\ UNCHANGED <<env, req, conn, handled, mixed>>

\* The server closes, or the connection is reset and what it sent is lost.
serverClose(c) ==
    /\ conn[c].open /\ net[c].fin = "no"
    /\ \/ /\ "close" \in env.faults
          /\ net' = [net EXCEPT ![c].fin = "eof", ![c].up = <<>>]
       \/ /\ "reset" \in env.faults
          /\ net' = [net EXCEPT ![c].fin = "reset", ![c].up = <<>>, ![c].down = <<>>]
    /\ UNCHANGED <<env, req, conn, handled, mixed>>

-----------------------------------------------------------------------------

\* A goroutine in Transport.roundTrip.
Caller(r) ==
    \/ roundTripReject(r) \/ roundTripCached(r) \/ roundTripCachedEnd(r) \/ getConn(r)
    \/ roundTripEnter(r) \/ roundTripSend(r) \/ roundTripSelect(r)
    \/ mapRoundTripError(r) \/ roundTripFailed(r)

\* The user of the response.
User(r) == bodyReadEOF(r) \/ bodyReadErr(r) \/ bodyClose(r)

writeLoop(c) ==
    \/ writeLoopSelect(c) \/ writeRequestHead(c) \/ waitForContinue(c)
    \/ writeRequestBody(c) \/ writeRequestFails(c) \/ writeLoopReport(c) \/ writeLoopClose(c)

readLoop(c) ==
    \/ readLoopPeek(c) \/ readLoopExpect(c) \/ readResponse(c) \/ readResponseFails(c)
    \/ readLoopCallerGone(c) \/ readLoopBodyWait(c) \/ wroteRequest(c)
    \/ tryPutIdleConnCheck(c) \/ tryPutIdleConn(c)
    \/ readLoopExit(c) \/ readLoopClose(c) \/ removeIdleConn(c)

Server(c) ==
    \/ serverRead(c) \/ serverReply(c) \/ serverHint(c) \/ serverTimeout(c) \/ serverClose(c)

Next ==
    \/ \E r \in Reqs : Caller(r) \/ User(r) \/ Cancel(r)
    \/ \E c \in Conns : writeLoop(c) \/ readLoop(c) \/ closeConnIfStillIdle(c) \/ Server(c)

Spec == Init /\ [][Next]_vars

\* The goroutines of the client keep running; the server and the user need not.
Fairness ==
    /\ \A r \in Reqs : WF_vars(Caller(r))
    /\ \A c \in Conns : WF_vars(writeLoop(c)) /\ WF_vars(readLoop(c))

FairSpec == Spec /\ Fairness
-----------------------------------------------------------------------------
(* Properties                                                              *)

\* The contract of a RoundTripper (module RoundTripper): no request is answered
\* with another one's response, and a request that may not be repeated reaches
\* the server at most once, whatever reuse, retries, early answers and closing
\* connections do.
Promised == INSTANCE RoundTripper WITH
    replayable  <- {r \in Reqs : isReplayable(r)},
    Unsolicited <- "408",
    answer      <- [r \in Reqs |-> req[r].answer],
    handled     <- handled

ImplementsRoundTripper == Promised!Spec

\* The server never sees the bytes of one request inside another one: a
\* connection is not used again before the previous request was written to its
\* end, also when Expect: 100-continue let the client skip the body.
RequestsNotMixed == ~mixed

\* A live idle connection is fit for the next request: nothing expected,
\* nothing queued, no result of an old write left, and its read loop between
\* two exchanges (isBroken is tested before idleMu is taken).
IdleIsClean ==
    \A c \in Conns :
        LET k == conn[c] IN
        /\ k.idle => /\ k.rl # "dead"
                     /\ k.writech = NoReq /\ k.reqch = NoReq
        /\ k.idle /\ ~isBroken(k) =>
              /\ k.numExpectedResponses = 0 /\ k.writeErrCh = "none" /\ k.wl = "idle"
              /\ k.rl \in {"deliver", "peek", "peeked", "exit", "close"}

\* The write loop of a connection has r, or will take it.
Writing(r) ==
    \E c \in Conns : LET k == conn[c] IN
        \/ k.writech = r /\ k.wl # "done"
        \/ k.wr = r /\ k.wl \in {"head", "wait", "body"}

\* Once roundTrip has returned, the request body is closed, or a write loop
\* still has to close it (issue 49621).  The exception is a 408 that the server
\* sent unasked, taken for the answer before the write loop saw the request.
BodyReleased ==
    \A r \in Reqs : req[r].pc = "done" /\ hasBody(r) /\ req[r].answer # "408"
                        => req[r].didClose \/ Writing(r)

\* What must hold in the end (neither is taken back).  A canceled request has
\* returned, wherever its goroutines are.
CanceledReturned == \A r \in Reqs : req[r].ctx = "canceled" => req[r].pc = "done"

\* No caller waits in Read at EOF or in Close of a response body.
BodyCallsReturned == \A r \in Reqs : req[r].respBody \notin {"EOFWait", "earlyWait"}
=============================================================================
