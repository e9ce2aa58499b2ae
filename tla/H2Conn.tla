------------------------------- MODULE H2Conn -------------------------------
(***************************************************************************)
(* One HTTP/2 ClientConn and the requests that use it                      *)
(* (internal/http2/transport.go).                                          *)
(*                                                                         *)
(* A call r of RoundTripOpt reserves a stream and then has two goroutines: *)
(* the caller, waiting in ClientConn.roundTrip, and the writer running     *)
(* clientStream.doRequest, which owns the stream from its creation to its  *)
(* removal.  The connection's read loop, Shutdown, the idle timer and the  *)
(* health check act on all streams.  One action is one critical section of *)
(* cc.mu or cc.wmu or one channel operation.                               *)
(*                                                                         *)
(* Flow control is reduced to "there may be no window": a writer with data *)
(* either sends it or sleeps on cc.cond.                                   *)
(***************************************************************************)
EXTENDS Integers, FiniteSets

CONSTANTS
    Calls,            \* calls of RoundTripOpt
    Body,             \* request body of each call: none, getBody, stream
    Heads,            \* calls that are HEAD requests
    CloseCalls,       \* calls that ask for Connection: close
    Trailers,         \* calls whose request announces a Trailer
    Scenarios,        \* the configurations considered: see ScenarioType
    MaxSettings,      \* bound: SETTINGS frames the server sends
    MaxStreamID,      \* math.MaxInt32
    RetryLimit,       \* retries of RoundTripOpt: 6
    MaxAttempts       \* bound: attempts of one call on this connection

Events == {"cancel", "goAway", "reset", "eof", "peer", "write", "ping", "request",
           "shutdown", "closeIdle"}

\* A scenario is a configuration of the Transport and the connection, the
\* stream limits of the server and the events that may happen.
ScenarioType ==
    [strict : BOOLEAN,           \* StrictMaxConcurrentStreams
     singleUse : BOOLEAN,        \* cc.singleUse
     idleTimeout : BOOLEAN,      \* whether IdleConnTimeout is set
     headerTimeout : BOOLEAN,    \* whether ResponseHeaderTimeout is set
     initialMax : Nat,           \* maxConcurrentStreams before SETTINGS
     limits : SUBSET Nat,        \* values of SETTINGS_MAX_CONCURRENT_STREAMS
     calls : SUBSET Calls,       \* the calls that are made
     events : SUBSET Events]

ASSUME ConnAssumption ==
    /\ IsFiniteSet(Calls)
    /\ Body \in [Calls -> {"none", "getBody", "stream"}]
    /\ {Heads, CloseCalls, Trailers} \subseteq SUBSET Calls
    /\ Scenarios \subseteq ScenarioType
    /\ MaxStreamID \in Nat \ {0} /\ {RetryLimit, MaxSettings, MaxAttempts} \subseteq Nat

VARIABLES
    caller,       \* where each call of RoundTripOpt, and the user after it, is
    retry,        \* the attempts each call has made
    writer,       \* where the doRequest goroutine of each call is
    err,          \* the error writeRequest returned, "nil" for none
    cs,           \* the clientStream of the current attempt
    ctx,          \* the calls whose context ended
    streams,      \* the calls whose stream is in cc.streams
    cc,           \* the other fields of the ClientConn guarded by mu
    env,          \* the scenario, which never changes
    reqHeaderMu,  \* the calls that hold it (at most one)
    tconn, werr,  \* whether the TCP connection is open; a write has failed
    reader,       \* readLoop: hello, run, stopped, done
    idleTimer,    \* {} when stopped; armed, firing or both
    shutdown,     \* Shutdown: no, send, check, asleep, done, failed
    settings,     \* SETTINGS frames received
    disowned,     \* the calls whose stream the server said it did not process
    highest,      \* the stream ID of the last HEADERS written
    rst           \* the calls whose stream was reset by RST_STREAM

vars == <<caller, retry, writer, err, cs, ctx, streams, cc, env, reqHeaderMu,
          tconn, werr, reader, idleTimer, shutdown,
          settings, disowned, highest, rst>>
callVars == <<caller, retry, ctx>>
netVars == <<tconn, werr>>
bgVars == <<reader, settings, idleTimer>>
ghostVars == <<disowned, highest, rst>>

Errors == {"nil", "ctx", "unusable", "goAway", "goAwayErr", "refused", "protoPeer",
           "peer", "proto", "conn", "timeout", "body", "bad", "closedBody", "write"}

\* A clientStream before its goroutine runs; abort and abortErr are one field,
\* and so are respHeaderRecv and res.Body.  endStream is what went out:
\* whether a frame of this side had END_STREAM.
NewStream ==
    [id |-> 0, abort |-> "nil", peerClosed |-> FALSE, readAborted |-> FALSE,
     res |-> "none", pipeClosed |-> FALSE, sentHeaders |-> FALSE,
     sentEndStream |-> FALSE, endStream |-> FALSE, reqBodyClosed |-> "no"]

StreamType ==
    [id : 0 .. MaxStreamID - 1, abort : Errors,
     peerClosed : BOOLEAN, readAborted : BOOLEAN,
     res : {"none", "noBody", "pipe"}, pipeClosed : BOOLEAN,
     sentHeaders : BOOLEAN, sentEndStream : BOOLEAN, endStream : BOOLEAN,
     reqBodyClosed : {"no", "closing", "closed"}]

ConnType ==
    [closed : BOOLEAN, closing : BOOLEAN, doNotReuse : BOOLEAN,
     goAway : Int, goAwayCode : {"none", "no", "error"},
     streamsReserved : Nat, nextStreamID : Nat, pendingRequests : Nat,
     maxConcurrentStreams : Nat]

CallerStates == {"idle", "select", "waitAbort", "waitDone", "cancel", "again",
                 "elsewhere", "failed", "reading", "closing", "finished"}
WriterStates == {"none", "start", "early", "await", "awake", "headers", "continue",
                 "body", "data", "flow", "wait", "waitEnd", "cleanup", "done"}

-----------------------------------------------------------------------------
(* Conditions and effects shared by several actions.                       *)

\* Mutant: the stream IDs are not counted.
lastStreamID_unchecked(c) == FALSE

\* Whether the stream IDs are used up, those of the waiting requests included.
lastStreamID(c) == c.nextStreamID + 2 * c.pendingRequests >= MaxStreamID

\* idleStateLocked().canTakeNewRequest; the wall-clock test tooIdleLocked is
\* left to the idle timer.
canTakeNewRequest(c) ==
    /\ ~(env.singleUse /\ c.nextStreamID > 1)
    /\ env.strict \/ Cardinality(streams) + c.streamsReserved + 1 <= c.maxConcurrentStreams
    /\ c.goAway = -1 /\ ~c.closed /\ ~c.closing /\ ~c.doNotReuse
    /\ ~lastStreamID(c)

decrStreamReservations(c) ==
    [c EXCEPT !.streamsReserved = IF @ > 0 THEN @ - 1 ELSE @]

\* cc.cond.Broadcast: the sleeping writers and Shutdown look again; wr gives
\* the writers after the step that broadcasts.
Broadcast(wr) ==
    /\ writer' = [r \in Calls |-> CASE wr[r] = "await" -> "awake"
                                    [] wr[r] = "flow"  -> "data"
                                    [] OTHER -> wr[r]]
    /\ shutdown' = IF shutdown = "asleep" THEN "check" ELSE shutdown

HasBody(r) == Body[r] # "none"

\* closeReqBodyLocked: another goroutine will close the body.
closeReqBody(r, s) ==
    [s EXCEPT !.reqBodyClosed = IF HasBody(r) /\ @ = "no" THEN "closing" ELSE @]

\* abortStreamLocked, without its Broadcast.
Aborted(r, s, e) ==
    closeReqBody(r, [s EXCEPT !.abort = IF @ = "nil" THEN e ELSE @])

abortStream(r, e, wr) ==
    /\ cs' = [cs EXCEPT ![r] = Aborted(r, @, e)]
    /\ Broadcast(wr)

\* A write on the connection; stickyErrWriter keeps the first error.
Write(ok) ==
    /\ ok  => ~werr /\ tconn
    /\ ~ok => werr \/ ~tconn \/ "write" \in env.events
    /\ werr' = ~ok

\* closeForError: the connection and all its streams end with e; d are the
\* streams in the map, s their state and wr the writers at that moment.
closeForError(e, d, s, wr) ==
    /\ cc' = [cc EXCEPT !.closed = TRUE]
    /\ cs' = [r \in Calls |-> IF r \in d THEN Aborted(r, s[r], e) ELSE s[r]]
    /\ Broadcast(wr)
    /\ tconn' = FALSE

-----------------------------------------------------------------------------
(* The caller: RoundTripOpt, ClientConn.roundTrip and the response body.   *)

CanRetryError(e) == e \in {"unusable", "goAway", "refused", "protoPeer"}

shouldRetryRequest(r, e) ==
    /\ CanRetryError(e)
    /\ Body[r] \in {"none", "getBody"} \/ e = "unusable"

\* What RoundTripOpt does with the error of cc.RoundTrip.
Failed(r, e) ==
    /\ caller' = [caller EXCEPT ![r] = IF retry[r] <= RetryLimit + 1 /\ shouldRetryRequest(r, e)
                                       THEN "again" ELSE "failed"]
    /\ UNCHANGED retry

\* GetClientConn reserves a stream and roundTrip starts the writer, or it finds
\* or dials another connection.  A further attempt here waits for the goroutine
\* of the one before, whose name it takes over.
RoundTripOpt(r) ==
    /\ caller[r] \in {"idle", "again"} /\ r \in env.calls
    /\ \/ /\ writer[r] \in {"none", "done"} /\ retry[r] < MaxAttempts
          /\ canTakeNewRequest(cc)
          /\ cc' = [cc EXCEPT !.streamsReserved = @ + 1]
          /\ caller' = [caller EXCEPT ![r] = "select"]
          /\ retry' = [retry EXCEPT ![r] = @ + 1]
          /\ writer' = [writer EXCEPT ![r] = "start"]
          /\ cs' = [cs EXCEPT ![r] = NewStream]
          /\ err' = [err EXCEPT ![r] = "nil"]
          /\ disowned' = disowned \ {r} /\ rst' = rst \ {r}
       \/ /\ ~canTakeNewRequest(cc) \/ caller[r] = "again"
          /\ caller' = [caller EXCEPT ![r] = "elsewhere"]
          /\ UNCHANGED <<cc, retry, writer, cs, err, disowned, rst>>
    /\ UNCHANGED <<ctx, streams, env, reqHeaderMu, netVars, bgVars, shutdown, highest>>

\* The context ends during the wait before the second and later retries.
backoffCanceled(r) ==
    /\ caller[r] = "again" /\ retry[r] > 1 /\ r \in ctx
    /\ caller' = [caller EXCEPT ![r] = "failed"]
    /\ UNCHANGED <<retry, writer, err, cs, ctx, streams, cc, env, reqHeaderMu, netVars,
                   bgVars, shutdown, ghostVars>>

\* handleResponseHeaders: a status above 299 stops the upload; without any
\* body the caller waits for the stream to end.
handleResponseHeaders(r) ==
    /\ caller[r] = "select" /\ cs[r].res # "none"
    /\ \/ UNCHANGED <<cs, writer, shutdown>>
       \/ /\ HasBody(r) /\ cs[r].reqBodyClosed = "no"       \* abortRequestBodyWrite
          /\ cs' = [cs EXCEPT ![r] = closeReqBody(r, @)]
          /\ Broadcast(writer)
    /\ caller' = [caller EXCEPT ![r] = CASE cs[r].res = "pipe" -> "reading"
                                         [] HasBody(r) -> "finished"
                                         [] OTHER -> "waitDone"]
    /\ UNCHANGED <<retry, ctx, err, streams, cc, env, reqHeaderMu, netVars, bgVars, ghostVars>>

\* waitDone after a response without a body, or after an abort.
waitDone(r) ==
    /\ \/ /\ caller[r] = "select" /\ cs[r].abort # "nil" /\ cs[r].res = "none"
          /\ caller' = [caller EXCEPT ![r] = "waitAbort"]
          /\ UNCHANGED retry
       \/ /\ caller[r] = "waitAbort" /\ (writer[r] = "done" \/ r \in ctx)
          /\ Failed(r, cs[r].abort)
       \/ /\ caller[r] = "waitDone" /\ writer[r] = "done"
          /\ caller' = [caller EXCEPT ![r] = "finished"]
          /\ UNCHANGED retry
       \/ /\ caller[r] = "waitDone" /\ r \in ctx
          /\ Failed(r, "ctx")
    /\ UNCHANGED <<writer, err, cs, ctx, streams, cc, env, reqHeaderMu, netVars,
                   bgVars, shutdown, ghostVars>>

\* Mutant: waits for the body to be closed when there is none.
bodyClosed_always(r) == cs[r].reqBodyClosed = "closed"

\* What cancelRequest waits for.
bodyClosed(r) == cs[r].reqBodyClosed # "closing"

\* The context ends while the caller waits: abort, then wait for the body.
cancelRequest(r) ==
    /\ \/ /\ caller[r] = "select" /\ r \in ctx
          /\ caller' = [caller EXCEPT ![r] = "cancel"]
          /\ abortStream(r, "ctx", writer)
          /\ UNCHANGED retry
       \/ /\ caller[r] = "cancel" /\ bodyClosed(r)
          /\ Failed(r, "ctx")
          /\ UNCHANGED <<cs, writer, shutdown>>
    /\ UNCHANGED <<ctx, err, streams, cc, env, reqHeaderMu, netVars, bgVars, ghostVars>>

\* transportResponseBody.Close, by a user who stops early or has read to the
\* end; it waits for the writer unless the context ended.
CloseBody(r) ==
    /\ \/ /\ caller[r] = "reading"
          /\ caller' = [caller EXCEPT ![r] = "closing"]
          /\ cs' = [cs EXCEPT ![r] = Aborted(r, [@ EXCEPT !.pipeClosed = TRUE], "closedBody")]
          /\ Broadcast(writer)
       \/ /\ caller[r] = "closing" /\ (writer[r] = "done" \/ r \in ctx)
          /\ caller' = [caller EXCEPT ![r] = "finished"]
          /\ UNCHANGED <<cs, writer, shutdown>>
    /\ UNCHANGED <<retry, ctx, err, streams, cc, env, reqHeaderMu, netVars, bgVars, ghostVars>>

\* The goroutine of closeReqBodyLocked.
reqBodyClose(r) ==
    /\ cs[r].reqBodyClosed = "closing"
    /\ cs' = [cs EXCEPT ![r].reqBodyClosed = "closed"]
    /\ UNCHANGED <<callVars, writer, err, streams, cc, env, reqHeaderMu, netVars, bgVars,
                   shutdown, ghostVars>>

-----------------------------------------------------------------------------
(* The writer: doRequest, writeRequest and cleanupWriteRequest.            *)

\* writeRequest returns e.
Return(r, e) ==
    /\ err' = [err EXCEPT ![r] = e]
    /\ writer' = [writer EXCEPT ![r] = "cleanup"]

\* It returns before a stream was created; c is cc at that moment.
ReturnEarly(r, e, c) ==
    /\ err' = [err EXCEPT ![r] = e]
    /\ writer' = [writer EXCEPT ![r] = "early"]
    /\ cc' = c
    /\ reqHeaderMu' = reqHeaderMu \ {r}
    /\ UNCHANGED <<cs, streams>>

\* Mutant: a request that fails before it has a stream keeps its reservation.
Unreserved_kept == cc

\* cleanupWriteRequest without a stream first returns the reservation, also
\* when writeRequest had already turned it in.
Unreserved == decrStreamReservations(cc)

returnReservation(r) ==
    /\ writer[r] = "early"
    /\ writer' = [writer EXCEPT ![r] = "cleanup"]
    /\ cc' = Unreserved
    /\ UNCHANGED <<callVars, err, cs, streams, env, reqHeaderMu, netVars, bgVars, shutdown,
                   ghostVars>>

\* Mutant: the lock is given up before the HEADERS are written.
addStream_unlock(r, c) ==
    /\ cs' = [cs EXCEPT ![r].id = c.nextStreamID]
    /\ cc' = [c EXCEPT !.nextStreamID = @ + 2,
                       !.doNotReuse = @ \/ r \in CloseCalls]
    /\ streams' = streams \cup {r}
    /\ writer' = [writer EXCEPT ![r] = "headers"]
    /\ reqHeaderMu' = {}
    /\ UNCHANGED err

\* addStreamLocked and the doNotReuse mark of a Connection: close request; the
\* new-request lock stays held.
addStream(r, c) ==
    /\ cs' = [cs EXCEPT ![r].id = c.nextStreamID]
    /\ cc' = [c EXCEPT !.nextStreamID = @ + 2,
                       !.doNotReuse = @ \/ r \in CloseCalls]
    /\ streams' = streams \cup {r}
    /\ writer' = [writer EXCEPT ![r] = "headers"]
    /\ reqHeaderMu' = {r}
    /\ UNCHANGED err

\* One round of awaitOpenSlotForStreamLocked, c being cc at its start.
openSlot(r, c) ==
    \/ ~canTakeNewRequest(c) /\ ReturnEarly(r, "unusable", c)
    \/ /\ canTakeNewRequest(c) /\ Cardinality(streams) < c.maxConcurrentStreams
       /\ addStream(r, c)
    \/ /\ canTakeNewRequest(c) /\ Cardinality(streams) >= c.maxConcurrentStreams
       /\ cc' = [c EXCEPT !.pendingRequests = @ + 1]
       /\ writer' = [writer EXCEPT ![r] = "await"]
       /\ reqHeaderMu' = {r}
       /\ UNCHANGED <<err, cs, streams>>

\* writeRequest takes the new-request lock, which covers the choice of the
\* stream ID and the HEADERS frame, and turns the reservation into a stream.
openStream(r) ==
    /\ writer[r] = "start"
    /\ \/ /\ \/ "request" \in env.events /\ ReturnEarly(r, "bad", cc)     \* checkConnHeaders
             \/ r \in ctx /\ ReturnEarly(r, "ctx", cc)
          /\ UNCHANGED idleTimer
       \/ /\ reqHeaderMu = {}
          /\ idleTimer' = idleTimer \ {"armed"}
          /\ openSlot(r, decrStreamReservations(cc))
    /\ UNCHANGED <<callVars, env, netVars, reader, settings, shutdown, ghostVars>>

\* A writer that waited for a slot was woken.
awaitOpenSlot(r) ==
    /\ writer[r] = "awake"
    /\ LET c == [cc EXCEPT !.pendingRequests = @ - 1] IN
       \/ cs[r].abort # "nil" /\ ReturnEarly(r, cs[r].abort, c)
       \/ cs[r].abort = "nil" /\ openSlot(r, c)
    /\ UNCHANGED <<callVars, env, netVars, bgVars, shutdown, ghostVars>>

\* encodeAndWriteHeaders, then the new-request lock is released.  Without a
\* body writeRequest takes the stream for ended, but a Trailer has kept
\* END_STREAM off the HEADERS, and no trailers follow.
encodeAndWriteHeaders(r) ==
    /\ writer[r] = "headers"
    /\ reqHeaderMu' = {}
    /\ \/ /\ \/ cs[r].abort # "nil" /\ Return(r, cs[r].abort)
             \/ r \in ctx /\ Return(r, "ctx")
             \/ /\ cs[r].abort = "nil" /\ r \notin ctx
                /\ "request" \in env.events /\ Return(r, "bad")
          /\ UNCHANGED <<cs, werr, highest>>
       \/ /\ cs[r].abort = "nil" /\ r \notin ctx
          /\ highest' = cs[r].id
          /\ \/ /\ Write(FALSE) /\ Return(r, "write")
                /\ cs' = [cs EXCEPT ![r].sentHeaders = TRUE]
             \/ /\ Write(TRUE)
                /\ cs' = [cs EXCEPT ![r].sentHeaders = TRUE, ![r].sentEndStream = ~HasBody(r),
                                    ![r].endStream = ~HasBody(r) /\ r \notin Trailers]
                /\ writer' = [writer EXCEPT ![r] = IF HasBody(r) THEN "continue" ELSE "wait"]
                /\ UNCHANGED err
    /\ UNCHANGED <<callVars, streams, cc, env, tconn, bgVars, shutdown, disowned,
                   rst>>

\* The wait for 100-continue, whose timer may end it at any time.
awaitContinue(r) ==
    /\ writer[r] = "continue"
    /\ \/ writer' = [writer EXCEPT ![r] = "body"] /\ UNCHANGED err
       \/ cs[r].abort # "nil" /\ Return(r, cs[r].abort)
       \/ r \in ctx /\ Return(r, "ctx")
    /\ UNCHANGED <<callVars, cs, streams, cc, env, reqHeaderMu, netVars, bgVars, shutdown,
                   ghostVars>>

\* A frame of the request body with END_STREAM.
sendEndStream(r) ==
    \/ /\ Write(TRUE)
       /\ cs' = [cs EXCEPT ![r].sentEndStream = TRUE, ![r].endStream = TRUE]
       /\ writer' = [writer EXCEPT ![r] = "wait"]
       /\ UNCHANGED err
    \/ Write(FALSE) /\ Return(r, "write") /\ UNCHANGED cs

\* body.Read in writeRequestBody: data, the end, or an error.
readRequestBody(r) ==
    /\ writer[r] = "body"
    /\ \/ /\ writer' = [writer EXCEPT ![r] = "data"]
          /\ UNCHANGED <<err, cs, werr>>
       \/ /\ cs[r].reqBodyClosed # "no"             \* errStopReqBodyWrite
          /\ writer' = [writer EXCEPT ![r] = "wait"]
          /\ UNCHANGED <<err, cs, werr>>
       \/ "request" \in env.events /\ Return(r, "body") /\ UNCHANGED <<cs, werr>>
       \/ cs[r].reqBodyClosed = "no" /\ cs[r].abort = "nil" /\ sendEndStream(r)
       \/ /\ cs[r].reqBodyClosed = "no" /\ cs[r].abort # "nil" /\ Return(r, cs[r].abort)
          /\ UNCHANGED <<cs, werr>>
    /\ UNCHANGED <<callVars, streams, cc, env, reqHeaderMu, tconn, bgVars, shutdown, ghostVars>>

\* awaitFlowControl and the DATA frame.
awaitFlowControl(r) ==
    /\ writer[r] = "data"
    /\ \/ cc.closed /\ Return(r, "conn") /\ UNCHANGED <<cs, werr>>
       \/ /\ ~cc.closed /\ cs[r].reqBodyClosed # "no"
          /\ writer' = [writer EXCEPT ![r] = "wait"]
          /\ UNCHANGED <<err, cs, werr>>
       \/ /\ ~cc.closed /\ cs[r].reqBodyClosed = "no"
          /\ \/ cs[r].abort # "nil" /\ Return(r, cs[r].abort) /\ UNCHANGED <<cs, werr>>
             \/ r \in ctx /\ Return(r, "ctx") /\ UNCHANGED <<cs, werr>>
             \/ /\ cs[r].abort = "nil" /\ r \notin ctx
                /\ \/ /\ writer' = [writer EXCEPT ![r] = "flow"]
                      /\ UNCHANGED <<err, cs, werr>>
                   \/ /\ Write(TRUE)
                      /\ writer' = [writer EXCEPT ![r] = "body"]
                      /\ UNCHANGED <<err, cs>>
                   \/ sendEndStream(r)
    /\ UNCHANGED <<callVars, streams, cc, env, reqHeaderMu, tconn, bgVars, shutdown,
                   ghostVars>>

\* The last loop of writeRequest.
awaitPeer(r) ==
    /\ \/ /\ writer[r] \in {"wait", "waitEnd"}
          /\ \/ cs[r].peerClosed /\ Return(r, "nil")
             \/ cs[r].abort # "nil" /\ Return(r, cs[r].abort)
             \/ r \in ctx /\ Return(r, "ctx")
       \/ /\ writer[r] = "wait" /\ env.headerTimeout
          /\ \/ Return(r, "timeout")
             \/ /\ cs[r].res # "none"
                /\ writer' = [writer EXCEPT ![r] = "waitEnd"]
                /\ UNCHANGED err
    /\ UNCHANGED <<callVars, cs, streams, cc, env, reqHeaderMu, netVars, bgVars, shutdown,
                   ghostVars>>

\* Mutant: an upload that was stopped without an error is not reset.
mustReset_onError(r, e) ==
    cs[r].sentHeaders /\ e \notin {"nil", "refused", "protoPeer", "peer"}

\* Whether cleanupWriteRequest sends RST_STREAM for the error e.
mustReset(r, e) ==
    /\ cs[r].sentHeaders
    /\ IF e = "nil" THEN ~cs[r].sentEndStream
                    ELSE e \notin {"refused", "protoPeer", "peer"}

\* forgetStreamID, with the streams d left, arms the idle timer and closes a
\* connection that must not be reused; its Broadcast is the caller's.
forgetStreamID(d) ==
    /\ streams' = d
    /\ idleTimer' = IF d = {} /\ env.idleTimeout THEN idleTimer \cup {"armed"} ELSE idleTimer

closeOnIdle(d) ==
    /\ env.singleUse \/ cc.doNotReuse \/ cc.goAway # -1
    /\ cc.streamsReserved = 0 /\ d = {}

\* Mutant: the body is left to a goroutine that no abort has started.
Released_open(r, e) ==
    [cs[r] EXCEPT !.pipeClosed = TRUE, !.abort = IF @ = "nil" THEN e ELSE @]

\* The stream at the end of cleanupWriteRequest, for the error e.
Released(r, e) ==
    [cs[r] EXCEPT !.pipeClosed = TRUE,
                  !.reqBodyClosed = IF HasBody(r) THEN "closed" ELSE @,
                  !.abort = IF @ = "nil" THEN e ELSE @]

\* Mutant: forgetStreamID wakes nobody.
Done_silent(r) ==
    writer' = [writer EXCEPT ![r] = "done"] /\ UNCHANGED shutdown

\* The goroutine ends; forgetStreamID and abortStream have woken the sleepers.
Done(r) == Broadcast([writer EXCEPT ![r] = "done"])

\* cleanupWriteRequest: the request body is closed here or already was; abort
\* if the request failed (a stream that both sides ended has not), reset, end
\* the response body, forget the stream; a write error closes the connection;
\* donec is closed.
cleanupWriteRequest(r) ==
    /\ writer[r] = "cleanup" /\ cs[r].reqBodyClosed # "closing"
    /\ LET d == streams \ {r}
           e == IF cs[r].sentEndStream /\ cs[r].peerClosed THEN "nil" ELSE err[r]
           s == [cs EXCEPT ![r] = Released(r, e)] IN
       /\ IF mustReset(r, e) THEN rst' = rst \cup {r} /\ \E ok \in BOOLEAN : Write(ok)
                             ELSE UNCHANGED <<rst, werr>>
       /\ IF cs[r].id # 0 THEN forgetStreamID(d) ELSE UNCHANGED <<streams, idleTimer>>
       /\ IF werr' THEN closeForError("conn", d, s, [writer EXCEPT ![r] = "done"])
          ELSE LET close == cs[r].id # 0 /\ closeOnIdle(d) IN
               /\ cs' = s
               /\ cc' = [cc EXCEPT !.closed = @ \/ close]
               /\ tconn' = (tconn /\ ~close)
               /\ Done(r)
    /\ err' = [err EXCEPT ![r] = "nil"]
    /\ UNCHANGED <<callVars, env, reqHeaderMu, reader, settings, disowned, highest>>

-----------------------------------------------------------------------------
(* The read loop.                                                          *)

\* streamByID finds the stream of r, and the server knows it and has not
\* reset it.
Live(r) ==
    /\ reader = "run" /\ r \in streams /\ ~cs[r].readAborted
    /\ cs[r].sentHeaders /\ r \notin rst

\* A frame that breaks the protocol ends its stream.
endStreamError(r, e) ==
    /\ cs' = [cs EXCEPT ![r] = Aborted(r, [@ EXCEPT !.readAborted = TRUE], e)]
    /\ Broadcast(writer)

\* endStream: the peer half-closed the stream.
Ended(s) == [s EXCEPT !.peerClosed = TRUE, !.pipeClosed = TRUE]

\* A ConnectionError or a read error ends the loop.
stopReader == reader' = "stopped" /\ UNCHANGED <<cs, writer, shutdown>>

\* processHeaders: the response, its trailers, or something malformed; an
\* informational response changes nothing here.
processHeaders(r) ==
    /\ Live(r)
    /\ \/ /\ ~cs[r].peerClosed /\ cs[r].res = "none"
          /\ \E end \in BOOLEAN :
                LET s == [cs[r] EXCEPT !.res = IF end \/ r \in Heads THEN "noBody" ELSE "pipe"]
                IN  cs' = [cs EXCEPT ![r] = IF end THEN Ended(s) ELSE s]
          /\ UNCHANGED <<reader, writer, shutdown>>
       \/ /\ ~cs[r].peerClosed /\ cs[r].res # "none"        \* processTrailers
          /\ cs' = [cs EXCEPT ![r] = Ended(@)]
          /\ UNCHANGED <<reader, writer, shutdown>>
       \/ /\ "peer" \in env.events
          /\ cs[r].peerClosed \/ cs[r].res = "none"
          /\ endStreamError(r, "proto")
          /\ UNCHANGED reader
       \/ /\ "peer" \in env.events
          /\ ~cs[r].peerClosed /\ cs[r].res # "none"
          /\ stopReader
    /\ UNCHANGED <<callVars, err, streams, cc, env, reqHeaderMu, netVars, settings, idleTimer,
                   ghostVars>>

\* processData: the last frame, or one that cannot be accepted.
processData(r) ==
    /\ Live(r)
    /\ \/ /\ ~cs[r].peerClosed /\ cs[r].res # "none"
          /\ \/ cs' = [cs EXCEPT ![r] = Ended(@)] /\ UNCHANGED <<writer, shutdown>>
             \/ cs[r].pipeClosed /\ endStreamError(r, "proto")    \* errClosedPipeWrite
       \/ /\ "peer" \in env.events
          /\ cs[r].peerClosed \/ cs[r].res = "none"
          /\ endStreamError(r, "proto")
    /\ UNCHANGED <<callVars, err, streams, cc, env, reqHeaderMu, netVars, bgVars, ghostVars>>

\* processResetStream; REFUSED_STREAM says that the stream was not processed.
processResetStream(r, e) ==
    /\ "reset" \in env.events /\ Live(r)
    /\ rst' = rst \cup {r}
    /\ disowned' = IF e = "refused" THEN disowned \cup {r} ELSE disowned
    /\ cc' = [cc EXCEPT !.doNotReuse = @ \/ e = "protoPeer"]
    /\ cs' = [cs EXCEPT ![r] = Aborted(r, [@ EXCEPT !.pipeClosed = TRUE], e)]
    /\ Broadcast(writer)
    /\ UNCHANGED <<callVars, err, streams, env, reqHeaderMu, netVars, bgVars, highest>>

\* Mutant: the last stream the server processed counts as unprocessed.
Unprocessed_last(last) == {r \in streams : cs[r].id >= last}

\* The streams that setGoAway aborts.
Unprocessed(last) == {r \in streams : cs[r].id > last}

\* processGoAway and setGoAway; streams above the last ID were not processed,
\* and a further GOAWAY does not raise it.
processGoAway(last, code) ==
    /\ "goAway" \in env.events /\ reader = "run"
    /\ cc.goAway = -1 \/ last <= cc.goAway
    /\ disowned' = disowned \cup {r \in Calls : cs[r].id > last}
    /\ LET c == IF cc.goAwayCode = "error" THEN "error" ELSE code
           e(r) == IF cs[r].id = 1 /\ c # "no" THEN "goAwayErr" ELSE "goAway" IN
       /\ cc' = [cc EXCEPT !.goAway = last, !.goAwayCode = c]
       /\ cs' = [r \in Calls |-> IF r \in Unprocessed(last)
                                 THEN Aborted(r, cs[r], e(r)) ELSE cs[r]]
       /\ IF Unprocessed(last) # {}
          THEN Broadcast(writer) ELSE UNCHANGED <<writer, shutdown>>
    /\ UNCHANGED <<callVars, err, streams, env, reqHeaderMu, netVars, bgVars, highest, rst>>

\* processSettings: a new stream limit, and maybe new windows, which wake the
\* sleepers.
processSettings(limit, windows) ==
    /\ reader \in {"hello", "run"} /\ settings < MaxSettings
    /\ reader' = "run" /\ settings' = settings + 1
    /\ cc' = [cc EXCEPT !.maxConcurrentStreams = limit]
    /\ IF windows THEN Broadcast(writer) ELSE UNCHANGED <<writer, shutdown>>
    /\ \E ok \in BOOLEAN : Write(ok)                \* the SETTINGS ack
    /\ UNCHANGED <<callVars, err, cs, streams, env, reqHeaderMu, tconn, idleTimer, ghostVars>>

\* processWindowUpdate wakes the writers that wait for a window.
processWindowUpdate ==
    /\ reader = "run" /\ \E r \in Calls : writer[r] = "flow"
    /\ Broadcast(writer)
    /\ UNCHANGED <<callVars, err, cs, streams, cc, env, reqHeaderMu, netVars, bgVars, ghostVars>>

\* processPing cannot answer: a write error ends the loop.
processPing ==
    /\ reader = "run" /\ Write(FALSE)
    /\ stopReader
    /\ UNCHANGED <<callVars, err, streams, cc, env, reqHeaderMu, tconn, settings, idleTimer,
                   ghostVars>>

\* ReadFrame fails: the peer closed the connection, or this side did.
readError ==
    /\ reader \in {"hello", "run"}
    /\ "eof" \in env.events \/ ~tconn
    /\ stopReader
    /\ UNCHANGED <<callVars, err, streams, cc, env, reqHeaderMu, netVars, settings, idleTimer,
                   ghostVars>>

\* Mutant: only the requests without a response are ended.
cutOff_waiting == {r \in streams : cs[r].res = "none"}

\* The streams the read loop ends: those the peer had ended are left alone.
cutOff == {r \in streams : ~cs[r].peerClosed}

\* clientConnReadLoop.cleanup.
readLoopCleanup ==
    /\ reader = "stopped" /\ reader' = "done"
    /\ closeForError("conn", cutOff, cs, writer)
    /\ idleTimer' = idleTimer \ {"armed"}
    /\ UNCHANGED <<callVars, err, streams, env, reqHeaderMu, werr, settings, ghostVars>>

-----------------------------------------------------------------------------
(* Shutdown, the idle timer, the health check, the server, the contexts.   *)

\* Shutdown: sendGoAway under mu, then under wmu, then the waiting goroutine.
Shutdown ==
    /\ "shutdown" \in env.events
    /\ \/ /\ shutdown = "no" /\ shutdown' = "send"
          /\ cc' = [cc EXCEPT !.closing = TRUE]
          /\ UNCHANGED <<tconn, werr>>
       \/ /\ shutdown = "send"
          /\ \/ Write(TRUE) /\ shutdown' = "check"
             \/ Write(FALSE) /\ shutdown' = "failed"
          /\ UNCHANGED <<cc, tconn>>
       \/ /\ shutdown = "check"
          /\ IF streams = {} \/ cc.closed
             THEN /\ shutdown' = "done" /\ tconn' = FALSE
                  /\ cc' = [cc EXCEPT !.closed = TRUE]
             ELSE shutdown' = "asleep" /\ UNCHANGED <<cc, tconn>>
          /\ UNCHANGED werr
       \/ /\ shutdown \in {"check", "asleep"} /\ shutdown' = "failed"   \* its context ended
          /\ cc' = [cc EXCEPT !.closed = @ \/ streams = {}]
          /\ UNCHANGED <<tconn, werr>>
    /\ UNCHANGED <<callVars, writer, err, cs, streams, env, reqHeaderMu, bgVars, ghostVars>>

closeIfIdle ==
    IF streams # {} \/ cc.streamsReserved > 0
    THEN UNCHANGED <<cc, tconn>>
    ELSE cc' = [cc EXCEPT !.closed = TRUE] /\ tconn' = FALSE

\* The timer fires and its goroutine then runs closeIfIdle, or the user calls
\* CloseIdleConnections.
onIdleTimeout ==
    /\ \/ /\ "armed" \in idleTimer
          /\ idleTimer' = (idleTimer \ {"armed"}) \cup {"firing"}
          /\ UNCHANGED <<cc, tconn>>
       \/ /\ "firing" \in idleTimer /\ idleTimer' = idleTimer \ {"firing"}
          /\ closeIfIdle
       \/ "closeIdle" \in env.events /\ closeIfIdle /\ UNCHANGED idleTimer
    /\ UNCHANGED <<callVars, writer, err, cs, streams, env, reqHeaderMu, werr, reader, settings,
                   shutdown, ghostVars>>

\* healthCheck: the ping is not answered, closeForLostPing.
lostPing ==
    /\ "ping" \in env.events
    /\ closeForError("conn", streams, cs, writer)
    /\ UNCHANGED <<callVars, err, streams, env, reqHeaderMu, werr, bgVars, ghostVars>>

\* The context of a call ends.
cancel(r) ==
    /\ "cancel" \in env.events /\ r \notin ctx
    /\ caller[r] \notin {"idle", "elsewhere", "failed", "finished"}
    /\ ctx' = ctx \cup {r}
    /\ UNCHANGED <<caller, retry, writer, err, cs, streams, cc, env, reqHeaderMu, netVars,
                   bgVars, shutdown, ghostVars>>

-----------------------------------------------------------------------------

Init ==
    /\ env \in Scenarios
    /\ caller = [r \in Calls |-> "idle"] /\ retry = [r \in Calls |-> 0]
    /\ writer = [r \in Calls |-> "none"] /\ err = [r \in Calls |-> "nil"]
    /\ cs = [r \in Calls |-> NewStream] /\ ctx = {} /\ streams = {}
    /\ cc = [closed |-> FALSE, closing |-> FALSE, doNotReuse |-> FALSE,
             goAway |-> -1, goAwayCode |-> "none", streamsReserved |-> 0,
             nextStreamID |-> 1, pendingRequests |-> 0,
             maxConcurrentStreams |-> env.initialMax]
    /\ reqHeaderMu = {}
    /\ tconn = TRUE /\ werr = FALSE /\ reader = "hello"
    /\ idleTimer = IF env.idleTimeout THEN {"armed"} ELSE {}
    /\ shutdown = "no"
    /\ settings = 0 /\ disowned = {} /\ highest = 0 /\ rst = {}

\* The steps of a call's goroutines that need nothing from outside.
callerStep(r) ==
    \/ handleResponseHeaders(r) \/ waitDone(r) \/ cancelRequest(r) \/ reqBodyClose(r)
    \/ backoffCanceled(r)

writerStep(r) ==
    \/ openStream(r) \/ awaitOpenSlot(r) \/ returnReservation(r) \/ encodeAndWriteHeaders(r)
    \/ awaitContinue(r) \/ readRequestBody(r) \/ awaitFlowControl(r) \/ awaitPeer(r)
    \/ cleanupWriteRequest(r)

frame(r) ==
    \/ processHeaders(r) \/ processData(r)
    \/ \E e \in {"refused", "protoPeer", "peer"} : processResetStream(r, e)

connStep ==
    \/ \E last \in {0} \cup {cs[r].id : r \in Calls}, code \in {"no", "error"} :
          processGoAway(last, code)
    \/ \E limit \in env.limits, windows \in BOOLEAN : processSettings(limit, windows)
    \/ processWindowUpdate \/ processPing \/ readError \/ readLoopCleanup
    \/ Shutdown \/ onIdleTimeout \/ lostPing

Next ==
    \/ \E r \in Calls :
          \/ RoundTripOpt(r) \/ CloseBody(r) \/ callerStep(r) \/ writerStep(r)
          \/ frame(r) \/ cancel(r)
    \/ connStep

Spec == Init /\ [][Next]_vars

\* Goroutines that can run do run, a Read of the request body returns, users
\* close the response body after its end, and a closed connection is noticed.
Fairness ==
    /\ \A r \in Calls :
          /\ WF_vars(callerStep(r)) /\ WF_vars(writerStep(r))
          /\ WF_vars(caller[r] = "again" /\ RoundTripOpt(r))
          /\ WF_vars((caller[r] = "closing" \/ cs[r].pipeClosed) /\ CloseBody(r))
    /\ WF_vars(~tconn /\ readError) /\ WF_vars(readLoopCleanup)
    /\ WF_vars(shutdown \in {"send", "check"} /\ Shutdown)

FairSpec == Spec /\ Fairness

-----------------------------------------------------------------------------
(* Properties.                                                             *)

TypeOK ==
    /\ caller \in [Calls -> CallerStates] /\ retry \in [Calls -> 0 .. RetryLimit + 2]
    /\ writer \in [Calls -> WriterStates] /\ err \in [Calls -> Errors]
    /\ cs \in [Calls -> StreamType] /\ ctx \subseteq Calls /\ streams \subseteq Calls
    /\ cc \in ConnType /\ env \in Scenarios
    /\ reqHeaderMu \subseteq Calls /\ \A r, q \in reqHeaderMu : r = q
    /\ tconn \in BOOLEAN /\ werr \in BOOLEAN
    /\ reader \in {"hello", "run", "stopped", "done"}
    /\ idleTimer \subseteq {"armed", "firing"}
    /\ shutdown \in {"no", "send", "check", "asleep", "done", "failed"}
    /\ settings \in 0 .. MaxSettings /\ disowned \subseteq Calls
    /\ highest \in 0 .. MaxStreamID - 1 /\ rst \subseteq Calls

\* The calls that made a reservation and have not turned it into a stream.
Holders == {r \in Calls : writer[r] \in {"start", "early"}}

\* Every exit of writeRequest gives its reservation back (streamsReserved): a
\* leaked one would keep the connection from ever being idle or used fully.
ReservationsHeld == cc.streamsReserved <= Cardinality(Holders)

\* HEADERS leave in the order of their stream IDs, as HTTP/2 demands, although
\* the ID is chosen under mu and the frame written under wmu.
OpenInOrder ==
    [][\A r \in Calls : ~cs[r].sentHeaders /\ cs'[r].sentHeaders => cs[r].id > highest]_vars

\* RoundTripOpt repeats a request only if the server has not processed it: it
\* said so with REFUSED_STREAM or a GOAWAY below the stream, or no HEADERS were
\* sent.  A PROTOCOL_ERROR from the peer is the one exception of CanRetryError.
RetryUnprocessed ==
    \A r \in Calls : caller[r] = "again" =>
        r \in disowned \/ ~cs[r].sentHeaders \/ cs[r].abort = "protoPeer"

\* When the goroutine of a request ends, its body has been closed, whichever
\* of abort, upload and cleanup did it (the contract of a RoundTripper).
BodyReleased ==
    \A r \in Calls : writer[r] = "done" /\ HasBody(r) => cs[r].reqBodyClosed = "closed"

\* The request of r announces a Trailer and has no body: its END_STREAM is
\* never sent.
NeverEnded(r) == ~HasBody(r) /\ r \in Trailers

\* A stream this side forgets is over for the peer as well: both sides ended
\* it, or one of them reset it.  The exception is a request that is never
\* ended, if the peer ends its side: sentEndStream says otherwise, so
\* cleanupWriteRequest sends no reset.
NoHalfOpenStream ==
    \A r \in Calls :
        writer[r] = "done" /\ cs[r].sentHeaders =>
            \/ cs[r].peerClosed /\ (cs[r].endStream \/ NeverEnded(r))
            \/ r \in rst

\* A writer asleep in awaitOpenSlotForStreamLocked has a stream to wait for,
\* whose removal will wake it.  (With a limit of zero it waits for SETTINGS.)
WaiterHasWaker ==
    env.initialMax > 0 /\ 0 \notin env.limits =>
        \A r \in Calls : writer[r] = "await" => streams # {}

Returned == {"elsewhere", "failed", "reading", "closing", "finished"}

\* What must hold in the end (neither an end of a context nor a return is
\* taken back).  A caller whose context ended has left RoundTrip, whatever its
\* writer waits for.
CanceledReturned == \A r \in ctx : caller[r] \in Returned

\* When the read loop has ended, every writer has finished, no caller and no
\* reader of a response body stays blocked; and Shutdown does not overlook
\* that the last stream is gone.
LossReleased ==
    /\ reader = "done" =>
        \A r \in Calls : /\ writer[r] \in {"none", "done"}
                         /\ caller[r] \in {"idle", "elsewhere", "failed", "finished"}
    /\ streams = {} => shutdown \notin {"check", "asleep"}

\* The context of a request also ends the reading of its response.
TimeoutEndsRead ==
    \A r \in Calls : r \in ctx /\ caller[r] = "reading" ~> caller[r] # "reading"
=============================================================================
