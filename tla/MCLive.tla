------------------------------- MODULE MCLive -------------------------------
(***************************************************************************)
(* What must happen in the end, of five components: the HTTP/1 pool, an    *)
(* HTTP/2 connection, the HTTP/1 exchange, an HTTP/3 connection and the    *)
(* parallel download.  A behaviour is one of the component that part       *)
(* names; the others stay in an initial state.                             *)
(***************************************************************************)
EXTENDS Integers, Sequences, FiniteSets

CONSTANT Parts   \* the components explored

VARIABLES
    part,
    pCaller, pDone, pResult, pHeld, pDialer, pDialCanceled, pConn, pAlt, pReused,
    pReader, pPut, pIdleConn, pIdleLRU, pIdleConnWait, pCloseIdle, pConnsPerHost,
    pConnsPerHostWait, pDialsInProgress, pExpiring, pCloser, pDoomed, pCloseCalls,
    pPanics,
    hCaller, hRetry, hWriter, hErr, hCs, hCtx, hStreams, hCc, hEnv, hReqHeaderMu,
    hTconn, hWerr, hReader, hIdleTimer, hShutdown, hSettings, hDisowned, hHighest, hRst,
    xEnv, xReq, xConn, xNet, xHandled, xMixed,
    qEnv, qConn, qStr, qCancel, qDgram,
    dSize, dMain, dStart, dNext, dResult, dPc, dTask, dTaskMap, dNotify, dErrCh, dDone,
    dWg, dWaiter, dPanicked, dFiles, dTempDir, dCleaned, dOutput, dReported

poolVars ==
    <<pCaller, pDone, pResult, pHeld, pDialer, pDialCanceled, pConn, pAlt, pReused,
      pReader, pPut, pIdleConn, pIdleLRU, pIdleConnWait, pCloseIdle, pConnsPerHost,
      pConnsPerHostWait, pDialsInProgress, pExpiring, pCloser, pDoomed, pCloseCalls,
      pPanics>>
h2Vars ==
    <<hCaller, hRetry, hWriter, hErr, hCs, hCtx, hStreams, hCc, hEnv, hReqHeaderMu,
      hTconn, hWerr, hReader, hIdleTimer, hShutdown, hSettings, hDisowned, hHighest,
      hRst>>
exVars ==
    <<xEnv, xReq, xConn, xNet, xHandled, xMixed>>
h3Vars ==
    <<qEnv, qConn, qStr, qCancel, qDgram>>
dlVars ==
    <<dSize, dMain, dStart, dNext, dResult, dPc, dTask, dTaskMap, dNotify, dErrCh,
      dDone, dWg, dWaiter, dPanicked, dFiles, dTempDir, dCleaned, dOutput, dReported>>

----------------------------------------------------------------------------
(* Three calls to a host that is allowed one connection, without           *)
(* keep-alives; dials fail and callers give up.                            *)
Pool == INSTANCE ConnPool WITH
    Reqs <- {"r1", "r2", "r3"}, Keys <- {"k1"}, KeyOf <- [w \in {"r1", "r2", "r3"} |-> "k1"],
    MaxConnsPerHost <- 1, MaxIdleConnsPerHost <- 1, MaxIdleConns <- 0,
    DisableKeepAlives <- TRUE, IdleConnTimeout <- FALSE, CanH2 <- FALSE, CloseIdleCalls <- 0,
    Faults <- {"cancel", "dial"}, NoConn <- "NoConn", DialErr <- "DialErr",
    caller <- pCaller, done <- pDone, result <- pResult, held <- pHeld,
    dialer <- pDialer, dialCanceled <- pDialCanceled, conn <- pConn, alt <- pAlt,
    reused <- pReused, reader <- pReader, put <- pPut, idleConn <- pIdleConn,
    idleLRU <- pIdleLRU, idleConnWait <- pIdleConnWait, closeIdle <- pCloseIdle,
    connsPerHost <- pConnsPerHost, connsPerHostWait <- pConnsPerHostWait,
    dialsInProgress <- pDialsInProgress, expiring <- pExpiring, closer <- pCloser,
    doomed <- pDoomed, closeCalls <- pCloseCalls, panics <- pPanics

(* One HTTP/2 stream at a time: two calls of which one waits for its slot, *)
(* or one call that is canceled or reset; connections that end.            *)
Strict == [strict |-> TRUE, singleUse |-> FALSE, idleTimeout |-> FALSE,
           headerTimeout |-> FALSE, initialMax |-> 1, limits |-> {1},
           calls |-> {"r1", "r2"}, events |-> {"cancel"}]
Streams ==
    {Strict,
     [Strict EXCEPT !.events = {"eof", "shutdown"}],
     [Strict EXCEPT !.events = {"goAway"}],
     [Strict EXCEPT !.calls = {"r3"}, !.events = {"cancel", "reset"}]}
H2 == INSTANCE H2Conn WITH
    Calls <- {"r1", "r2", "r3"},
    Body <- [r \in {"r1", "r2", "r3"} |->
               CASE r = "r1" -> "stream" [] r = "r2" -> "none" [] OTHER -> "getBody"],
    Heads <- {"r2"}, CloseCalls <- {"r3"}, Trailers <- {}, Scenarios <- Streams,
    MaxSettings <- 1, MaxStreamID <- 5, RetryLimit <- 1, MaxAttempts <- 2,
    caller <- hCaller, retry <- hRetry, writer <- hWriter, err <- hErr, cs <- hCs,
    ctx <- hCtx, streams <- hStreams, cc <- hCc, env <- hEnv,
    reqHeaderMu <- hReqHeaderMu, tconn <- hTconn, werr <- hWerr, reader <- hReader,
    idleTimer <- hIdleTimer, shutdown <- hShutdown, settings <- hSettings,
    disowned <- hDisowned, highest <- hHighest, rst <- hRst

(* HTTP/1: a PUT that is canceled or loses its connection, a POST that     *)
(* expects 100 Continue and whose body may break, and two GETs at once.    *)
Get  == [body |-> FALSE, getBody |-> FALSE, idempotent |-> TRUE,
         close |-> FALSE, expect |-> FALSE, https |-> FALSE]
Put  == [Get EXCEPT !.body = TRUE, !.getBody = TRUE]
Post == [Get EXCEPT !.body = TRUE, !.idempotent = FALSE, !.expect = TRUE]
Empty == [code |-> "final", close |-> FALSE, body |-> FALSE]
Full  == [Empty EXCEPT !.body = TRUE]
Last  == [Empty EXCEPT !.close = TRUE]
Both(p) == [profile |-> [r \in {"r1", "r2"} |-> IF r = "r1" THEN Get ELSE p],
            after |-> [r \in {"r1", "r2"} |-> {}], replies |-> {Empty}, faults |-> {}]
Only(p) == [Both(p) EXCEPT !.after = [r \in {"r1", "r2"} |-> IF r = "r1" THEN {"r1"} ELSE {}]]
Endings ==
    {[Only(Put)  EXCEPT !.faults = {"cancel", "close"}, !.replies = {Full}],
     [Only(Post) EXCEPT !.faults = {"cancel", "bodyRead"}, !.replies = {Full, Last}],
     [Both(Get)  EXCEPT !.faults = {"closeIdle"}]}
Http1 == INSTANCE Exchange WITH
    Reqs <- {"r1", "r2"}, Conns <- {"c1", "c2"}, NoReq <- "NoReq", Scenarios <- Endings,
    Max1xx <- 1,
    env <- xEnv, req <- xReq, conn <- xConn, net <- xNet, handled <- xHandled,
    mixed <- xMixed

(* HTTP/3: one request that is canceled or loses its connection, with a    *)
(* body to send or to receive, or a header that cannot be sent.            *)
Quic == [calls |-> {"r1"}, answers |-> {<<"info", "headers", "data1", "byte">>},
         clen |-> -1, body |-> -1, ulen |-> -1, goAways |-> {}, events |-> {"cancel", "lost"}]
QuicStreams ==
    {[Quic EXCEPT !.events = @ \cup {"close", "reset"}],
     [Quic EXCEPT !.body = 2, !.events = @ \cup {"stop"}],
     [Quic EXCEPT !.events = @ \cup {"invalid"}]}
Http3 == INSTANCE H3Stream WITH
    H3Calls <- {"r1"}, StreamScenarios <- QuicStreams, Max1xx <- 1, DatagramQueueLen <- 1,
    henv <- qEnv, hconn <- qConn, str <- qStr, hcancel <- qCancel, dgram <- qDgram

(* A download of unknown size, or of two or three segments by two workers. *)
Download == INSTANCE ParallelDownload WITH
    Concurrency <- 2, SegmentSize <- 2, ContentLengths <- {-1, 3, 5},
    Failures <- {"get", "output"},
    size <- dSize, main <- dMain, start <- dStart, next <- dNext, result <- dResult,
    pc <- dPc, task <- dTask, taskMap <- dTaskMap, notify <- dNotify, errCh <- dErrCh,
    done <- dDone, wg <- dWg, waiter <- dWaiter, panicked <- dPanicked, files <- dFiles,
    tempDir <- dTempDir, cleaned <- dCleaned, output <- dOutput, reported <- dReported

----------------------------------------------------------------------------
Init ==
    /\ part \in Parts
    /\ Pool!Init
    /\ H2!Init /\ (part # "h2" => hEnv = Strict)
    /\ Http1!Init /\ (part # "http1" => xEnv = [Both(Get) EXCEPT !.faults = {"closeIdle"}])
    /\ Http3!Init /\ (part # "http3" => "invalid" \in qEnv.events)
    /\ Download!Init /\ (part # "download" => dSize = -1)

Next ==
    /\ UNCHANGED part
    /\ \/ part = "pool" /\ Pool!Next /\ UNCHANGED <<h2Vars, exVars, h3Vars, dlVars>>
       \/ part = "h2" /\ H2!Next /\ UNCHANGED <<poolVars, exVars, h3Vars, dlVars>>
       \/ part = "http1" /\ Http1!Next /\ UNCHANGED <<poolVars, h2Vars, h3Vars, dlVars>>
       \/ part = "http3" /\ Http3!Next /\ UNCHANGED <<poolVars, h2Vars, exVars, dlVars>>
       \/ part = "download" /\ Download!Next /\ UNCHANGED <<poolVars, h2Vars, exVars, h3Vars>>

\* The fairness of each component, while it is the one that runs.
PoolFairness ==
    /\ \A w \in {"r1", "r2", "r3"} :
         /\ WF_poolVars(part = "pool" /\ Pool!queueForDial(w))
         /\ WF_poolVars(part = "pool" /\ Pool!getConnResult(w))
         /\ WF_poolVars(part = "pool" /\ Pool!dialConnFor(w))
         /\ WF_poolVars(part = "pool" /\ Pool!UseConn(w))
         /\ WF_poolVars(part = "pool" /\ Pool!readLoopExit(w))
         /\ WF_poolVars(part = "pool" /\ Pool!closeConnIfStillIdle(w))
         /\ WF_poolVars(part = "pool" /\ Pool!closeIdleClose(w))
    /\ \A a \in Pool!Agents : WF_poolVars(part = "pool" /\ Pool!PutBack(a))

H2Fairness ==
    /\ \A r \in {"r1", "r2", "r3"} :
         /\ WF_h2Vars(part = "h2" /\ H2!callerStep(r))
         /\ WF_h2Vars(part = "h2" /\ H2!writerStep(r))
         /\ WF_h2Vars(part = "h2" /\ hCaller[r] = "again" /\ H2!RoundTripOpt(r))
         /\ WF_h2Vars(/\ part = "h2" /\ (hCaller[r] = "closing" \/ hCs[r].pipeClosed)
                      /\ H2!CloseBody(r))
    /\ WF_h2Vars(part = "h2" /\ ~hTconn /\ H2!readError)
    /\ WF_h2Vars(part = "h2" /\ H2!readLoopCleanup)
    /\ WF_h2Vars(part = "h2" /\ hShutdown \in {"send", "check"} /\ H2!Shutdown)

Http1Fairness ==
    /\ \A r \in {"r1", "r2"} : WF_exVars(part = "http1" /\ Http1!Caller(r))
    /\ \A c \in {"c1", "c2"} : /\ WF_exVars(part = "http1" /\ Http1!writeLoop(c))
                               /\ WF_exVars(part = "http1" /\ Http1!readLoop(c))

Http3Fairness ==
    /\ WF_h3Vars(part = "http3" /\ Http3!H3Caller("r1"))
    /\ WF_h3Vars(part = "http3" /\ Http3!canceler("r1"))
    /\ WF_h3Vars(part = "http3" /\ (Http3!streamParse("r1") \/ Http3!streamRead("r1")))

DownloadFairness ==
    /\ WF_dlVars(part = "download" /\ ~dPanicked /\ Download!Do)
    /\ WF_dlVars(part = "download" /\ ~dPanicked /\ Download!wgWait)
    /\ \A g \in 0 .. 2 : WF_dlVars(part = "download" /\ ~dPanicked /\ Download!Goroutine(g))

FairSpec ==
    /\ Init
    /\ [][Next]_<<part, poolVars, h2Vars, exVars, h3Vars, dlVars>>
    /\ PoolFairness /\ H2Fairness /\ Http1Fairness /\ Http3Fairness /\ DownloadFairness

----------------------------------------------------------------------------
\* getConn: every waiting caller is answered, and without keep-alives every
\* connection is closed again.
CallersServed == []<>Pool!AllServed

\* HTTP/1, HTTP/2 and HTTP/3: a request whose context ended returns, wherever
\* its goroutines are.
CancelReturns ==
    []<>(H2!CanceledReturned /\ Http1!CanceledReturned /\ Http3!CanceledReturned)

\* The end of an HTTP/2 connection releases every writer, caller and reader,
\* and Shutdown notices that the last stream is gone; the end of an HTTP/3
\* connection releases every RoundTrip and every Read.
ConnLossReleases == []<>(H2!LossReleased /\ Http3!LossReleased)

\* HTTP/1: a Read at the end of a response body and a Close before it return.
BodyCallReturns == []<>Http1!BodyCallsReturned

\* ParallelDownload.Do returns if taskNotifyCh has room for every segment, and
\* leaves no goroutine and no temporary directory.
DownloadEnds == []<>(part = "download" => Download!Ended)
=============================================================================
