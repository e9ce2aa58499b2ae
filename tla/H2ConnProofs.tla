---------------------------- MODULE H2ConnProofs ----------------------------
(***************************************************************************)
(* Proofs about one HTTP/2 connection, for any number of calls, stream     *)
(* limits, configurations and events: type correctness, the order of       *)
(* HEADERS, the reservations and the release of request bodies; and the end *)
(* of a stream: a request is repeated only if the server did not process it, *)
(* a forgotten stream is over for the peer too, and a sleeping writer has  *)
(* somebody to wake it.                                                    *)
(***************************************************************************)
EXTENDS H2Conn, FiniteSetTheorems, TLAPS

-----------------------------------------------------------------------------
(* The inductive invariant.                                                *)

\* A call that may start is within the limit of RoundTripOpt.
RetryBound ==
    \A r \in Calls : /\ caller[r] = "idle" => retry[r] = 0
                     /\ caller[r] = "again" => retry[r] <= RetryLimit + 1

Waiting == {"await", "awake"}
Holding == {"start", "early"}

\* Whoever waits for a slot or is about to write HEADERS holds the new-request
\* lock, so at most one request is pending.
LockInv ==
    /\ \A r \in Calls : writer[r] \in Waiting \cup {"headers"} => reqHeaderMu = {r}
    /\ cc.pendingRequests = 0 \/ \E r \in Calls : writer[r] \in Waiting
    /\ \A r \in Calls : writer[r] \in Waiting => cc.pendingRequests = 1

TypeInv == TypeOK /\ RetryBound /\ LockInv

\* A stream whose HEADERS come next has an ID above all those written.
OrderInv ==
    /\ highest < cc.nextStreamID
    /\ \A r \in Calls : writer[r] = "headers" =>
          highest < cs[r].id /\ cs[r].id < cc.nextStreamID

\* t is s after a step that neither opens the stream nor reopens its body.
Kept(t, s) ==
    /\ t \in StreamType
    /\ t.id = s.id /\ t.sentHeaders = s.sentHeaders
    /\ s.reqBodyClosed = "closed" => t.reqBodyClosed = "closed"

\* A writer goes from b to a in a step that is not one of its own opening of
\* a stream or its end.
Passes(b, a) ==
    /\ a \in WriterStates
    /\ a \in Waiting <=> b \in Waiting
    /\ a \in Holding <=> b \in Holding
    /\ a = "headers" <=> b = "headers"
    /\ a = "done" <=> b = "done"

\* A step that concerns no reservation, no stream ID and no lock.
Quiet ==
    /\ reqHeaderMu' = reqHeaderMu /\ highest' = highest
    /\ cc'.pendingRequests = cc.pendingRequests
    /\ cc'.nextStreamID = cc.nextStreamID
    /\ cc'.streamsReserved = cc.streamsReserved
    /\ \A r \in Calls : Passes(writer[r], writer'[r]) /\ Kept(cs'[r], cs[r])

\* The parts of TypeOK.
CallTypes ==
    /\ caller \in [Calls -> CallerStates] /\ retry \in [Calls -> 0 .. RetryLimit + 2]
    /\ ctx \subseteq Calls /\ RetryBound

WriterTypes ==
    /\ writer \in [Calls -> WriterStates] /\ err \in [Calls -> Errors]
    /\ shutdown \in {"no", "send", "check", "asleep", "done", "failed"}

StreamTypes == cs \in [Calls -> StreamType]

RestTypes ==
    /\ streams \subseteq Calls /\ env \in Scenarios
    /\ reqHeaderMu \subseteq Calls /\ \A r, q \in reqHeaderMu : r = q
    /\ tconn \in BOOLEAN /\ werr \in BOOLEAN
    /\ reader \in {"hello", "run", "stopped", "done"}
    /\ idleTimer \subseteq {"armed", "firing"}
    /\ settings \in 0 .. MaxSettings /\ disowned \subseteq Calls
    /\ highest \in 0 .. MaxStreamID - 1 /\ rst \subseteq Calls

Types == CallTypes /\ WriterTypes /\ StreamTypes /\ cc \in ConnType /\ RestTypes

\* The parts together are the type invariant with the bound on attempts.
LEMMA TypesIff == Types <=> TypeOK /\ RetryBound
BY DEF Types, TypeOK, CallTypes, WriterTypes, StreamTypes, RestTypes

\* What the proofs use of the assumption on the constants.
LEMMA Consts ==
  /\ MaxStreamID \in Nat /\ MaxStreamID > 0
  /\ RetryLimit \in Nat /\ MaxSettings \in Nat
  /\ \A s \in Scenarios : s.limits \subseteq Nat /\ s.initialMax \in Nat /\ s.idleTimeout \in BOOLEAN
BY ConnAssumption DEF ScenarioType

\* Finitely many calls use the connection.
LEMMA CallsFinite == IsFiniteSet(Calls)
BY ConnAssumption

-----------------------------------------------------------------------------
(* The helpers of the model.                                               *)

\* closeReqBodyLocked and abortStreamLocked keep a stream a stream.
LEMMA AbortedFacts ==
  ASSUME NEW r \in Calls, NEW s \in StreamType, NEW e \in Errors
  PROVE  Kept(closeReqBody(r, s), s) /\ Kept(Aborted(r, s, e), s)
<1>1. ASSUME NEW t \in StreamType PROVE Kept(closeReqBody(r, t), t)
  <2>1. CASE HasBody(r) /\ t.reqBodyClosed = "no"
    BY <2>1 DEF Kept, closeReqBody, StreamType
  <2>2. CASE ~(HasBody(r) /\ t.reqBodyClosed = "no")
    BY <2>2 DEF Kept, closeReqBody, StreamType
  <2>. QED  BY <2>1, <2>2
<1>. DEFINE x == IF s.abort = "nil" THEN e ELSE s.abort
            t == [s EXCEPT !.abort = x]
<1>2. x \in Errors
  BY DEF StreamType
<1>. HIDE DEF x
<1>3. Kept(t, s)
  BY <1>2 DEF Kept, StreamType
<1>4. Aborted(r, s, e) = closeReqBody(r, t)
  BY DEF Aborted, x
<1>. HIDE DEF t
<1>5. Kept(closeReqBody(r, t), t)
  BY <1>1, <1>3 DEF Kept
<1>. QED  BY <1>1, <1>3, <1>4, <1>5 DEF Kept

\* A Broadcast moves sleepers one stage on and nobody else.
LEMMA BroadcastFacts ==
  ASSUME NEW wr \in [Calls -> WriterStates], WriterTypes, Broadcast(wr)
  PROVE  /\ writer' \in [Calls -> WriterStates]
         /\ shutdown' \in {"no", "send", "check", "asleep", "done", "failed"}
         /\ \A r \in Calls : Passes(wr[r], writer'[r])
BY DEF Broadcast, Passes, WriterTypes, WriterStates, Waiting, Holding

\* A writer that stays where it is passes.
LEMMA SameStage ==
  ASSUME NEW b \in WriterStates PROVE Passes(b, b)
BY DEF Passes

\* Passing is transitive: a writer of its own step followed by a Broadcast.
LEMMA PassesTrans ==
  ASSUME NEW a, NEW b, NEW c, Passes(a, b), Passes(b, c) PROVE Passes(a, c)
BY DEF Passes

\* A stream that does not change is kept.
LEMMA KeptRefl ==
  ASSUME NEW s \in StreamType PROVE Kept(s, s)
BY DEF Kept

\* closeForError keeps all types and opens nothing.
LEMMA CloseFacts ==
  ASSUME Types, NEW e \in Errors, NEW d, NEW s \in [Calls -> StreamType],
         NEW wr \in [Calls -> WriterStates], closeForError(e, d, s, wr)
  PROVE  /\ cs' \in [Calls -> StreamType] /\ cc' \in ConnType /\ tconn' = FALSE
         /\ cc'.pendingRequests = cc.pendingRequests
         /\ cc'.nextStreamID = cc.nextStreamID
         /\ cc'.streamsReserved = cc.streamsReserved
         /\ writer' \in [Calls -> WriterStates]
         /\ shutdown' \in {"no", "send", "check", "asleep", "done", "failed"}
         /\ \A r \in Calls : Passes(wr[r], writer'[r]) /\ Kept(cs'[r], s[r])
<1>1. cc' \in ConnType /\ cc'.pendingRequests = cc.pendingRequests
      /\ cc'.nextStreamID = cc.nextStreamID /\ cc'.streamsReserved = cc.streamsReserved
      /\ tconn' = FALSE
  BY DEF closeForError, Types, ConnType
<1>2. Broadcast(wr)
  BY DEF closeForError
<1>3. \A r \in Calls : Kept(Aborted(r, s[r], e), s[r]) /\ Kept(s[r], s[r])
  BY AbortedFacts, KeptRefl
<1>4. \A r \in Calls : cs'[r] = IF r \in d THEN Aborted(r, s[r], e) ELSE s[r]
  BY DEF closeForError
<1>5. \A r \in Calls : Kept(cs'[r], s[r])
  BY <1>3, <1>4
<1>6. cs' \in [Calls -> StreamType]
  BY <1>5 DEF closeForError, Kept
<1>. QED  BY <1>1, <1>2, <1>5, <1>6, BroadcastFacts DEF Types

\* No writer moves.
LEMMA WriterSame ==
  ASSUME WriterTypes, writer' = writer
  PROVE  \A q \in Calls : Passes(writer[q], writer'[q])
BY SameStage DEF WriterTypes

\* One writer moves between stages of the same kind.
LEMMA WriterOne ==
  ASSUME WriterTypes, NEW r \in Calls, NEW a, Passes(writer[r], a),
         writer' = [writer EXCEPT ![r] = a]
  PROVE  /\ writer' \in [Calls -> WriterStates]
         /\ \A q \in Calls : Passes(writer[q], writer'[q])
<1>1. a \in WriterStates
  BY DEF Passes
<1>2. \A q \in Calls : writer'[q] = IF q = r THEN a ELSE writer[q]
  BY DEF WriterTypes
<1>3. \A q \in Calls : Passes(writer[q], writer[q])
  BY SameStage DEF WriterTypes
<1>. QED  BY <1>1, <1>2, <1>3 DEF WriterTypes

\* No stream changes.
LEMMA StreamSame ==
  ASSUME StreamTypes, cs' = cs
  PROVE  StreamTypes' /\ \A q \in Calls : Kept(cs'[q], cs[q])
BY KeptRefl DEF StreamTypes

\* One stream changes and is kept.
LEMMA StreamOne ==
  ASSUME StreamTypes, NEW r \in Calls, NEW t, Kept(t, cs[r]), cs' = [cs EXCEPT ![r] = t]
  PROVE  StreamTypes' /\ \A q \in Calls : Kept(cs'[q], cs[q])
<1>1. t \in StreamType
  BY DEF Kept
<1>2. \A q \in Calls : cs'[q] = IF q = r THEN t ELSE cs[q]
  BY DEF StreamTypes
<1>3. \A q \in Calls : Kept(cs[q], cs[q])
  BY KeptRefl DEF StreamTypes
<1>. QED  BY <1>1, <1>2, <1>3 DEF StreamTypes

\* writeRequest returns after its stream was opened.
LEMMA ReturnFacts ==
  ASSUME WriterTypes, NEW r \in Calls, NEW e \in Errors, Return(r, e),
         writer[r] \in {"continue", "body", "data", "wait", "waitEnd"}
  PROVE  /\ writer' \in [Calls -> WriterStates] /\ err' \in [Calls -> Errors]
         /\ \A q \in Calls : Passes(writer[q], writer'[q])
<1>1. Passes(writer[r], "cleanup")
  BY DEF Passes, Waiting, Holding, WriterStates
<1>2. err' \in [Calls -> Errors]
  BY DEF Return, WriterTypes
<1>. QED  BY <1>1, <1>2, WriterOne DEF Return

\* RoundTripOpt retries only below its limit.
LEMMA FailedFacts ==
  ASSUME CallTypes, NEW r \in Calls, NEW e, Failed(r, e), ctx' = ctx
  PROVE  CallTypes'
BY Consts DEF CallTypes, RetryBound, Failed, CallerStates

\* A caller moves on and does not start again.
LEMMA CallerMoves ==
  ASSUME CallTypes, NEW r \in Calls, NEW x \in CallerStates \ {"idle", "again"},
         caller' = [caller EXCEPT ![r] = x], retry' = retry, ctx' = ctx
  PROVE  CallTypes'
BY DEF CallTypes, RetryBound

\* No caller moves.
LEMMA CallSame ==
  ASSUME CallTypes, UNCHANGED callVars
  PROVE  CallTypes'
BY DEF CallTypes, RetryBound, callVars

\* A step of the callers that leaves the connection alone.
LEMMA OnlyCalls ==
  ASSUME Types, CallTypes',
         UNCHANGED <<writer, err, cs, streams, cc, env, reqHeaderMu, netVars,
                     bgVars, shutdown, ghostVars>>
  PROVE  Types' /\ Quiet
<1>1. WriterTypes' /\ cc' \in ConnType /\ RestTypes'
  BY DEF Types, WriterTypes, RestTypes, netVars, bgVars, ghostVars
<1>2. /\ reqHeaderMu' = reqHeaderMu /\ highest' = highest /\ cc' = cc
      /\ writer' = writer /\ cs' = cs
  BY DEF ghostVars
<1>. QED  BY <1>1, <1>2, WriterSame, StreamSame DEF Types, Quiet

-----------------------------------------------------------------------------
(* The steps of the callers.                                               *)

\* The end of a context during the back-off of RoundTripOpt is quiet.
LEMMA BackoffCanceled ==
  ASSUME Types, NEW r \in Calls, backoffCanceled(r)
  PROVE  Types' /\ Quiet
<1>1. CallTypes'
  BY CallerMoves DEF backoffCanceled, Types, CallerStates
<1>. QED  BY <1>1, OnlyCalls DEF backoffCanceled

\* So is the wait for the end of a stream (waitDone in roundTrip).
LEMMA WaitDone ==
  ASSUME Types, NEW r \in Calls, waitDone(r)
  PROVE  Types' /\ Quiet
<1>1. CallTypes /\ ctx' = ctx
  BY DEF waitDone, Types
<1>2. CASE Failed(r, cs[r].abort)
  BY <1>1, <1>2, FailedFacts, OnlyCalls DEF waitDone
<1>3. CASE Failed(r, "ctx")
  BY <1>1, <1>3, FailedFacts, OnlyCalls DEF waitDone
<1>4. CASE /\ \E x \in {"waitAbort", "finished"} : caller' = [caller EXCEPT ![r] = x]
           /\ retry' = retry
  <2>1. PICK x \in {"waitAbort", "finished"} : caller' = [caller EXCEPT ![r] = x]
    BY <1>4
  <2>2. x \in CallerStates \ {"idle", "again"}
    BY DEF CallerStates
  <2>3. CallTypes'
    BY <1>1, <1>4, <2>1, <2>2, CallerMoves
  <2>. QED  BY <2>3, OnlyCalls DEF waitDone
<1>. QED  BY <1>2, <1>3, <1>4 DEF waitDone

\* The end of a context changes nothing of the connection.
LEMMA Cancel ==
  ASSUME Types, NEW r \in Calls, cancel(r)
  PROVE  Types' /\ Quiet
<1>1. CallTypes'
  BY DEF cancel, Types, CallTypes, RetryBound
<1>. QED  BY <1>1, OnlyCalls DEF cancel

\* A step of a caller that changes its stream and may wake the sleepers.
LEMMA StreamAndWake ==
  ASSUME Types, CallTypes', StreamTypes', \A q \in Calls : Kept(cs'[q], cs[q]),
         Broadcast(writer) \/ UNCHANGED <<writer, shutdown>>,
         UNCHANGED <<err, streams, cc, env, reqHeaderMu, netVars, bgVars, ghostVars>>
  PROVE  Types' /\ Quiet
<1>1. /\ writer' \in [Calls -> WriterStates]
      /\ shutdown' \in {"no", "send", "check", "asleep", "done", "failed"}
      /\ \A q \in Calls : Passes(writer[q], writer'[q])
  <2>1. writer \in [Calls -> WriterStates] /\ WriterTypes
    BY DEF Types, WriterTypes
  <2>2. CASE Broadcast(writer)
    BY <2>1, <2>2, BroadcastFacts
  <2>3. CASE UNCHANGED <<writer, shutdown>>
    BY <2>1, <2>3, WriterSame DEF WriterTypes
  <2>. QED  BY <2>2, <2>3
<1>2. err' \in [Calls -> Errors] /\ cc' \in ConnType /\ RestTypes' /\ cc' = cc
      /\ reqHeaderMu' = reqHeaderMu /\ highest' = highest
  BY DEF Types, WriterTypes, RestTypes, netVars, bgVars, ghostVars
<1>. QED  BY <1>1, <1>2 DEF Types, WriterTypes, Quiet

\* Returning the response, and stopping the upload with it, is quiet.
LEMMA HandleResponseHeaders ==
  ASSUME Types, NEW r \in Calls, handleResponseHeaders(r)
  PROVE  Types' /\ Quiet
<1>1. CallTypes'
  <2>. DEFINE x == CASE cs[r].res = "pipe" -> "reading"
                     [] HasBody(r) -> "finished"
                     [] OTHER -> "waitDone"
  <2>1. caller' = [caller EXCEPT ![r] = x]
    BY DEF handleResponseHeaders
  <2>2. x \in CallerStates \ {"idle", "again"}
    BY DEF CallerStates
  <2>. HIDE DEF x
  <2>. QED  BY <2>1, <2>2, CallerMoves DEF handleResponseHeaders, Types
<1>2. CASE UNCHANGED <<cs, writer, shutdown>>
  BY <1>1, <1>2, StreamSame, StreamAndWake DEF handleResponseHeaders, Types
<1>3. CASE cs' = [cs EXCEPT ![r] = closeReqBody(r, @)] /\ Broadcast(writer)
  <2>1. cs[r] \in StreamType /\ "ctx" \in Errors
    BY DEF Types, StreamTypes, Errors
  <2>2. Kept(closeReqBody(r, cs[r]), cs[r])
    BY <2>1, AbortedFacts
  <2>3. StreamTypes' /\ \A q \in Calls : Kept(cs'[q], cs[q])
    BY <1>3, <2>2, StreamOne DEF Types
  <2>. QED  BY <1>1, <1>3, <2>3, StreamAndWake DEF handleResponseHeaders
<1>. QED  BY <1>2, <1>3 DEF handleResponseHeaders

\* Aborting a canceled request (cancelRequest in roundTrip) is quiet.
LEMMA CancelRequest ==
  ASSUME Types, NEW r \in Calls, cancelRequest(r)
  PROVE  Types' /\ Quiet
<1>1. CASE /\ caller' = [caller EXCEPT ![r] = "cancel"] /\ abortStream(r, "ctx", writer)
           /\ retry' = retry
  <2>1. CallTypes'
    BY <1>1, CallerMoves DEF cancelRequest, Types, CallerStates
  <2>2. Kept(Aborted(r, cs[r], "ctx"), cs[r])
    BY AbortedFacts DEF Types, StreamTypes, Errors
  <2>3. StreamTypes' /\ \A q \in Calls : Kept(cs'[q], cs[q])
    BY <1>1, <2>2, StreamOne DEF Types, abortStream
  <2>. QED  BY <1>1, <2>1, <2>3, StreamAndWake DEF cancelRequest, abortStream
<1>2. CASE Failed(r, "ctx") /\ UNCHANGED <<cs, writer, shutdown>>
  <2>1. CallTypes'
    BY <1>2, FailedFacts DEF cancelRequest, Types
  <2>. QED  BY <1>2, <2>1, StreamSame, StreamAndWake DEF cancelRequest, Types
<1>. QED  BY <1>1, <1>2 DEF cancelRequest

\* Closing the response body (transportResponseBody.Close) is quiet.
LEMMA CloseBodyStep ==
  ASSUME Types, NEW r \in Calls, CloseBody(r)
  PROVE  Types' /\ Quiet
<1>1. CallTypes'
  BY CallerMoves DEF CloseBody, Types, CallerStates
<1>2. CASE UNCHANGED <<cs, writer, shutdown>>
  BY <1>1, <1>2, StreamSame, StreamAndWake DEF CloseBody, Types
<1>3. CASE /\ cs' = [cs EXCEPT ![r] = Aborted(r, [@ EXCEPT !.pipeClosed = TRUE], "closedBody")]
           /\ Broadcast(writer)
  <2>. DEFINE s == [cs[r] EXCEPT !.pipeClosed = TRUE]
  <2>1. Kept(s, cs[r])
    BY DEF Types, StreamTypes, StreamType, Kept
  <2>2. Kept(Aborted(r, s, "closedBody"), s)
    BY <2>1, AbortedFacts DEF Kept, Errors
  <2>3. Kept(Aborted(r, s, "closedBody"), cs[r])
    BY <2>1, <2>2 DEF Kept
  <2>4. StreamTypes' /\ \A q \in Calls : Kept(cs'[q], cs[q])
    BY <1>3, <2>3, StreamOne DEF Types
  <2>. QED  BY <1>1, <1>3, <2>4, StreamAndWake DEF CloseBody
<1>. QED  BY <1>2, <1>3 DEF CloseBody

\* The goroutine of closeReqBodyLocked only closes the request body.
LEMMA ReqBodyClose ==
  ASSUME Types, NEW r \in Calls, reqBodyClose(r)
  PROVE  Types' /\ Quiet
<1>. DEFINE s == [cs[r] EXCEPT !.reqBodyClosed = "closed"]
<1>1. Kept(s, cs[r])
  BY DEF Types, StreamTypes, StreamType, Kept
<1>2. StreamTypes' /\ \A q \in Calls : Kept(cs'[q], cs[q])
  BY <1>1, StreamOne DEF reqBodyClose, Types
<1>3. CallTypes'
  BY CallSame DEF reqBodyClose, Types
<1>. QED  BY <1>2, <1>3, StreamAndWake DEF reqBodyClose

-----------------------------------------------------------------------------
(* The steps of the writers after HEADERS.                                 *)

\* A write tells a Boolean.
LEMMA WriteFacts ==
  ASSUME NEW ok \in BOOLEAN, Write(ok) PROVE werr' \in BOOLEAN
BY DEF Write

\* A writer with an open stream goes on, changing only its stream.
LEMMA WriterStep ==
  ASSUME Types, \A q \in Calls : Passes(writer[q], writer'[q]) /\ Kept(cs'[q], cs[q]),
         writer' \in [Calls -> WriterStates], err' \in [Calls -> Errors], StreamTypes',
         werr' \in BOOLEAN,
         UNCHANGED <<callVars, streams, cc, env, reqHeaderMu, tconn, bgVars, shutdown,
                     ghostVars>>
  PROVE  Types' /\ Quiet
<1>1. CallTypes'
  BY CallSame DEF Types
<1>2. cc' \in ConnType /\ RestTypes' /\ cc' = cc /\ WriterTypes'
      /\ reqHeaderMu' = reqHeaderMu /\ highest' = highest
  BY DEF Types, WriterTypes, RestTypes, bgVars, ghostVars
<1>. QED  BY <1>1, <1>2 DEF Types, Quiet

\* The wait for 100-continue in writeRequest is quiet.
LEMMA AwaitContinue ==
  ASSUME Types, NEW r \in Calls, awaitContinue(r)
  PROVE  Types' /\ Quiet
<1>1. /\ WriterTypes /\ cs[r].abort \in Errors /\ "ctx" \in Errors
      /\ werr' \in BOOLEAN /\ cs' = cs /\ StreamTypes
  BY DEF Types, awaitContinue, netVars, RestTypes, StreamTypes, StreamType, Errors
<1>2. CASE writer' = [writer EXCEPT ![r] = "body"] /\ err' = err
  <2>1. Passes(writer[r], "body")
    BY DEF awaitContinue, Passes, Waiting, Holding, WriterStates
  <2>. QED  BY <1>1, <1>2, <2>1, WriterOne, StreamSame, WriterStep
            DEF awaitContinue, WriterTypes, netVars
<1>3. CASE \E e \in Errors : Return(r, e)
  <2>1. PICK e \in Errors : Return(r, e)
    BY <1>3
  <2>. QED  BY <1>1, <2>1, ReturnFacts, StreamSame, WriterStep DEF awaitContinue, netVars
<1>. QED  BY <1>1, <1>2, <1>3 DEF awaitContinue

\* A frame with END_STREAM was written, or the write failed.
LEMMA SendEndStream ==
  ASSUME Types, NEW r \in Calls, sendEndStream(r), writer[r] \in {"body", "data"}
  PROVE  /\ \A q \in Calls : Passes(writer[q], writer'[q]) /\ Kept(cs'[q], cs[q])
         /\ writer' \in [Calls -> WriterStates] /\ err' \in [Calls -> Errors]
         /\ StreamTypes' /\ werr' \in BOOLEAN
<1>1. WriterTypes /\ StreamTypes /\ "write" \in Errors
  BY DEF Types, Errors
<1>2. CASE /\ Write(TRUE)
           /\ cs' = [cs EXCEPT ![r].sentEndStream = TRUE, ![r].endStream = TRUE]
           /\ writer' = [writer EXCEPT ![r] = "wait"]
           /\ UNCHANGED err
  <2>. DEFINE s == [cs[r] EXCEPT !.sentEndStream = TRUE, !.endStream = TRUE]
  <2>1. Kept(s, cs[r])
    BY DEF Types, StreamTypes, StreamType, Kept
  <2>2. Passes(writer[r], "wait")
    BY DEF Passes, Waiting, Holding, WriterStates
  <2>3. cs' = [cs EXCEPT ![r] = s]
    BY <1>2
  <2>. HIDE DEF s
  <2>. QED  BY <1>1, <1>2, <2>1, <2>2, <2>3, StreamOne, WriterOne, WriteFacts DEF WriterTypes
<1>3. CASE Write(FALSE) /\ Return(r, "write") /\ UNCHANGED cs
  BY <1>1, <1>3, ReturnFacts, StreamSame, WriteFacts
<1>. QED  BY <1>2, <1>3 DEF sendEndStream

\* Reading the request body in writeRequestBody is quiet.
LEMMA ReadRequestBody ==
  ASSUME Types, NEW r \in Calls, readRequestBody(r)
  PROVE  Types' /\ Quiet
<1>0. writer[r] = "body" /\ UNCHANGED <<callVars, streams, cc, env, reqHeaderMu, tconn, bgVars,
                                        shutdown, ghostVars>>
  BY DEF readRequestBody
<1>1. /\ WriterTypes /\ cs[r].abort \in Errors /\ "body" \in Errors
      /\ werr \in BOOLEAN /\ StreamTypes
  BY DEF Types, RestTypes, StreamTypes, StreamType, Errors
<1>2. CASE \E a \in {"data", "wait"} : /\ writer' = [writer EXCEPT ![r] = a]
                                       /\ UNCHANGED <<err, cs, werr>>
  <2>1. PICK a \in {"data", "wait"} : /\ writer' = [writer EXCEPT ![r] = a]
                                      /\ UNCHANGED <<err, cs, werr>>
    BY <1>2
  <2>2. Passes(writer[r], a)
    BY <1>0 DEF Passes, Waiting, Holding, WriterStates
  <2>. QED  BY <1>0, <1>1, <2>1, <2>2, WriterOne, StreamSame, WriterStep DEF WriterTypes
<1>3. CASE \E e \in Errors : Return(r, e) /\ UNCHANGED <<cs, werr>>
  <2>1. PICK e \in Errors : Return(r, e) /\ UNCHANGED <<cs, werr>>
    BY <1>3
  <2>. QED  BY <1>0, <1>1, <2>1, ReturnFacts, StreamSame, WriterStep
<1>4. CASE sendEndStream(r)
  BY <1>0, <1>4, SendEndStream, WriterStep
<1>. QED  BY <1>1, <1>2, <1>3, <1>4 DEF readRequestBody

\* Waiting for a window and sending DATA (awaitFlowControl) is quiet.
LEMMA AwaitFlowControl ==
  ASSUME Types, NEW r \in Calls, awaitFlowControl(r)
  PROVE  Types' /\ Quiet
<1>0. writer[r] = "data" /\ UNCHANGED <<callVars, streams, cc, env, reqHeaderMu, tconn, bgVars,
                                        shutdown, ghostVars>>
  BY DEF awaitFlowControl
<1>1. /\ WriterTypes /\ cs[r].abort \in Errors /\ {"conn", "ctx"} \subseteq Errors
      /\ werr \in BOOLEAN /\ StreamTypes
  BY DEF Types, RestTypes, StreamTypes, StreamType, Errors
<1>2. CASE /\ \E a \in {"wait", "flow", "body"} : writer' = [writer EXCEPT ![r] = a]
           /\ UNCHANGED <<err, cs>> /\ werr' \in BOOLEAN
  <2>1. PICK a \in {"wait", "flow", "body"} : writer' = [writer EXCEPT ![r] = a]
    BY <1>2
  <2>2. Passes(writer[r], a)
    BY <1>0 DEF Passes, Waiting, Holding, WriterStates
  <2>. QED  BY <1>0, <1>1, <1>2, <2>1, <2>2, WriterOne, StreamSame, WriterStep DEF WriterTypes
<1>3. CASE \E e \in Errors : Return(r, e) /\ UNCHANGED <<cs, werr>>
  <2>1. PICK e \in Errors : Return(r, e) /\ UNCHANGED <<cs, werr>>
    BY <1>3
  <2>. QED  BY <1>0, <1>1, <2>1, ReturnFacts, StreamSame, WriterStep
<1>4. CASE sendEndStream(r)
  BY <1>0, <1>4, SendEndStream, WriterStep
<1>. QED  BY <1>1, <1>2, <1>3, <1>4, WriteFacts DEF awaitFlowControl

\* The last wait of writeRequest is quiet.
LEMMA AwaitPeer ==
  ASSUME Types, NEW r \in Calls, awaitPeer(r)
  PROVE  Types' /\ Quiet
<1>1. /\ WriterTypes /\ cs[r].abort \in Errors /\ {"ctx", "nil", "timeout"} \subseteq Errors
      /\ werr' \in BOOLEAN /\ cs' = cs /\ StreamTypes /\ writer[r] \in {"wait", "waitEnd"}
  BY DEF Types, awaitPeer, netVars, RestTypes, StreamTypes, StreamType, Errors
<1>2. CASE writer' = [writer EXCEPT ![r] = "waitEnd"] /\ err' = err
  <2>1. Passes(writer[r], "waitEnd")
    BY <1>1 DEF Passes, Waiting, Holding, WriterStates
  <2>. QED  BY <1>1, <1>2, <2>1, WriterOne, StreamSame, WriterStep
            DEF awaitPeer, WriterTypes, netVars
<1>3. CASE \E e \in Errors : Return(r, e)
  <2>1. PICK e \in Errors : Return(r, e)
    BY <1>3
  <2>. QED  BY <1>1, <2>1, ReturnFacts, StreamSame, WriterStep DEF awaitPeer, netVars
<1>. QED  BY <1>1, <1>2, <1>3 DEF awaitPeer

-----------------------------------------------------------------------------
(* The read loop and the background of the connection.                     *)

\* cc after a step that concerns no reservation and no stream ID.
SameCounts ==
    /\ cc' \in ConnType
    /\ cc'.pendingRequests = cc.pendingRequests
    /\ cc'.nextStreamID = cc.nextStreamID
    /\ cc'.streamsReserved = cc.streamsReserved

\* A step of the connection that may wake the sleepers.
LEMMA ConnStep ==
  ASSUME Types, StreamTypes', \A q \in Calls : Kept(cs'[q], cs[q]), SameCounts, RestTypes',
         Broadcast(writer) \/ UNCHANGED <<writer, shutdown>>,
         UNCHANGED <<callVars, err, reqHeaderMu, highest>>
  PROVE  Types' /\ Quiet
<1>1. /\ writer' \in [Calls -> WriterStates]
      /\ shutdown' \in {"no", "send", "check", "asleep", "done", "failed"}
      /\ \A q \in Calls : Passes(writer[q], writer'[q])
  <2>1. writer \in [Calls -> WriterStates] /\ WriterTypes
    BY DEF Types, WriterTypes
  <2>2. CASE Broadcast(writer)
    BY <2>1, <2>2, BroadcastFacts
  <2>3. CASE UNCHANGED <<writer, shutdown>>
    BY <2>1, <2>3, WriterSame DEF WriterTypes
  <2>. QED  BY <2>2, <2>3
<1>2. CallTypes' /\ err' \in [Calls -> Errors]
  BY CallSame DEF Types, WriterTypes
<1>. QED  BY <1>1, <1>2 DEF Types, WriterTypes, Quiet, SameCounts

\* An unchanged connection has the same counts.
LEMMA CountsSame ==
  ASSUME Types, cc' = cc PROVE SameCounts
BY DEF Types, SameCounts

\* endStreamError and endStream keep the stream.
LEMMA EndFacts ==
  ASSUME Types, NEW r \in Calls
  PROVE  /\ \A s \in StreamType : Kept(Ended(s), s)
         /\ \A e \in Errors : endStreamError(r, e) =>
               /\ StreamTypes' /\ \A q \in Calls : Kept(cs'[q], cs[q])
               /\ Broadcast(writer)
<1>1. \A s \in StreamType : Kept(Ended(s), s)
  BY DEF Kept, Ended, StreamType
<1>2. ASSUME NEW e \in Errors, endStreamError(r, e)
      PROVE  /\ StreamTypes' /\ \A q \in Calls : Kept(cs'[q], cs[q])
             /\ Broadcast(writer)
  <2>. DEFINE s == [cs[r] EXCEPT !.readAborted = TRUE]
  <2>1. Kept(s, cs[r])
    BY DEF Types, StreamTypes, StreamType, Kept
  <2>2. Kept(Aborted(r, s, e), s)
    BY <2>1, AbortedFacts DEF Kept
  <2>3. Kept(Aborted(r, s, e), cs[r])
    BY <2>1, <2>2 DEF Kept
  <2>. QED  BY <1>2, <2>3, StreamOne DEF endStreamError, Types
<1>. QED  BY <1>1, <1>2

\* Response headers and trailers (processHeaders) are quiet.
LEMMA ProcessHeaders ==
  ASSUME Types, NEW r \in Calls, processHeaders(r)
  PROVE  Types' /\ Quiet
<1>0. /\ UNCHANGED <<callVars, err, reqHeaderMu, highest>> /\ cc' = cc
      /\ cs[r] \in StreamType /\ StreamTypes /\ "proto" \in Errors
  BY DEF processHeaders, ghostVars, Types, StreamTypes, Errors
<1>1. RestTypes'
  BY DEF processHeaders, stopReader, Types, RestTypes, netVars, ghostVars
<1>2. SameCounts
  BY <1>0, CountsSame
<1>3. CASE /\ \E t : Kept(t, cs[r]) /\ cs' = [cs EXCEPT ![r] = t]
           /\ UNCHANGED <<writer, shutdown>>
  <2>1. PICK t : Kept(t, cs[r]) /\ cs' = [cs EXCEPT ![r] = t]
    BY <1>3
  <2>. QED  BY <1>0, <1>1, <1>2, <1>3, <2>1, StreamOne, ConnStep
<1>4. CASE endStreamError(r, "proto")
  BY <1>0, <1>1, <1>2, <1>4, EndFacts, ConnStep
<1>5. CASE stopReader
  BY <1>0, <1>1, <1>2, <1>5, StreamSame, ConnStep DEF stopReader
<1>6. CASE /\ \E end \in BOOLEAN :
                LET s == [cs[r] EXCEPT !.res = IF end \/ r \in Heads THEN "noBody" ELSE "pipe"]
                IN  cs' = [cs EXCEPT ![r] = IF end THEN Ended(s) ELSE s]
           /\ UNCHANGED <<reader, writer, shutdown>>
  <2>1. PICK end \in BOOLEAN :
                LET s == [cs[r] EXCEPT !.res = IF end \/ r \in Heads THEN "noBody" ELSE "pipe"]
                IN  cs' = [cs EXCEPT ![r] = IF end THEN Ended(s) ELSE s]
    BY <1>6
  <2>. DEFINE s == [cs[r] EXCEPT !.res = IF end \/ r \in Heads THEN "noBody" ELSE "pipe"]
  <2>2. Kept(s, cs[r])
    BY <1>0 DEF Kept, StreamType
  <2>3. Kept(Ended(s), s)
    BY <2>2, EndFacts DEF Kept
  <2>4. Kept(Ended(s), cs[r])
    BY <2>2, <2>3 DEF Kept
  <2>5. cs' = [cs EXCEPT ![r] = IF end THEN Ended(s) ELSE s]
    BY <2>1
  <2>. HIDE DEF s
  <2>6. Kept(IF end THEN Ended(s) ELSE s, cs[r])
    BY <2>2, <2>4
  <2>. QED  BY <1>3, <1>6, <2>5, <2>6
<1>7. CASE cs' = [cs EXCEPT ![r] = Ended(@)] /\ UNCHANGED <<reader, writer, shutdown>>
  <2>1. Kept(Ended(cs[r]), cs[r])
    BY <1>0, EndFacts
  <2>. QED  BY <1>3, <1>7, <2>1
<1>. QED  BY <1>4, <1>5, <1>6, <1>7 DEF processHeaders

\* DATA frames (processData) are quiet.
LEMMA ProcessData ==
  ASSUME Types, NEW r \in Calls, processData(r)
  PROVE  Types' /\ Quiet
<1>0. /\ UNCHANGED <<callVars, err, reqHeaderMu, highest>> /\ cc' = cc
      /\ cs[r] \in StreamType /\ StreamTypes /\ "proto" \in Errors
  BY DEF processData, ghostVars, Types, StreamTypes, Errors
<1>1. RestTypes' /\ SameCounts
  BY <1>0, CountsSame DEF processData, Types, RestTypes, netVars, bgVars, ghostVars
<1>2. CASE endStreamError(r, "proto")
  BY <1>0, <1>1, <1>2, EndFacts, ConnStep
<1>3. CASE cs' = [cs EXCEPT ![r] = Ended(@)] /\ UNCHANGED <<writer, shutdown>>
  <2>1. Kept(Ended(cs[r]), cs[r])
    BY <1>0, EndFacts
  <2>. QED  BY <1>0, <1>1, <1>3, <2>1, StreamOne, ConnStep
<1>. QED  BY <1>2, <1>3 DEF processData

\* RST_STREAM (processResetStream) aborts a stream and is quiet.
LEMMA ProcessResetStream ==
  ASSUME Types, NEW r \in Calls, NEW e \in {"refused", "protoPeer", "peer"},
         processResetStream(r, e)
  PROVE  Types' /\ Quiet
<1>. DEFINE s == [cs[r] EXCEPT !.pipeClosed = TRUE]
<1>0. cs[r] \in StreamType /\ e \in Errors
  BY DEF Types, StreamTypes, Errors
<1>1. Kept(s, cs[r])
  BY <1>0 DEF StreamType, Kept
<1>2. Kept(Aborted(r, s, e), s)
  BY <1>0, <1>1, AbortedFacts DEF Kept
<1>3. Kept(Aborted(r, s, e), cs[r])
  BY <1>1, <1>2 DEF Kept
<1>4. StreamTypes' /\ \A q \in Calls : Kept(cs'[q], cs[q])
  BY <1>3, StreamOne DEF processResetStream, Types
<1>5. SameCounts
  BY DEF processResetStream, Types, SameCounts, ConnType
<1>6. RestTypes'
  BY DEF processResetStream, Types, RestTypes, netVars, bgVars
<1>. QED  BY <1>4, <1>5, <1>6, ConnStep DEF processResetStream

\* GOAWAY (setGoAway) aborts streams and is quiet.
LEMMA ProcessGoAway ==
  ASSUME Types, NEW last \in {0} \cup {cs[r].id : r \in Calls}, NEW code \in {"no", "error"},
         processGoAway(last, code)
  PROVE  Types' /\ Quiet
<1>. DEFINE c == IF cc.goAwayCode = "error" THEN "error" ELSE code
            e(r) == IF cs[r].id = 1 /\ c # "no" THEN "goAwayErr" ELSE "goAway"
<1>1. last \in Int
  BY Consts DEF Types, StreamTypes, StreamType
<1>2. SameCounts
  BY <1>1 DEF processGoAway, Types, SameCounts, ConnType
<1>3. RestTypes'
  BY DEF processGoAway, Types, RestTypes, netVars, bgVars
<1>4. \A r \in Calls : Kept(Aborted(r, cs[r], e(r)), cs[r]) /\ Kept(cs[r], cs[r])
  <2>. TAKE r \in Calls
  <2>1. cs[r] \in StreamType /\ e(r) \in Errors
    BY DEF Types, StreamTypes, Errors
  <2>. HIDE DEF e
  <2>. QED  BY <2>1, AbortedFacts, KeptRefl
<1>5. cs' = [r \in Calls |-> IF r \in Unprocessed(last) THEN Aborted(r, cs[r], e(r)) ELSE cs[r]]
  BY DEF processGoAway
<1>. HIDE DEF e
<1>6. \A r \in Calls : Kept(cs'[r], cs[r])
  BY <1>4, <1>5
<1>7. StreamTypes'
  BY <1>5, <1>6 DEF Kept, StreamTypes
<1>8. /\ UNCHANGED <<callVars, err, reqHeaderMu, highest>>
      /\ Broadcast(writer) \/ UNCHANGED <<writer, shutdown>>
  BY DEF processGoAway
<1>. QED  BY <1>2, <1>3, <1>6, <1>7, <1>8, ConnStep

\* SETTINGS (processSettings) change the limit and are quiet.
LEMMA ProcessSettings ==
  ASSUME Types, NEW limit \in env.limits, NEW windows \in BOOLEAN, processSettings(limit, windows)
  PROVE  Types' /\ Quiet
<1>1. limit \in Nat
  BY Consts DEF Types, RestTypes
<1>2. SameCounts
  BY <1>1 DEF processSettings, Types, SameCounts, ConnType
<1>3. werr' \in BOOLEAN
  BY WriteFacts DEF processSettings
<1>4. RestTypes'
  BY <1>3, Consts DEF processSettings, Types, RestTypes, ghostVars
<1>5. StreamTypes /\ cs' = cs
  BY DEF processSettings, Types
<1>6. /\ UNCHANGED <<callVars, err, reqHeaderMu, highest>>
      /\ Broadcast(writer) \/ UNCHANGED <<writer, shutdown>>
  BY DEF processSettings, ghostVars
<1>. QED  BY <1>2, <1>4, <1>5, <1>6, StreamSame, ConnStep

\* WINDOW_UPDATE, PING and read errors of the read loop are quiet.
LEMMA ReaderSteps ==
  ASSUME Types, processWindowUpdate \/ processPing \/ readError
  PROVE  Types' /\ Quiet
<1>1. /\ UNCHANGED <<callVars, err, reqHeaderMu, highest>> /\ cc' = cc /\ cs' = cs
      /\ Broadcast(writer) \/ UNCHANGED <<writer, shutdown>>
  BY DEF processWindowUpdate, processPing, readError, stopReader, ghostVars
<1>2. RestTypes'
  <2>1. werr' \in BOOLEAN
    BY WriteFacts DEF processWindowUpdate, processPing, readError, netVars, Types, RestTypes
  <2>. QED  BY <2>1 DEF processWindowUpdate, processPing, readError, stopReader, Types, RestTypes,
                        netVars, bgVars, ghostVars
<1>3. SameCounts /\ StreamTypes
  BY <1>1, CountsSame DEF Types
<1>. QED  BY <1>1, <1>2, <1>3, StreamSame, ConnStep

\* Closing the connection (cleanup, closeForLostPing) aborts streams and is quiet.
LEMMA Closing ==
  ASSUME Types, readLoopCleanup \/ lostPing
  PROVE  Types' /\ Quiet
<1>1. PICK d : closeForError("conn", d, cs, writer)
  BY DEF readLoopCleanup, lostPing
<1>2. "conn" \in Errors /\ cs \in [Calls -> StreamType] /\ writer \in [Calls -> WriterStates]
  BY DEF Types, StreamTypes, WriterTypes, Errors
<1>3. /\ StreamTypes' /\ SameCounts /\ tconn' = FALSE /\ Broadcast(writer)
      /\ \A q \in Calls : Kept(cs'[q], cs[q])
  <2>1. Broadcast(writer)
    BY <1>1 DEF closeForError
  <2>. QED  BY <1>1, <1>2, <2>1, CloseFacts DEF StreamTypes, SameCounts
<1>4. RestTypes'
  BY <1>3 DEF readLoopCleanup, lostPing, Types, RestTypes, bgVars, ghostVars
<1>5. UNCHANGED <<callVars, err, reqHeaderMu, highest>>
  BY DEF readLoopCleanup, lostPing, ghostVars
<1>. QED  BY <1>3, <1>4, <1>5, ConnStep

\* Shutdown and the idle timer change only flags of the connection.
LEMMA FlagStep ==
  ASSUME Types, SameCounts, RestTypes', UNCHANGED <<callVars, writer, err, cs, reqHeaderMu, highest>>,
         shutdown' \in {"no", "send", "check", "asleep", "done", "failed"}
  PROVE  Types' /\ Quiet
<1>1. CallTypes' /\ WriterTypes'
  BY CallSame DEF Types, WriterTypes
<1>2. /\ \A q \in Calls : Passes(writer[q], writer'[q])
      /\ StreamTypes' /\ \A q \in Calls : Kept(cs'[q], cs[q])
  BY WriterSame, StreamSame DEF Types
<1>. QED  BY <1>1, <1>2 DEF Types, Quiet, SameCounts

\* Shutdown is quiet.
LEMMA ShutdownStep ==
  ASSUME Types, Shutdown
  PROVE  Types' /\ Quiet
<1>1. SameCounts
  BY DEF Shutdown, Types, SameCounts, ConnType
<1>2. werr' \in BOOLEAN /\ tconn' \in BOOLEAN
  BY WriteFacts DEF Shutdown, Types, RestTypes
<1>3. RestTypes'
  BY <1>2 DEF Shutdown, Types, RestTypes, bgVars, ghostVars
<1>4. shutdown' \in {"no", "send", "check", "asleep", "done", "failed"}
  BY DEF Shutdown
<1>. QED  BY <1>1, <1>3, <1>4, FlagStep DEF Shutdown, ghostVars

\* The idle timer and closeIfIdle are quiet.
LEMMA OnIdleTimeout ==
  ASSUME Types, onIdleTimeout
  PROVE  Types' /\ Quiet
<1>1. SameCounts /\ tconn' \in BOOLEAN
  <2>1. CASE UNCHANGED <<cc, tconn>>
    BY <2>1, CountsSame DEF Types, RestTypes
  <2>2. CASE cc' = [cc EXCEPT !.closed = TRUE] /\ tconn' = FALSE
    BY <2>2 DEF Types, SameCounts, ConnType
  <2>. QED  BY <2>1, <2>2 DEF onIdleTimeout, closeIfIdle
<1>2. RestTypes'
  BY <1>1 DEF onIdleTimeout, Types, RestTypes, ghostVars
<1>. QED  BY <1>1, <1>2, FlagStep DEF onIdleTimeout, ghostVars, Types, WriterTypes

-----------------------------------------------------------------------------
(* The steps that open and end streams.                                    *)

IInv == Types /\ LockInv /\ OrderInv /\ ReservationsHeld /\ BodyReleased

\* HEADERS that leave in this step have the highest ID so far.
Ordered == \A r \in Calls : ~cs[r].sentHeaders /\ cs'[r].sentHeaders => cs[r].id > highest

\* How the number of reservation holders follows one of them.
LEMMA HoldersCount ==
  /\ IsFiniteSet(Holders) /\ Cardinality(Holders) \in Nat
  /\ \A r \in Calls \ Holders : Cardinality(Holders \cup {r}) = Cardinality(Holders) + 1
  /\ \A r \in Holders : /\ Cardinality(Holders \ {r}) = Cardinality(Holders) - 1
                        /\ Cardinality(Holders) >= 1
<1>1. IsFiniteSet(Holders)
  BY CallsFinite, FS_Subset DEF Holders
<1>2. Cardinality(Holders) \in Nat
  BY <1>1, FS_CardinalityType
<1>3. \A r \in Calls \ Holders : Cardinality(Holders \cup {r}) = Cardinality(Holders) + 1
  BY <1>1, FS_AddElement
<1>4. \A r \in Holders : Cardinality(Holders \ {r}) = Cardinality(Holders) - 1
  BY <1>1, FS_RemoveElement
<1>5. ASSUME NEW r \in Holders PROVE Cardinality(Holders) >= 1
  <2>1. Cardinality(Holders) # 0
    BY <1>1, FS_EmptySet
  <2>. QED  BY <1>2, <2>1
<1>. QED  BY <1>1, <1>2, <1>3, <1>4, <1>5

\* Steps that concern no reservation, no ID and no lock keep the invariant.
LEMMA QuietInv ==
  ASSUME IInv, Types', Quiet
  PROVE  IInv' /\ Ordered
<1>1. LockInv'
  BY DEF IInv, LockInv, Quiet, Passes
<1>2. OrderInv'
  BY DEF IInv, OrderInv, Quiet, Passes, Kept
<1>3. Holders' = Holders
  BY DEF Quiet, Passes, Holders, Holding
<1>4. ReservationsHeld'
  BY <1>3 DEF IInv, ReservationsHeld, Quiet
<1>5. BodyReleased'
  BY DEF IInv, BodyReleased, Quiet, Passes, Kept, HasBody
<1>6. Ordered
  BY DEF Ordered, Quiet, Kept
<1>. QED  BY <1>1, <1>2, <1>4, <1>5, <1>6 DEF IInv

\* decrStreamReservationsLocked takes one reservation off, never below zero.
LEMMA DecrFacts ==
  ASSUME NEW c \in ConnType
  PROVE  /\ decrStreamReservations(c) \in ConnType
         /\ decrStreamReservations(c).pendingRequests = c.pendingRequests
         /\ decrStreamReservations(c).nextStreamID = c.nextStreamID
         /\ decrStreamReservations(c).streamsReserved =
               IF c.streamsReserved > 0 THEN c.streamsReserved - 1 ELSE 0
BY DEF decrStreamReservations, ConnType

\* A request that fails early gives its reservation back (cleanupWriteRequest).
LEMMA ReturnReservation ==
  ASSUME IInv, NEW r \in Calls, returnReservation(r)
  PROVE  IInv' /\ Ordered
<1>1. writer \in [Calls -> WriterStates] /\ cc \in ConnType /\ writer[r] = "early"
  BY DEF IInv, Types, WriterTypes, returnReservation
<1>2. /\ cc' \in ConnType /\ cc'.pendingRequests = cc.pendingRequests
      /\ cc'.nextStreamID = cc.nextStreamID
      /\ cc'.streamsReserved = IF cc.streamsReserved > 0 THEN cc.streamsReserved - 1 ELSE 0
  BY <1>1, DecrFacts DEF returnReservation, Unreserved
<1>3. writer' = [writer EXCEPT ![r] = "cleanup"]
      /\ UNCHANGED <<callVars, err, cs, streams, env, reqHeaderMu, netVars, bgVars, shutdown,
                     ghostVars>>
  BY DEF returnReservation
<1>4. Types'
  <2>1. CallTypes'
    BY <1>3, CallSame DEF IInv, Types
  <2>2. WriterTypes' /\ StreamTypes' /\ RestTypes'
    BY <1>3 DEF IInv, Types, WriterTypes, StreamTypes, RestTypes, WriterStates,
                netVars, bgVars, ghostVars
  <2>. QED  BY <1>2, <2>1, <2>2 DEF Types
<1>5. LockInv'
  BY <1>1, <1>2, <1>3 DEF IInv, LockInv, Waiting
<1>6. OrderInv'
  BY <1>1, <1>2, <1>3 DEF IInv, OrderInv, ghostVars
<1>7. ReservationsHeld'
  <2>1. r \in Holders /\ Holders' = Holders \ {r}
    BY <1>1, <1>3 DEF Holders
  <2>2. cc.streamsReserved \in Nat
    BY <1>1 DEF ConnType
  <2>. QED  BY <1>2, <2>1, <2>2, HoldersCount DEF IInv, ReservationsHeld
<1>8. BodyReleased' /\ Ordered
  BY <1>1, <1>3 DEF IInv, BodyReleased, Ordered, HasBody
<1>. QED  BY <1>4, <1>5, <1>6, <1>7, <1>8 DEF IInv

\* RoundTripOpt reserves a stream or goes to another connection.
LEMMA RoundTripStep ==
  ASSUME IInv, NEW r \in Calls, RoundTripOpt(r)
  PROVE  IInv' /\ Ordered
<1>1. CASE caller' = [caller EXCEPT ![r] = "elsewhere"]
           /\ UNCHANGED <<cc, retry, writer, cs, err, disowned, rst>>
  <2>1. CallTypes'
    BY <1>1, CallerMoves DEF RoundTripOpt, IInv, Types, CallerStates
  <2>2. Types' /\ Quiet
    BY <1>1, <2>1, OnlyCalls DEF RoundTripOpt, ghostVars, IInv
  <2>. QED  BY <2>2, QuietInv
<1>2. CASE /\ writer[r] \in {"none", "done"} /\ retry[r] < MaxAttempts
           /\ canTakeNewRequest(cc)
           /\ cc' = [cc EXCEPT !.streamsReserved = @ + 1]
           /\ caller' = [caller EXCEPT ![r] = "select"]
           /\ retry' = [retry EXCEPT ![r] = @ + 1]
           /\ writer' = [writer EXCEPT ![r] = "start"]
           /\ cs' = [cs EXCEPT ![r] = NewStream]
           /\ err' = [err EXCEPT ![r] = "nil"]
           /\ disowned' = disowned \ {r} /\ rst' = rst \ {r}
  <2>0. UNCHANGED <<ctx, streams, env, reqHeaderMu, netVars, bgVars, shutdown, highest>>
    BY DEF RoundTripOpt
  <2>1. CallTypes'
    <3>1. retry[r] \in 0 .. RetryLimit + 1
      BY Consts DEF RoundTripOpt, IInv, Types, CallTypes, RetryBound
    <3>2. retry' \in [Calls -> 0 .. RetryLimit + 2]
      BY <1>2, <3>1, Consts DEF IInv, Types, CallTypes
    <3>. QED  BY <1>2, <2>0, <3>2 DEF IInv, Types, CallTypes, RetryBound, CallerStates
  <2>2. WriterTypes'
    BY <1>2, <2>0 DEF IInv, Types, WriterTypes, WriterStates, Errors
  <2>3. NewStream \in StreamType /\ NewStream.sentHeaders = FALSE
    BY Consts DEF NewStream, StreamType, Errors
  <2>4. StreamTypes' /\ \A q \in Calls : cs'[q] = IF q = r THEN NewStream ELSE cs[q]
    BY <1>2, <2>3 DEF IInv, Types, StreamTypes
  <2>5. /\ cc' \in ConnType /\ cc'.pendingRequests = cc.pendingRequests
        /\ cc'.nextStreamID = cc.nextStreamID
        /\ cc'.streamsReserved = cc.streamsReserved + 1 /\ cc.streamsReserved \in Nat
    BY <1>2 DEF IInv, Types, ConnType
  <2>6. RestTypes'
    BY <1>2, <2>0 DEF IInv, Types, RestTypes, netVars, bgVars
  <2>7. writer \in [Calls -> WriterStates]
    BY DEF IInv, Types, WriterTypes
  <2>8. \A q \in Calls : writer'[q] = IF q = r THEN "start" ELSE writer[q]
    BY <1>2, <2>7
  <2>9. LockInv'
    BY <1>2, <2>0, <2>5, <2>8 DEF IInv, LockInv, Waiting
  <2>10. OrderInv'
    BY <2>0, <2>4, <2>5, <2>8 DEF IInv, OrderInv
  <2>11. ReservationsHeld'
    <3>1. r \in Calls \ Holders /\ Holders' = Holders \cup {r}
      BY <1>2, <2>8 DEF Holders
    <3>. QED  BY <2>5, <3>1, HoldersCount DEF IInv, ReservationsHeld
  <2>12. BodyReleased' /\ Ordered
    BY <2>3, <2>4, <2>8 DEF IInv, BodyReleased, Ordered, HasBody
  <2>. QED  BY <2>1, <2>2, <2>4, <2>5, <2>6, <2>9, <2>10, <2>11, <2>12 DEF IInv, Types
<1>. QED  BY <1>1, <1>2 DEF RoundTripOpt

\* What a round of awaitOpenSlotForStreamLocked leaves, c being cc at its start.
SlotResult(r, c) ==
    /\ writer' \in [Calls -> WriterStates] /\ err' \in [Calls -> Errors]
    /\ writer'[r] \in {"early", "headers", "await"}
    /\ StreamTypes' /\ streams' \subseteq Calls
    /\ cc' \in ConnType /\ cc'.streamsReserved = c.streamsReserved
    /\ reqHeaderMu' \subseteq {r}
    /\ LockInv' /\ OrderInv'
    /\ \A q \in Calls \ {r} : writer'[q] = writer[q] /\ cs'[q] = cs[q]
    /\ cs'[r].sentHeaders = cs[r].sentHeaders

\* A round of awaitOpenSlotForStreamLocked by the holder of the lock.
LEMMA OpenSlotStep ==
  ASSUME Types, OrderInv, NEW r \in Calls, NEW c \in ConnType,
         c.pendingRequests = 0, c.nextStreamID = cc.nextStreamID,
         reqHeaderMu \subseteq {r}, highest' = highest,
         \A q \in Calls \ {r} : writer[q] \notin Waiting \cup {"headers"},
         \/ openSlot(r, c)
         \/ \E e \in Errors : ReturnEarly(r, e, c)
  PROVE  SlotResult(r, c)
<1>1. /\ writer \in [Calls -> WriterStates] /\ err \in [Calls -> Errors]
      /\ cs \in [Calls -> StreamType] /\ streams \subseteq Calls
      /\ "unusable" \in Errors
  BY DEF Types, WriterTypes, StreamTypes, RestTypes, Errors
<1>2. /\ c.nextStreamID \in Nat /\ highest \in Int /\ highest < c.nextStreamID
  BY Consts DEF Types, RestTypes, OrderInv, ConnType
<1>3. ASSUME NEW e \in Errors, ReturnEarly(r, e, c)
      PROVE  SlotResult(r, c)
  <2>1. \A q \in Calls : writer'[q] = IF q = r THEN "early" ELSE writer[q]
    BY <1>1, <1>3 DEF ReturnEarly
  <2>2. /\ writer' \in [Calls -> WriterStates] /\ err' \in [Calls -> Errors]
        /\ cc' = c /\ cs' = cs /\ streams' = streams /\ reqHeaderMu' \subseteq {r}
    BY <1>1, <1>3 DEF ReturnEarly, WriterStates
  <2>3. LockInv'
    BY <2>1, <2>2 DEF LockInv, Waiting
  <2>4. OrderInv'
    BY <1>2, <2>1, <2>2 DEF OrderInv
  <2>. QED  BY <1>1, <2>1, <2>2, <2>3, <2>4 DEF SlotResult, StreamTypes
<1>4. ASSUME canTakeNewRequest(c), addStream(r, c)
      PROVE  SlotResult(r, c)
  <2>1. \A q \in Calls : writer'[q] = IF q = r THEN "headers" ELSE writer[q]
    BY <1>1, <1>4 DEF addStream
  <2>2. /\ writer' \in [Calls -> WriterStates] /\ err' = err /\ streams' \subseteq Calls
        /\ reqHeaderMu' = {r}
    BY <1>1, <1>4 DEF addStream, WriterStates
  <2>3. /\ cc' \in ConnType /\ cc'.pendingRequests = 0
        /\ cc'.nextStreamID = c.nextStreamID + 2 /\ cc'.streamsReserved = c.streamsReserved
    <3>. DEFINE b == c.doNotReuse \/ r \in CloseCalls
    <3>1. b \in BOOLEAN
      OBVIOUS
    <3>2. cc' = [c EXCEPT !.nextStreamID = @ + 2, !.doNotReuse = b]
      BY <1>4 DEF addStream
    <3>. DEFINE k == [c EXCEPT !.nextStreamID = @ + 2]
    <3>3. /\ k \in ConnType /\ k.pendingRequests = 0
          /\ k.nextStreamID = c.nextStreamID + 2 /\ k.streamsReserved = c.streamsReserved
      BY DEF ConnType
    <3>4. cc' = [k EXCEPT !.doNotReuse = b]
      BY <3>2
    <3>. HIDE DEF b, k
    <3>. QED  BY <3>1, <3>3, <3>4 DEF ConnType
  <2>4. c.nextStreamID \in 0 .. MaxStreamID - 1
    <3>1. ~(c.nextStreamID + 2 * c.pendingRequests >= MaxStreamID)
      BY <1>4 DEF canTakeNewRequest, lastStreamID
    <3>. QED  BY <1>2, <3>1, Consts
  <2>5. /\ cs' \in [Calls -> StreamType] /\ cs'[r].id = c.nextStreamID
        /\ cs'[r].sentHeaders = cs[r].sentHeaders
        /\ \A q \in Calls \ {r} : cs'[q] = cs[q]
    BY <1>1, <1>4, <2>4 DEF addStream, StreamType
  <2>6. LockInv'
    BY <2>1, <2>2, <2>3 DEF LockInv, Waiting
  <2>7. OrderInv'
    BY <1>2, <2>1, <2>3, <2>5 DEF OrderInv
  <2>. QED  BY <1>1, <2>1, <2>2, <2>3, <2>5, <2>6, <2>7 DEF SlotResult, StreamTypes
<1>5. ASSUME cc' = [c EXCEPT !.pendingRequests = @ + 1],
             writer' = [writer EXCEPT ![r] = "await"], reqHeaderMu' = {r},
             UNCHANGED <<err, cs, streams>>
      PROVE  SlotResult(r, c)
  <2>1. \A q \in Calls : writer'[q] = IF q = r THEN "await" ELSE writer[q]
    BY <1>1, <1>5
  <2>2. /\ writer' \in [Calls -> WriterStates] /\ err' = err /\ streams' = streams /\ cs' = cs
    BY <1>1, <1>5 DEF WriterStates
  <2>3. /\ cc' \in ConnType /\ cc'.pendingRequests = 1
        /\ cc'.nextStreamID = c.nextStreamID /\ cc'.streamsReserved = c.streamsReserved
    BY <1>5 DEF ConnType
  <2>4. LockInv'
    BY <1>5, <2>1, <2>3 DEF LockInv, Waiting
  <2>5. OrderInv'
    BY <1>2, <2>1, <2>2, <2>3 DEF OrderInv
  <2>. QED  BY <1>1, <1>5, <2>1, <2>2, <2>3, <2>4, <2>5 DEF SlotResult, StreamTypes
<1>. QED  BY <1>1, <1>3, <1>4, <1>5 DEF openSlot

\* The rest of the invariant after a SlotResult.
LEMMA SlotInv ==
  ASSUME IInv, NEW r \in Calls, NEW c \in ConnType, SlotResult(r, c),
         writer[r] \in {"start", "awake"},
         IF writer[r] = "start"
         THEN c.streamsReserved = IF cc.streamsReserved > 0 THEN cc.streamsReserved - 1 ELSE 0
         ELSE c.streamsReserved = cc.streamsReserved,
         UNCHANGED <<callVars, env, netVars, reader, settings, shutdown, ghostVars>>,
         idleTimer' \subseteq {"armed", "firing"}
  PROVE  IInv' /\ Ordered
<1>1. Types'
  <2>1. CallTypes'
    BY CallSame DEF IInv, Types
  <2>2. WriterTypes'
    BY DEF SlotResult, IInv, Types, WriterTypes
  <2>3. RestTypes'
    BY DEF SlotResult, IInv, Types, RestTypes, netVars, ghostVars
  <2>. QED  BY <2>1, <2>2, <2>3 DEF SlotResult, Types
<1>2. ReservationsHeld'
  <2>0. cc.streamsReserved \in Nat /\ c.streamsReserved \in Nat
        /\ cc.streamsReserved <= Cardinality(Holders) /\ cc'.streamsReserved = c.streamsReserved
    BY DEF IInv, Types, ConnType, ReservationsHeld, SlotResult
  <2>1. CASE writer[r] = "start"
    <3>1. r \in Holders
      BY <2>1 DEF Holders
    <3>2. Holders' = Holders \/ Holders' = Holders \ {r}
      BY <2>1 DEF Holders, SlotResult
    <3>. QED  BY <2>0, <2>1, <3>1, <3>2, HoldersCount DEF ReservationsHeld
  <2>2. CASE writer[r] = "awake"
    <3>1. r \in Calls \ Holders
      BY <2>2 DEF Holders
    <3>2. Holders' = Holders \/ Holders' = Holders \cup {r}
      BY <2>2 DEF Holders, SlotResult
    <3>. QED  BY <2>0, <2>2, <3>1, <3>2, HoldersCount DEF ReservationsHeld
  <2>. QED  BY <2>1, <2>2
<1>3. BodyReleased' /\ Ordered
  BY DEF IInv, BodyReleased, Ordered, SlotResult, HasBody
<1>. QED  BY <1>1, <1>2, <1>3 DEF IInv, SlotResult

\* A woken writer looks for a slot again (awaitOpenSlotForStreamLocked).
LEMMA AwaitOpenSlot ==
  ASSUME IInv, NEW r \in Calls, awaitOpenSlot(r)
  PROVE  IInv' /\ Ordered
<1>. DEFINE c == [cc EXCEPT !.pendingRequests = @ - 1]
<1>1. writer[r] = "awake" /\ reqHeaderMu = {r} /\ cc.pendingRequests = 1
  BY DEF IInv, awaitOpenSlot, LockInv, Waiting
<1>2. /\ c \in ConnType /\ c.pendingRequests = 0 /\ c.nextStreamID = cc.nextStreamID
      /\ c.streamsReserved = cc.streamsReserved
  BY <1>1 DEF IInv, Types, ConnType
<1>3. \A q \in Calls \ {r} : writer[q] \notin Waiting \cup {"headers"}
  BY <1>1 DEF IInv, LockInv
<1>4. cs[r].abort \in Errors
  BY DEF IInv, Types, StreamTypes, StreamType
<1>5. openSlot(r, c) \/ \E e \in Errors : ReturnEarly(r, e, c)
  BY <1>4 DEF awaitOpenSlot
<1>6. /\ UNCHANGED <<callVars, env, netVars, reader, settings, shutdown, ghostVars>>
      /\ highest' = highest /\ idleTimer' \subseteq {"armed", "firing"}
  BY DEF awaitOpenSlot, bgVars, ghostVars, IInv, Types, RestTypes
<1>. HIDE DEF c
<1>7. SlotResult(r, c)
  BY <1>1, <1>2, <1>3, <1>5, <1>6, OpenSlotStep DEF IInv
<1>. QED  BY <1>1, <1>2, <1>6, <1>7, SlotInv

\* writeRequest takes the lock and turns its reservation into a stream.
LEMMA OpenStream ==
  ASSUME IInv, NEW r \in Calls, openStream(r)
  PROVE  IInv' /\ Ordered
<1>0. /\ writer[r] = "start" /\ cc \in ConnType /\ {"bad", "ctx"} \subseteq Errors
      /\ UNCHANGED <<callVars, env, netVars, reader, settings, shutdown, ghostVars>>
      /\ highest' = highest
  BY DEF openStream, ghostVars, IInv, Types, Errors
<1>1. CASE reqHeaderMu = {} /\ idleTimer' = idleTimer \ {"armed"}
           /\ openSlot(r, decrStreamReservations(cc))
  <2>. DEFINE c == decrStreamReservations(cc)
  <2>1. \A q \in Calls : writer[q] \notin Waiting \cup {"headers"}
    BY <1>1 DEF IInv, LockInv
  <2>2. cc.pendingRequests = 0
    BY <2>1 DEF IInv, LockInv
  <2>3. /\ c \in ConnType /\ c.pendingRequests = 0 /\ c.nextStreamID = cc.nextStreamID
        /\ c.streamsReserved = IF cc.streamsReserved > 0 THEN cc.streamsReserved - 1 ELSE 0
    BY <1>0, <2>2, DecrFacts
  <2>4. idleTimer' \subseteq {"armed", "firing"}
    BY <1>1 DEF IInv, Types, RestTypes
  <2>. HIDE DEF c
  <2>5. openSlot(r, c)
    BY <1>1 DEF c
  <2>6. SlotResult(r, c)
    BY <1>0, <1>1, <2>1, <2>3, <2>5, OpenSlotStep DEF IInv
  <2>. QED  BY <1>0, <2>3, <2>4, <2>6, SlotInv
<1>2. CASE (\E e \in Errors : ReturnEarly(r, e, cc)) /\ UNCHANGED idleTimer
  <2>1. PICK e \in Errors : ReturnEarly(r, e, cc)
    BY <1>2
  <2>2. /\ writer' = [writer EXCEPT ![r] = "early"] /\ err' = [err EXCEPT ![r] = e]
        /\ cc' = cc /\ UNCHANGED <<cs, streams>> /\ reqHeaderMu' = reqHeaderMu \ {r}
    BY <2>1 DEF ReturnEarly
  <2>3. /\ writer \in [Calls -> WriterStates]
        /\ \A q \in Calls : writer'[q] = IF q = r THEN "early" ELSE writer[q]
    BY <2>2 DEF IInv, Types, WriterTypes
  <2>4. Types'
    <3>1. CallTypes'
      BY <1>0, CallSame DEF IInv, Types
    <3>2. WriterTypes' /\ StreamTypes' /\ RestTypes'
      BY <1>0, <1>2, <2>2 DEF IInv, Types, WriterTypes, StreamTypes, RestTypes, WriterStates,
                              netVars, ghostVars
    <3>. QED  BY <1>0, <2>2, <3>1, <3>2 DEF Types
  <2>5. LockInv'
    BY <1>0, <2>2, <2>3 DEF IInv, LockInv, Waiting
  <2>6. OrderInv'
    BY <1>0, <2>2, <2>3 DEF IInv, OrderInv
  <2>7. Holders' = Holders
    BY <1>0, <2>3 DEF Holders
  <2>8. ReservationsHeld' /\ BodyReleased' /\ Ordered
    BY <2>2, <2>3, <2>7 DEF IInv, ReservationsHeld, BodyReleased, Ordered, HasBody
  <2>. QED  BY <2>4, <2>5, <2>6, <2>8 DEF IInv
<1>. QED  BY <1>0, <1>1, <1>2 DEF openStream

\* HEADERS are written with the lock held (encodeAndWriteHeaders).
LEMMA EncodeAndWriteHeaders ==
  ASSUME IInv, NEW r \in Calls, encodeAndWriteHeaders(r)
  PROVE  IInv' /\ Ordered
<1>1. /\ writer[r] = "headers" /\ reqHeaderMu' = {} /\ reqHeaderMu = {r}
      /\ UNCHANGED <<callVars, streams, cc, env, tconn, bgVars, shutdown, disowned, rst>>
  BY DEF encodeAndWriteHeaders, IInv, LockInv
<1>2. /\ cs[r].id > highest /\ cs[r].id \in 0 .. MaxStreamID - 1 /\ cs[r].abort \in Errors
      /\ {"ctx", "bad", "write"} \subseteq Errors /\ highest < cc.nextStreamID
  BY <1>1 DEF IInv, OrderInv, Types, StreamTypes, StreamType, Errors
<1>3. /\ highest' = highest \/ highest' = cs[r].id
      /\ \/ (\E e \in Errors : Return(r, e))
         \/ /\ \E a \in {"continue", "wait"} : writer' = [writer EXCEPT ![r] = a]
            /\ UNCHANGED err
  BY <1>2 DEF encodeAndWriteHeaders
<1>4. werr' \in BOOLEAN
  BY WriteFacts DEF encodeAndWriteHeaders, IInv, Types, RestTypes
<1>5. /\ writer' \in [Calls -> WriterStates] /\ err' \in [Calls -> Errors]
      /\ writer'[r] \in {"cleanup", "continue", "wait"}
      /\ \A q \in Calls \ {r} : writer'[q] = writer[q]
  BY <1>3 DEF Return, IInv, Types, WriterTypes, WriterStates
<1>6. /\ StreamTypes' /\ \A q \in Calls : cs'[q].id = cs[q].id
      /\ \A q \in Calls : cs'[q].reqBodyClosed = cs[q].reqBodyClosed
      /\ \A q \in Calls \ {r} : cs'[q] = cs[q]
  <2>1. cs \in [Calls -> StreamType]
    BY DEF IInv, Types, StreamTypes
  <2>2. CASE cs' = cs
    BY <2>1, <2>2 DEF StreamTypes
  <2>3. CASE cs' = [cs EXCEPT ![r].sentHeaders = TRUE]
    <3>. DEFINE t == [cs[r] EXCEPT !.sentHeaders = TRUE]
    <3>1. t \in StreamType /\ t.id = cs[r].id /\ t.reqBodyClosed = cs[r].reqBodyClosed
      BY <2>1 DEF StreamType
    <3>2. cs' = [cs EXCEPT ![r] = t]
      BY <2>3
    <3>. HIDE DEF t
    <3>. QED  BY <2>1, <3>1, <3>2 DEF StreamTypes
  <2>4. CASE cs' = [cs EXCEPT ![r].sentHeaders = TRUE, ![r].sentEndStream = ~HasBody(r),
                              ![r].endStream = ~HasBody(r) /\ r \notin Trailers]
    <3>. DEFINE b == ~HasBody(r)
                c == ~HasBody(r) /\ r \notin Trailers
    <3>1. b \in BOOLEAN /\ c \in BOOLEAN
      OBVIOUS
    <3>. DEFINE t == [cs[r] EXCEPT !.sentHeaders = TRUE]
                u == [t EXCEPT !.sentEndStream = b, !.endStream = c]
    <3>2. t \in StreamType /\ t.id = cs[r].id /\ t.reqBodyClosed = cs[r].reqBodyClosed
      BY <2>1 DEF StreamType
    <3>3. cs' = [cs EXCEPT ![r] = u]
      BY <2>4
    <3>. HIDE DEF b, c, t
    <3>4. u \in StreamType /\ u.id = cs[r].id /\ u.reqBodyClosed = cs[r].reqBodyClosed
      BY <3>1, <3>2 DEF StreamType
    <3>. HIDE DEF u
    <3>. QED  BY <2>1, <3>3, <3>4 DEF StreamTypes
  <2>. QED  BY <2>2, <2>3, <2>4 DEF encodeAndWriteHeaders
<1>7. Types'
  <2>1. CallTypes'
    BY <1>1, CallSame DEF IInv, Types
  <2>2. WriterTypes' /\ RestTypes'
    BY <1>1, <1>2, <1>3, <1>4, <1>5 DEF IInv, Types, WriterTypes, RestTypes, bgVars
  <2>. QED  BY <1>1, <1>6, <2>1, <2>2 DEF IInv, Types
<1>8. \A q \in Calls : writer'[q] \notin Waiting \cup {"headers"}
  BY <1>1, <1>5 DEF IInv, LockInv, Waiting
<1>9. cc.pendingRequests = 0
  BY <1>1 DEF IInv, LockInv, Waiting
<1>10. LockInv'
  BY <1>1, <1>8, <1>9 DEF LockInv
<1>11. OrderInv'
  <2>1. cs[r].id < cc.nextStreamID
    BY <1>1 DEF IInv, OrderInv
  <2>. QED  BY <1>1, <1>2, <1>3, <1>8, <2>1 DEF OrderInv
<1>12. ReservationsHeld'
  <2>1. Holders' = Holders
    BY <1>1, <1>5 DEF Holders
  <2>. QED  BY <1>1, <2>1 DEF IInv, ReservationsHeld
<1>13. BodyReleased' /\ Ordered
  BY <1>1, <1>2, <1>5, <1>6 DEF IInv, BodyReleased, Ordered, HasBody
<1>. QED  BY <1>7, <1>10, <1>11, <1>12, <1>13 DEF IInv

\* cleanupWriteRequest ends the stream and has closed the body.
LEMMA CleanupWriteRequest ==
  ASSUME IInv, NEW r \in Calls, cleanupWriteRequest(r)
  PROVE  IInv' /\ Ordered
<1>. DEFINE d == streams \ {r}
            e == IF cs[r].sentEndStream /\ cs[r].peerClosed THEN "nil" ELSE err[r]
            s == [cs EXCEPT ![r] = Released(r, e)]
            wr == [writer EXCEPT ![r] = "done"]
            close == cs[r].id # 0 /\ closeOnIdle(d)
<1>1. /\ writer[r] = "cleanup" /\ cs[r] \in StreamType /\ e \in Errors
      /\ writer \in [Calls -> WriterStates] /\ cc \in ConnType
      /\ UNCHANGED <<callVars, env, reqHeaderMu, reader, settings, disowned, highest>>
      /\ err' \in [Calls -> Errors]
  BY DEF cleanupWriteRequest, IInv, Types, WriterTypes, StreamTypes, Errors
<1>2. Kept(Released(r, e), cs[r]) /\ (HasBody(r) => Released(r, e).reqBodyClosed = "closed")
  <2>. HIDE DEF e
  <2>. QED  BY <1>1 DEF Released, Kept, StreamType
<1>3. /\ s \in [Calls -> StreamType] /\ \A q \in Calls : Kept(s[q], cs[q])
      /\ HasBody(r) => s[r].reqBodyClosed = "closed"
  <2>. HIDE DEF e
  <2>1. cs \in [Calls -> StreamType] /\ Released(r, e) \in StreamType
    BY <1>2 DEF IInv, Types, StreamTypes, Kept
  <2>2. \A q \in Calls : s[q] = IF q = r THEN Released(r, e) ELSE cs[q]
    BY <2>1
  <2>3. s \in [Calls -> StreamType]
    BY <2>1
  <2>. HIDE DEF s
  <2>. QED  BY <1>2, <2>1, <2>2, <2>3, KeptRefl
<1>4. wr \in [Calls -> WriterStates] /\ \A q \in Calls : wr[q] = IF q = r THEN "done" ELSE writer[q]
  BY <1>1 DEF WriterStates
<1>5. /\ werr' \in BOOLEAN /\ rst' \subseteq Calls
      /\ idleTimer' \subseteq {"armed", "firing"} /\ streams' \subseteq Calls
  <2>1. rst' = rst \cup {r} \/ rst' = rst
    BY DEF cleanupWriteRequest
  <2>2. werr' \in BOOLEAN
    BY WriteFacts DEF cleanupWriteRequest, IInv, Types, RestTypes
  <2>3. streams' = streams \/ streams' = d
    BY DEF cleanupWriteRequest, forgetStreamID
  <2>4. idleTimer' = idleTimer \/ idleTimer' = idleTimer \cup {"armed"}
    BY DEF cleanupWriteRequest, forgetStreamID
  <2>. QED  BY <2>1, <2>2, <2>3, <2>4 DEF IInv, Types, RestTypes
<1>6. \/ closeForError("conn", d, s, wr)
      \/ /\ cs' = s /\ Broadcast(wr)
         /\ cc' = [cc EXCEPT !.closed = @ \/ close] /\ tconn' = (tconn /\ ~close)
  BY DEF cleanupWriteRequest, Done
<1>. HIDE DEF d, s, wr, e, close
<1>7. /\ cs' \in [Calls -> StreamType] /\ cc' \in ConnType /\ tconn' \in BOOLEAN
      /\ cc'.pendingRequests = cc.pendingRequests
      /\ cc'.nextStreamID = cc.nextStreamID
      /\ cc'.streamsReserved = cc.streamsReserved
      /\ writer' \in [Calls -> WriterStates]
      /\ shutdown' \in {"no", "send", "check", "asleep", "done", "failed"}
      /\ \A q \in Calls : Passes(wr[q], writer'[q]) /\ Kept(cs'[q], s[q])
  <2>1. CASE closeForError("conn", d, s, wr)
    <3>1. "conn" \in Errors /\ Types
      BY DEF Errors, IInv
    <3>. QED  BY <1>3, <1>4, <2>1, <3>1, CloseFacts
  <2>2. CASE /\ cs' = s /\ Broadcast(wr)
             /\ cc' = [cc EXCEPT !.closed = @ \/ close] /\ tconn' = (tconn /\ ~close)
    <3>1. (cc.closed \/ close) \in BOOLEAN /\ tconn' \in BOOLEAN
      BY <2>2
    <3>. DEFINE b == cc.closed \/ close
    <3>2. cc' = [cc EXCEPT !.closed = b] /\ b \in BOOLEAN
      BY <2>2, <3>1
    <3>. HIDE DEF b
    <3>3. /\ cc' \in ConnType /\ cc'.pendingRequests = cc.pendingRequests
          /\ cc'.nextStreamID = cc.nextStreamID /\ cc'.streamsReserved = cc.streamsReserved
      BY <1>1, <3>2 DEF ConnType
    <3>4. \A q \in Calls : Kept(cs'[q], s[q])
      BY <1>3, <2>2, KeptRefl
    <3>. QED  BY <1>3, <1>4, <2>2, <3>1, <3>3, <3>4, BroadcastFacts DEF IInv, Types
  <2>. QED  BY <1>6, <2>1, <2>2
<1>8. \A q \in Calls : Kept(cs'[q], cs[q])
  BY <1>3, <1>7 DEF Kept
<1>9. Types'
  <2>1. CallTypes'
    BY <1>1, CallSame DEF IInv, Types
  <2>2. WriterTypes' /\ StreamTypes' /\ RestTypes'
    BY <1>1, <1>5, <1>7 DEF IInv, Types, WriterTypes, StreamTypes, RestTypes
  <2>. QED  BY <1>7, <2>1, <2>2 DEF Types
<1>10. \A q \in Calls : /\ writer'[q] \in Waiting <=> writer[q] \in Waiting
                        /\ writer'[q] \in Holding <=> writer[q] \in Holding
                        /\ writer'[q] = "headers" <=> writer[q] = "headers"
                        /\ writer'[q] = "done" <=> (q = r \/ writer[q] = "done")
  BY <1>1, <1>4, <1>7 DEF Passes, Waiting, Holding
<1>11. LockInv'
  BY <1>1, <1>7, <1>10 DEF IInv, LockInv
<1>12. OrderInv'
  BY <1>1, <1>7, <1>8, <1>10 DEF IInv, OrderInv, Kept
<1>13. ReservationsHeld'
  <2>1. Holders' = Holders
    BY <1>10 DEF Holders, Holding
  <2>. QED  BY <1>7, <2>1 DEF IInv, ReservationsHeld
<1>14. BodyReleased'
  BY <1>3, <1>7, <1>8, <1>10 DEF IInv, BodyReleased, HasBody, Kept
<1>15. Ordered
  BY <1>8 DEF Ordered, Kept
<1>. QED  BY <1>9, <1>11, <1>12, <1>13, <1>14, <1>15 DEF IInv

-----------------------------------------------------------------------------
(* The theorems.                                                           *)

\* A new connection (newClientConn) satisfies the invariant.
LEMMA InitIInv == Init => IInv
<1>. SUFFICES ASSUME Init PROVE IInv
  OBVIOUS
<1>1. NewStream \in StreamType
  BY Consts DEF NewStream, StreamType, Errors
<1>2. env.initialMax \in Nat /\ env \in Scenarios
  BY Consts DEF Init
<1>3. CallTypes
  BY Consts DEF Init, CallTypes, RetryBound, CallerStates
<1>4. WriterTypes /\ StreamTypes
  BY <1>1 DEF Init, WriterTypes, StreamTypes, WriterStates, Errors
<1>5. cc \in ConnType
  BY <1>2 DEF Init, ConnType
<1>6. RestTypes
  <2>1. idleTimer \subseteq {"armed", "firing"}
    BY DEF Init
  <2>2. settings \in 0 .. MaxSettings /\ highest \in 0 .. MaxStreamID - 1
    BY Consts DEF Init
  <2>. QED  BY <1>2, <2>1, <2>2 DEF Init, RestTypes
<1>7. /\ writer = [r \in Calls |-> "none"] /\ cc.pendingRequests = 0
      /\ cc.nextStreamID = 1 /\ cc.streamsReserved = 0 /\ highest = 0
  BY DEF Init
<1>8. LockInv /\ OrderInv /\ BodyReleased
  BY <1>7 DEF LockInv, OrderInv, BodyReleased, Waiting
<1>9. ReservationsHeld
  BY <1>7, HoldersCount DEF ReservationsHeld
<1>. QED  BY <1>3, <1>4, <1>5, <1>6, <1>8, <1>9 DEF IInv, Types

\* Every step keeps the invariant and the order of HEADERS.
LEMMA NextIInv ==
  ASSUME IInv, [Next]_vars
  PROVE  IInv' /\ Ordered
<1>0. Types
  BY DEF IInv
<1>1. ASSUME NEW r \in Calls, RoundTripOpt(r) PROVE IInv' /\ Ordered
  BY <1>1, RoundTripStep
<1>2. ASSUME NEW r \in Calls, CloseBody(r) PROVE IInv' /\ Ordered
  BY <1>0, <1>2, CloseBodyStep, QuietInv
<1>3. ASSUME NEW r \in Calls, callerStep(r) PROVE IInv' /\ Ordered
  BY <1>0, <1>3, HandleResponseHeaders, WaitDone, CancelRequest, ReqBodyClose, BackoffCanceled,
     QuietInv DEF callerStep
<1>4. ASSUME NEW r \in Calls, writerStep(r) PROVE IInv' /\ Ordered
  <2>1. CASE \/ openStream(r) \/ awaitOpenSlot(r) \/ returnReservation(r)
             \/ encodeAndWriteHeaders(r) \/ cleanupWriteRequest(r)
    BY <2>1, OpenStream, AwaitOpenSlot, ReturnReservation, EncodeAndWriteHeaders,
       CleanupWriteRequest
  <2>2. CASE awaitContinue(r) \/ readRequestBody(r) \/ awaitFlowControl(r) \/ awaitPeer(r)
    BY <1>0, <2>2, AwaitContinue, ReadRequestBody, AwaitFlowControl, AwaitPeer, QuietInv
  <2>. QED  BY <1>4, <2>1, <2>2 DEF writerStep
<1>5. ASSUME NEW r \in Calls, frame(r) PROVE IInv' /\ Ordered
  BY <1>0, <1>5, ProcessHeaders, ProcessData, ProcessResetStream, QuietInv DEF frame
<1>6. ASSUME NEW r \in Calls, cancel(r) PROVE IInv' /\ Ordered
  BY <1>0, <1>6, Cancel, QuietInv
<1>7. CASE connStep
  <2>1. ASSUME NEW last \in {0} \cup {cs[r].id : r \in Calls}, NEW code \in {"no", "error"},
               processGoAway(last, code)
        PROVE  IInv' /\ Ordered
    BY <1>0, <2>1, ProcessGoAway, QuietInv
  <2>2. ASSUME NEW limit \in env.limits, NEW windows \in BOOLEAN, processSettings(limit, windows)
        PROVE  IInv' /\ Ordered
    BY <1>0, <2>2, ProcessSettings, QuietInv
  <2>3. CASE processWindowUpdate \/ processPing \/ readError
    BY <1>0, <2>3, ReaderSteps, QuietInv
  <2>4. CASE readLoopCleanup \/ lostPing
    BY <1>0, <2>4, Closing, QuietInv
  <2>5. CASE Shutdown \/ onIdleTimeout
    BY <1>0, <2>5, ShutdownStep, OnIdleTimeout, QuietInv
  <2>. QED  BY <1>7, <2>1, <2>2, <2>3, <2>4, <2>5 DEF connStep
<1>8. CASE UNCHANGED vars
  <2>1. /\ UNCHANGED <<callVars, writer, err, cs, streams, cc, env, reqHeaderMu, netVars,
                       bgVars, shutdown, ghostVars>>
    BY <1>8 DEF vars, callVars, netVars, bgVars, ghostVars
  <2>2. CallTypes'
    BY <1>0, <2>1, CallSame DEF Types
  <2>3. Types' /\ Quiet
    BY <1>0, <2>1, <2>2, OnlyCalls
  <2>. QED  BY <2>3, QuietInv
<1>. QED  BY <1>1, <1>2, <1>3, <1>4, <1>5, <1>6, <1>7, <1>8 DEF Next

\* The invariant always holds.
LEMMA SpecIInv == Spec => []IInv
<1>1. Init => IInv
  BY InitIInv
<1>2. IInv /\ [Next]_vars => IInv'
  BY NextIInv
<1>. QED  BY <1>1, <1>2, PTL DEF Spec

\* Every field of the connection and of its streams keeps its type: no counter
\* becomes negative, stream IDs stay below MaxInt32 and the number of attempts
\* within the limit of RoundTripOpt.
THEOREM TypeCorrect == Spec => []TypeOK
<1>1. IInv => TypeOK
  BY TypesIff DEF IInv
<1>. QED  BY <1>1, SpecIInv, PTL

\* Every exit of writeRequest gives its reservation back.
THEOREM ReservationsReturned == Spec => []ReservationsHeld
<1>1. IInv => ReservationsHeld
  BY DEF IInv
<1>. QED  BY <1>1, SpecIInv, PTL

\* The request body is closed when the goroutine of a request ends
\* (cleanupWriteRequest), whoever closed it.
THEOREM BodiesReleased == Spec => []BodyReleased
<1>1. IInv => BodyReleased
  BY DEF IInv
<1>. QED  BY <1>1, SpecIInv, PTL

\* HEADERS are written in the order of the stream IDs: writeRequest keeps
\* reqHeaderMu from addStreamLocked to encodeAndWriteHeaders.
THEOREM HeadersInOrder == Spec => OpenInOrder
<1>1. IInv /\ [Next]_vars =>
        [\A r \in Calls : ~cs[r].sentHeaders /\ cs'[r].sentHeaders => cs[r].id > highest]_vars
  BY NextIInv DEF Ordered
<1>. QED  BY <1>1, SpecIInv, PTL DEF Spec, OpenInOrder

(***************************************************************************)
(* The end of a stream: the second layer, over the invariant IInv.         *)
(***************************************************************************)

-----------------------------------------------------------------------------
(* The inductive invariant.                                                *)

\* The errors of a RST_STREAM from the peer, and those with which the server
\* says that it did not process the stream.
ResetErrors == {"refused", "protoPeer", "peer"}
DisownErrors == {"goAway", "refused"}

\* The stages before HEADERS are written.
Unsent == {"none", "start", "early", "await", "awake", "headers"}

\* An error of r that the peer caused came with the frame that causes it.
Reason(r, e) ==
    /\ e \in ResetErrors => r \in rst
    /\ e \in DisownErrors => r \in disowned

\* The errors a stream was aborted with and writeRequest returned have their
\* reason; errClientConnUnusable is returned only before HEADERS were sent.
Reasons(r) ==
    /\ Reason(r, cs[r].abort) /\ Reason(r, err[r])
    /\ cs[r].abort = "unusable" => writer[r] = "done" /\ ~cs[r].sentHeaders
    /\ err[r] = "unusable" => writer[r] \in {"early", "cleanup"} /\ ~cs[r].sentHeaders

\* How far the stream of r is for the peer: not opened, or, when writeRequest
\* returned without an error, ended by it, or over.  Where sentEndStream is
\* set END_STREAM went out, but for a request that never sends it.
Progress(r) ==
    /\ writer[r] \in Unsent => ~cs[r].sentHeaders
    /\ writer[r] = "cleanup" /\ err[r] = "nil" /\ cs[r].sentHeaders => cs[r].peerClosed
    /\ writer[r] = "done" /\ cs[r].sentHeaders =>
          (cs[r].peerClosed /\ (cs[r].endStream \/ NeverEnded(r))) \/ r \in rst
    /\ cs[r].sentEndStream => cs[r].endStream \/ NeverEnded(r)

\* A call that will be repeated was not processed, and cannot be any more.
Repeatable(r) ==
    caller[r] = "again" =>
        \/ r \in disowned
        \/ ~cs[r].sentHeaders /\ writer[r] = "done"
        \/ cs[r].abort = "protoPeer"

Fate(r) == Reasons(r) /\ Progress(r) /\ Repeatable(r)

\* While SETTINGS never forbid all streams, a sleeping writer finds one open.
Wakeable ==
    env.initialMax > 0 /\ 0 \notin env.limits =>
        /\ cc.maxConcurrentStreams > 0
        /\ \A r \in Calls : writer[r] = "await" => streams # {}

StreamInv == (\A r \in Calls : Fate(r)) /\ Wakeable

-----------------------------------------------------------------------------
(* Steps that do not decide the fate of a call.                            *)

\* The step may give the stream of q the state t: it neither opens it nor takes
\* an end back, and aborts it with an error that has its reason.
StreamDrift(q, t) ==
    /\ t.sentHeaders = cs[q].sentHeaders
    /\ cs[q].sentEndStream => t.sentEndStream
    /\ cs[q].endStream => t.endStream
    /\ t.sentEndStream => cs[q].sentEndStream \/ t.endStream
    /\ cs[q].peerClosed => t.peerClosed
    /\ \/ t.abort = cs[q].abort
       \/ /\ cs[q].abort = "nil" /\ t.abort # "unusable"
          /\ t.abort \in ResetErrors => q \in rst'
          /\ t.abort \in DisownErrors => q \in disowned'

\* The writer of q neither starts nor ends; it returns with an error that has
\* its reason, or because the peer ended the stream.
WriterDrift(q) ==
    /\ writer'[q] \in Unsent => writer[q] \in Unsent
    /\ writer'[q] = "done" <=> writer[q] = "done"
    /\ writer[q] \in {"early", "cleanup"} => writer'[q] \in {"early", "cleanup"}
    /\ writer'[q] = "cleanup" => \/ writer[q] \in {"early", "cleanup"} /\ err'[q] = err[q]
                                 \/ err'[q] # "nil"
                                 \/ cs[q].peerClosed
    /\ \/ err'[q] = err[q]
       \/ err'[q] # "unusable" /\ Reason(q, err'[q])

\* The call is not repeated, and no reason is forgotten.
CallDrift(q) ==
    /\ caller'[q] = "again" => caller[q] = "again"
    /\ q \in rst => q \in rst'
    /\ q \in disowned => q \in disowned'

Drift(q) == StreamDrift(q, cs'[q]) /\ WriterDrift(q) /\ CallDrift(q)

\* Such a step keeps what Fate says of the call.
LEMMA DriftKeeps ==
  ASSUME NEW q \in Calls, Types, Fate(q), Drift(q)
  PROVE  Fate(q)'
<1>0. Reasons(q) /\ Progress(q) /\ Repeatable(q) /\ StreamDrift(q, cs'[q]) /\ WriterDrift(q) /\ CallDrift(q)
  BY DEF Fate, Drift
<1>1. Reasons(q)'
  <2>1. Reason(q, cs[q].abort)'
    BY <1>0 DEF Reasons, Reason, StreamDrift, CallDrift
  <2>2. Reason(q, err[q])'
    BY <1>0 DEF Reasons, Reason, WriterDrift, CallDrift
  <2>3. cs'[q].abort = "unusable" => writer'[q] = "done" /\ ~cs'[q].sentHeaders
    BY <1>0 DEF Reasons, StreamDrift, WriterDrift
  <2>4. err'[q] = "unusable" => writer'[q] \in {"early", "cleanup"} /\ ~cs'[q].sentHeaders
    BY <1>0 DEF Reasons, StreamDrift, WriterDrift
  <2>. QED  BY <2>1, <2>2, <2>3, <2>4 DEF Reasons
<1>2. Progress(q)'
  BY <1>0 DEF Progress, NeverEnded, HasBody, StreamDrift, WriterDrift, CallDrift, Unsent
<1>3. Repeatable(q)'
  BY <1>0 DEF Repeatable, StreamDrift, WriterDrift, CallDrift
<1>. QED  BY <1>1, <1>2, <1>3 DEF Fate

\* An unchanged stream, and one whose only change is abort or body.
LEMMA StreamDrifts ==
  ASSUME NEW q \in Calls, StreamTypes
  PROVE  /\ StreamDrift(q, cs[q])
         /\ StreamDrift(q, closeReqBody(q, cs[q]))
  BY DEF StreamDrift, closeReqBody, StreamTypes, StreamType

\* abortStreamLocked of a stream that was changed otherwise before.
LEMMA AbortDrift ==
  ASSUME NEW q \in Calls, StreamTypes, NEW s \in StreamType, NEW e \in Errors \ {"unusable"},
         s.abort = cs[q].abort, StreamDrift(q, s),
         e \in ResetErrors => q \in rst', e \in DisownErrors => q \in disowned'
  PROVE  StreamDrift(q, Aborted(q, s, e))
<1>. DEFINE t == [s EXCEPT !.abort = IF @ = "nil" THEN e ELSE @]
<1>1. t \in StreamType
  BY DEF StreamType, Errors
<1>2. /\ t.sentHeaders = s.sentHeaders /\ t.sentEndStream = s.sentEndStream /\ t.endStream = s.endStream
      /\ t.peerClosed = s.peerClosed /\ t.abort = IF s.abort = "nil" THEN e ELSE s.abort
  BY DEF StreamType
<1>3. Aborted(q, s, e) = closeReqBody(q, t)
  BY DEF Aborted
<1>. HIDE DEF t
<1>4. /\ closeReqBody(q, t).sentHeaders = t.sentHeaders /\ closeReqBody(q, t).abort = t.abort
      /\ closeReqBody(q, t).sentEndStream = t.sentEndStream
      /\ closeReqBody(q, t).endStream = t.endStream
      /\ closeReqBody(q, t).peerClosed = t.peerClosed
  BY <1>1 DEF closeReqBody, StreamType
<1>. QED  BY <1>2, <1>3, <1>4 DEF StreamDrift

\* The fields that only this side's goroutines or the response use.
LEMMA FieldDrift ==
  ASSUME NEW q \in Calls, StreamTypes
  PROVE  /\ StreamDrift(q, [cs[q] EXCEPT !.pipeClosed = TRUE])
         /\ StreamDrift(q, [cs[q] EXCEPT !.reqBodyClosed = "closed"])
         /\ StreamDrift(q, [cs[q] EXCEPT !.readAborted = TRUE])
         /\ StreamDrift(q, [cs[q] EXCEPT !.sentEndStream = TRUE, !.endStream = TRUE])
         /\ StreamDrift(q, Ended(cs[q]))
         /\ \A v : /\ StreamDrift(q, [cs[q] EXCEPT !.res = v])
                   /\ StreamDrift(q, Ended([cs[q] EXCEPT !.res = v]))
         /\ \A i : StreamDrift(q, [cs[q] EXCEPT !.id = i])
  BY DEF StreamDrift, StreamTypes, StreamType, Ended

\* Only the stream of r changes.
LEMMA StreamOneDrift ==
  ASSUME StreamTypes, NEW r \in Calls, NEW t, StreamDrift(r, t), cs' = [cs EXCEPT ![r] = t]
  PROVE  \A q \in Calls : StreamDrift(q, cs'[q])
<1>1. \A q \in Calls : cs'[q] = IF q = r THEN t ELSE cs[q]
  BY DEF StreamTypes
<1>. QED  BY <1>1, StreamDrifts

\* No stream changes.
LEMMA StreamSameDrift ==
  ASSUME StreamTypes, cs' = cs
  PROVE  \A q \in Calls : StreamDrift(q, cs'[q])
  BY StreamDrifts

\* A Broadcast decides nothing.
LEMMA WakeDrift ==
  ASSUME WriterTypes, Broadcast(writer) \/ UNCHANGED <<writer, shutdown>>, err' = err
  PROVE  \A q \in Calls : WriterDrift(q)
<1>1. CASE UNCHANGED writer
  BY <1>1 DEF WriterDrift
<1>2. CASE Broadcast(writer)
  <2>. SUFFICES ASSUME NEW q \in Calls PROVE WriterDrift(q)
    OBVIOUS
  <2>1. writer'[q] = CASE writer[q] = "await" -> "awake" [] writer[q] = "flow" -> "data" [] OTHER -> writer[q]
    BY <1>2 DEF Broadcast
  <2>2. CASE writer[q] = "await"
    BY <2>1, <2>2 DEF WriterDrift, Unsent
  <2>3. CASE writer[q] = "flow"
    BY <2>1, <2>3 DEF WriterDrift, Unsent
  <2>4. CASE writer[q] # "await" /\ writer[q] # "flow"
    <3>1. writer'[q] = writer[q]
      BY <2>1, <2>4
    <3>. QED  BY <3>1 DEF WriterDrift
  <2>. QED  BY <2>2, <2>3, <2>4
<1>. QED  BY <1>1, <1>2

\* Only the writer of r moves, to a stage of the same kind.
LEMMA MoveDrift ==
  ASSUME WriterTypes, NEW r \in Calls, NEW a, writer' = [writer EXCEPT ![r] = a], err' = err,
         \/ writer[r] \in Unsent \ {"early"} /\ a \in {"await", "headers"}
         \/ writer[r] = "early" /\ a = "cleanup"
         \/ /\ writer[r] \in {"continue", "body", "data", "wait"}
            /\ a \in {"body", "data", "flow", "wait", "waitEnd"}
  PROVE  \A q \in Calls : WriterDrift(q)
<1>. TAKE q \in Calls
<1>1. writer'[q] = IF q = r THEN a ELSE writer[q]
  BY DEF WriterTypes
<1>. QED  BY <1>1 DEF WriterDrift, Unsent

\* The writer of r returns e, early or not.
LEMMA ReturnDrift ==
  ASSUME WriterTypes, NEW r \in Calls, NEW e, NEW a \in {"early", "cleanup"},
         writer[r] \notin {"early", "cleanup", "done"}, a = "early" => writer[r] \in Unsent,
         err' = [err EXCEPT ![r] = e], writer' = [writer EXCEPT ![r] = a],
         e # "unusable", e = "nil" => cs[r].peerClosed, Reason(r, e)
  PROVE  \A q \in Calls : WriterDrift(q)
<1>. TAKE q \in Calls
<1>1. writer'[q] = (IF q = r THEN a ELSE writer[q]) /\ err'[q] = IF q = r THEN e ELSE err[q]
  BY DEF WriterTypes
<1>. QED  BY <1>1 DEF WriterDrift, Unsent

\* The errors that this side finds itself need no reason.
LEMMA OwnErrors ==
  ASSUME NEW r, NEW e \in {"ctx", "bad", "write", "body", "conn", "timeout", "nil", "proto", "goAwayErr", "closedBody"}
  PROVE  Reason(r, e) /\ e \in Errors \ ({"unusable"} \cup ResetErrors \cup DisownErrors)
  BY DEF Reason, ResetErrors, DisownErrors, Errors

-----------------------------------------------------------------------------
(* The callers and the frames decide nothing, except for a repetition.     *)

AllDrift == \A q \in Calls : Drift(q)

\* No caller moves to a repetition when callers do not move or leave the call.
LEMMA CallMove ==
  ASSUME CallTypes, NEW r \in Calls, NEW x \in CallerStates \ {"again"},
         caller' = [caller EXCEPT ![r] = x] \/ caller' = caller, UNCHANGED <<rst, disowned>>
  PROVE  \A q \in Calls : CallDrift(q)
<1>. TAKE q \in Calls
<1>1. caller'[q] = x \/ caller'[q] = caller[q]
  BY DEF CallTypes
<1>. QED  BY <1>1 DEF CallDrift

\* handleResponseHeaders, cancelRequest, CloseBody, the goroutine that closes the
\* request body, the end of a context.
LEMMA CallerDrift ==
  ASSUME Types, NEW r \in Calls,
         \/ handleResponseHeaders(r) \/ cancelRequest(r) \/ CloseBody(r) \/ reqBodyClose(r)
         \/ cancel(r) \/ backoffCanceled(r)
  PROVE  AllDrift
<1>0. /\ CallTypes /\ WriterTypes /\ StreamTypes /\ cs[r] \in StreamType
      /\ "idle" \in CallerStates \ {"again"}
  BY DEF Types, StreamTypes, CallerStates
<1>1. err' = err /\ UNCHANGED <<rst, disowned>> /\ (Broadcast(writer) \/ UNCHANGED <<writer, shutdown>>)
  BY DEF handleResponseHeaders, cancelRequest, CloseBody, reqBodyClose, cancel, backoffCanceled,
         abortStream, ghostVars
<1>2. \A q \in Calls : WriterDrift(q)
  BY <1>0, <1>1, WakeDrift
<1>3. \A q \in Calls : CallDrift(q)
  <2>1. caller' = caller \/ \E x \in CallerStates \ {"again"} : caller' = [caller EXCEPT ![r] = x]
    <3>1. CASE handleResponseHeaders(r)
      <4>. DEFINE x == CASE cs[r].res = "pipe" -> "reading"
                         [] HasBody(r) -> "finished"
                         [] OTHER -> "waitDone"
      <4>1. caller' = [caller EXCEPT ![r] = x]
        BY <3>1 DEF handleResponseHeaders
      <4>2. x \in CallerStates \ {"again"}
        BY DEF CallerStates
      <4>. QED  BY <4>1, <4>2
    <3>2. CASE cancelRequest(r)
      BY <3>2 DEF cancelRequest, Failed, shouldRetryRequest, CanRetryError, CallerStates
    <3>3. CASE CloseBody(r) \/ reqBodyClose(r) \/ cancel(r) \/ backoffCanceled(r)
      BY <3>3 DEF CloseBody, reqBodyClose, cancel, backoffCanceled, callVars, CallerStates
    <3>. QED  BY <3>1, <3>2, <3>3
  <2>. QED  BY <1>0, <1>1, <2>1, CallMove
<1>4. \A q \in Calls : StreamDrift(q, cs'[q])
  <2>1. CASE cs' = cs
    BY <1>0, <2>1, StreamSameDrift
  <2>2. CASE cs' = [cs EXCEPT ![r] = closeReqBody(r, @)]
    BY <1>0, <2>2, StreamDrifts, StreamOneDrift
  <2>3. CASE cs' = [cs EXCEPT ![r] = Aborted(r, @, "ctx")]
    <3>1. StreamDrift(r, Aborted(r, cs[r], "ctx"))
      BY <1>0, StreamDrifts, AbortDrift, OwnErrors
    <3>. QED  BY <1>0, <2>3, <3>1, StreamOneDrift
  <2>4. CASE cs' = [cs EXCEPT ![r] = Aborted(r, [@ EXCEPT !.pipeClosed = TRUE], "closedBody")]
    <3>. DEFINE s == [cs[r] EXCEPT !.pipeClosed = TRUE]
    <3>1. s \in StreamType /\ s.abort = cs[r].abort
      BY <1>0 DEF StreamType
    <3>2. StreamDrift(r, s)
      BY <1>0, FieldDrift
    <3>3. cs' = [cs EXCEPT ![r] = Aborted(r, s, "closedBody")]
      BY <2>4
    <3>. HIDE DEF s
    <3>4. StreamDrift(r, Aborted(r, s, "closedBody"))
      BY <1>0, <3>1, <3>2, AbortDrift, OwnErrors
    <3>. QED  BY <1>0, <3>3, <3>4, StreamOneDrift
  <2>5. CASE cs' = [cs EXCEPT ![r].reqBodyClosed = "closed"]
    <3>1. StreamDrift(r, [cs[r] EXCEPT !.reqBodyClosed = "closed"])
      BY <1>0, FieldDrift
    <3>. QED  BY <1>0, <2>5, <3>1, StreamOneDrift
  <2>. QED  BY <2>1, <2>2, <2>3, <2>4, <2>5 DEF handleResponseHeaders, cancelRequest, CloseBody, reqBodyClose,
            cancel, backoffCanceled, abortStream
<1>. QED  BY <1>2, <1>3, <1>4 DEF AllDrift, Drift

\* endStreamError aborts with an error of this side.
LEMMA EndDrift ==
  ASSUME Types, NEW r \in Calls, endStreamError(r, "proto")
  PROVE  (\A q \in Calls : StreamDrift(q, cs'[q])) /\ Broadcast(writer)
<1>0. StreamTypes /\ cs[r] \in StreamType
  BY DEF Types, StreamTypes
<1>. DEFINE s == [cs[r] EXCEPT !.readAborted = TRUE]
<1>1. s \in StreamType /\ s.abort = cs[r].abort
  BY <1>0 DEF StreamType
<1>2. StreamDrift(r, s)
  BY <1>0, FieldDrift
<1>3. cs' = [cs EXCEPT ![r] = Aborted(r, s, "proto")] /\ Broadcast(writer)
  BY DEF endStreamError
<1>. HIDE DEF s
<1>4. StreamDrift(r, Aborted(r, s, "proto"))
  BY <1>0, <1>1, <1>2, AbortDrift, OwnErrors
<1>. QED  BY <1>0, <1>3, <1>4, StreamOneDrift

\* Response headers, trailers and DATA.
LEMMA FrameDrift ==
  ASSUME Types, NEW r \in Calls, processHeaders(r) \/ processData(r)
  PROVE  AllDrift
<1>0. CallTypes /\ WriterTypes /\ StreamTypes /\ cs[r] \in StreamType
  BY DEF Types, StreamTypes
<1>1. err' = err /\ UNCHANGED <<rst, disowned, caller>>
  BY DEF processHeaders, processData, ghostVars, callVars
<1>2. \A q \in Calls : CallDrift(q)
  BY <1>1 DEF CallDrift
<1>3. CASE endStreamError(r, "proto")
  BY <1>0, <1>1, <1>2, <1>3, EndDrift, WakeDrift DEF AllDrift, Drift
<1>4. CASE UNCHANGED <<writer, shutdown>>
  <2>1. \/ cs' = cs \/ cs' = [cs EXCEPT ![r] = Ended(@)]
        \/ \E v \in {"none", "noBody", "pipe"} : \/ cs' = [cs EXCEPT ![r] = [cs[r] EXCEPT !.res = v]]
                                         \/ cs' = [cs EXCEPT ![r] = Ended([cs[r] EXCEPT !.res = v])]
        \/ endStreamError(r, "proto")
    BY DEF processHeaders, processData, stopReader
  <2>2. StreamDrift(r, Ended(cs[r]))
    BY <1>0, FieldDrift
  <2>3. \A v \in {"none", "noBody", "pipe"} : /\ StreamDrift(r, [cs[r] EXCEPT !.res = v])
                                      /\ StreamDrift(r, Ended([cs[r] EXCEPT !.res = v]))
    BY <1>0, FieldDrift
  <2>4. \A q \in Calls : StreamDrift(q, cs'[q])
    BY <1>0, <2>1, <2>2, <2>3, StreamSameDrift, StreamOneDrift, EndDrift
  <2>. QED  BY <1>0, <1>1, <1>2, <1>4, <2>4, WakeDrift DEF AllDrift, Drift
<1>. QED  BY <1>3, <1>4 DEF processHeaders, processData, stopReader

\* RST_STREAM: the error and the reset come together.
LEMMA ResetDrift ==
  ASSUME Types, NEW r \in Calls, NEW e \in ResetErrors, processResetStream(r, e)
  PROVE  AllDrift
<1>0. CallTypes /\ WriterTypes /\ StreamTypes /\ cs[r] \in StreamType /\ e \in Errors \ {"unusable"}
  BY DEF Types, StreamTypes, ResetErrors, Errors
<1>1. /\ err' = err /\ caller' = caller /\ Broadcast(writer)
      /\ r \in rst' /\ (e = "refused" => r \in disowned')
      /\ rst \subseteq rst' /\ disowned \subseteq disowned'
  BY DEF processResetStream, callVars
<1>2. \A q \in Calls : CallDrift(q)
  BY <1>1 DEF CallDrift
<1>. DEFINE s == [cs[r] EXCEPT !.pipeClosed = TRUE]
<1>3. s \in StreamType /\ s.abort = cs[r].abort
  BY <1>0 DEF StreamType
<1>4. StreamDrift(r, s)
  BY <1>0, FieldDrift
<1>5. cs' = [cs EXCEPT ![r] = Aborted(r, s, e)]
  BY DEF processResetStream
<1>. HIDE DEF s
<1>6. e \in ResetErrors => r \in rst'
  BY <1>1
<1>7. e \in DisownErrors => r \in disowned'
  BY <1>1 DEF ResetErrors, DisownErrors
<1>8. StreamDrift(r, Aborted(r, s, e))
  BY <1>0, <1>3, <1>4, <1>6, <1>7, AbortDrift
<1>. QED  BY <1>0, <1>1, <1>2, <1>5, <1>8, StreamOneDrift, WakeDrift DEF AllDrift, Drift

\* GOAWAY: the streams it aborts are those it says were not processed.
LEMMA GoAwayDrift ==
  ASSUME Types, NEW last, NEW code, processGoAway(last, code)
  PROVE  AllDrift
<1>. DEFINE c == IF cc.goAwayCode = "error" THEN "error" ELSE code
            e(q) == IF cs[q].id = 1 /\ c # "no" THEN "goAwayErr" ELSE "goAway"
<1>0. CallTypes /\ WriterTypes /\ StreamTypes
  BY DEF Types
<1>1. /\ err' = err /\ caller' = caller /\ rst' = rst
      /\ Broadcast(writer) \/ UNCHANGED <<writer, shutdown>>
      /\ disowned' = disowned \cup {q \in Calls : cs[q].id > last}
      /\ cs' = [q \in Calls |-> IF q \in Unprocessed(last) THEN Aborted(q, cs[q], e(q)) ELSE cs[q]]
  BY DEF processGoAway, callVars
<1>2. \A q \in Calls : CallDrift(q)
  BY <1>1 DEF CallDrift
<1>3. ASSUME NEW q \in Calls PROVE StreamDrift(q, cs'[q])
  <2>1. e(q) \in Errors \ {"unusable"} /\ e(q) \notin ResetErrors
    BY DEF Errors, ResetErrors
  <2>. HIDE DEF e
  <2>2. CASE q \in Unprocessed(last)
    <3>1. q \in disowned' /\ cs'[q] = Aborted(q, cs[q], e(q))
      BY <1>1, <2>2 DEF Unprocessed
    <3>2. cs[q] \in StreamType /\ StreamDrift(q, cs[q])
      BY <1>0, StreamDrifts DEF StreamTypes
    <3>. QED  BY <1>0, <2>1, <3>1, <3>2, AbortDrift
  <2>3. CASE q \notin Unprocessed(last)
    <3>1. cs'[q] = cs[q]
      BY <1>1, <2>3
    <3>. QED  BY <1>0, <3>1, StreamDrifts
  <2>. QED  BY <2>2, <2>3
<1>. QED  BY <1>0, <1>1, <1>2, <1>3, WakeDrift DEF AllDrift, Drift

\* closeForError aborts with an error of this side.
LEMMA CloseDrift ==
  ASSUME Types, NEW d, closeForError("conn", d, cs, writer), UNCHANGED <<caller, err, rst, disowned>>
  PROVE  AllDrift
<1>0. WriterTypes /\ StreamTypes
  BY DEF Types
<1>1. Broadcast(writer) /\ cs' = [q \in Calls |-> IF q \in d THEN Aborted(q, cs[q], "conn") ELSE cs[q]]
  BY DEF closeForError
<1>2. \A q \in Calls : CallDrift(q)
  BY DEF CallDrift
<1>3. ASSUME NEW q \in Calls PROVE StreamDrift(q, cs'[q])
  <2>1. cs[q] \in StreamType /\ StreamDrift(q, cs[q])
    BY <1>0, StreamDrifts DEF StreamTypes
  <2>2. StreamDrift(q, Aborted(q, cs[q], "conn"))
    BY <1>0, <2>1, AbortDrift, OwnErrors
  <2>. QED  BY <1>1, <2>1, <2>2
<1>. QED  BY <1>0, <1>1, <1>2, <1>3, WakeDrift DEF AllDrift, Drift

\* SETTINGS, WINDOW_UPDATE, PING, the end of the read loop, Shutdown, the idle
\* timer and the health check.
LEMMA ConnDrift ==
  ASSUME Types,
         \/ \E limit \in env.limits, windows \in BOOLEAN : processSettings(limit, windows)
         \/ processWindowUpdate \/ processPing \/ readError \/ readLoopCleanup
         \/ Shutdown \/ onIdleTimeout \/ lostPing
  PROVE  AllDrift
<1>0. WriterTypes /\ StreamTypes
  BY DEF Types
<1>1. UNCHANGED <<caller, err, rst, disowned>>
  BY DEF processSettings, processWindowUpdate, processPing, readError, readLoopCleanup, Shutdown,
         onIdleTimeout, lostPing, callVars, ghostVars
<1>2. \A q \in Calls : CallDrift(q)
  BY <1>1 DEF CallDrift
<1>3. CASE readLoopCleanup \/ lostPing
  BY <1>1, <1>3, CloseDrift DEF readLoopCleanup, lostPing
<1>4. CASE cs' = cs /\ (Broadcast(writer) \/ writer' = writer)
  <2>1. \A q \in Calls : WriterDrift(q)
    <3>1. CASE writer' = writer
      BY <1>1, <3>1 DEF WriterDrift
    <3>2. CASE Broadcast(writer)
      BY <1>0, <1>1, <3>2, WakeDrift
    <3>. QED  BY <1>4, <3>1, <3>2
  <2>. QED  BY <1>0, <1>2, <1>4, <2>1, StreamSameDrift DEF AllDrift, Drift
<1>. QED  BY <1>3, <1>4 DEF processSettings, processWindowUpdate, processPing, readError, Shutdown,
          onIdleTimeout, stopReader

-----------------------------------------------------------------------------
(* The writers.                                                            *)

\* The stages of writeRequest after HEADERS.
LEMMA SendDrift ==
  ASSUME Types, NEW r \in Calls, Fate(r),
         awaitContinue(r) \/ readRequestBody(r) \/ awaitFlowControl(r) \/ awaitPeer(r)
  PROVE  AllDrift
<1>0. WriterTypes /\ StreamTypes
  BY DEF Types
<1>1. UNCHANGED <<caller, rst, disowned>> /\ writer[r] \in {"continue", "body", "data", "wait", "waitEnd"}
  BY DEF awaitContinue, readRequestBody, awaitFlowControl, awaitPeer, callVars, ghostVars
<1>2. \A q \in Calls : CallDrift(q)
  BY <1>1 DEF CallDrift
<1>3. Reason(r, cs[r].abort) /\ cs[r].abort # "unusable"
  BY <1>1 DEF Fate, Reasons
<1>4. ASSUME NEW e, Return(r, e), e # "nil" \/ cs[r].peerClosed,
             e = cs[r].abort \/ e \in {"ctx", "conn", "write", "body", "timeout", "nil"}
      PROVE  \A q \in Calls : WriterDrift(q)
  <2>1. Reason(r, e) /\ e # "unusable"
    BY <1>3, <1>4, OwnErrors
  <2>. QED  BY <1>0, <1>1, <1>4, <2>1, ReturnDrift DEF Return
<1>5. ASSUME NEW a \in {"body", "data", "flow", "wait", "waitEnd"}, writer[r] # "waitEnd",
             writer' = [writer EXCEPT ![r] = a], err' = err
      PROVE  \A q \in Calls : WriterDrift(q)
  BY <1>0, <1>1, <1>5, MoveDrift
<1>6. ASSUME sendEndStream(r), writer[r] # "waitEnd"
      PROVE  (\A q \in Calls : WriterDrift(q)) /\ (\A q \in Calls : StreamDrift(q, cs'[q]))
  <2>1. CASE /\ cs' = [cs EXCEPT ![r].sentEndStream = TRUE, ![r].endStream = TRUE]
             /\ writer' = [writer EXCEPT ![r] = "wait"] /\ err' = err
    <3>. DEFINE s == [cs[r] EXCEPT !.sentEndStream = TRUE, !.endStream = TRUE]
    <3>1. StreamDrift(r, s)
      BY <1>0, FieldDrift
    <3>2. cs' = [cs EXCEPT ![r] = s]
      BY <2>1
    <3>. HIDE DEF s
    <3>. QED  BY <1>0, <1>5, <1>6, <2>1, <3>1, <3>2, StreamOneDrift
  <2>2. CASE Return(r, "write") /\ cs' = cs
    BY <1>0, <1>4, <2>2, StreamSameDrift
  <2>. QED  BY <1>6, <2>1, <2>2 DEF sendEndStream
<1>7. (\A q \in Calls : WriterDrift(q)) /\ (\A q \in Calls : StreamDrift(q, cs'[q]))
  <2>1. CASE awaitContinue(r)
    BY <1>0, <1>4, <1>5, <2>1, StreamSameDrift DEF awaitContinue
  <2>2. CASE readRequestBody(r)
    BY <1>0, <1>4, <1>5, <1>6, <2>2, StreamSameDrift DEF readRequestBody
  <2>3. CASE awaitFlowControl(r)
    BY <1>0, <1>4, <1>5, <1>6, <2>3, StreamSameDrift DEF awaitFlowControl
  <2>4. CASE awaitPeer(r)
    BY <1>0, <1>4, <1>5, <2>4, StreamSameDrift DEF awaitPeer
  <2>. QED  BY <2>1, <2>2, <2>3, <2>4
<1>. QED  BY <1>2, <1>7 DEF AllDrift, Drift

\* The reservation is given back.
LEMMA ReservationDrift ==
  ASSUME Types, NEW r \in Calls, returnReservation(r)
  PROVE  AllDrift
<1>0. WriterTypes /\ StreamTypes
  BY DEF Types
<1>1. /\ UNCHANGED <<caller, rst, disowned, cs, err>> /\ writer[r] = "early"
      /\ writer' = [writer EXCEPT ![r] = "cleanup"]
  BY DEF returnReservation, callVars, ghostVars
<1>2. \A q \in Calls : CallDrift(q)
  BY <1>1 DEF CallDrift
<1>. QED  BY <1>0, <1>1, <1>2, StreamSameDrift, MoveDrift DEF AllDrift, Drift

\* A call keeps its fate in the steps of the others.
Others(r) == \A q \in Calls \ {r} : Drift(q)

\* A writer opens its stream, waits for a slot, or returns before either.
LEMMA OpenDrift ==
  ASSUME Types, NEW r \in Calls, Fate(r), openStream(r) \/ awaitOpenSlot(r)
  PROVE  Others(r) /\ Fate(r)'
<1>0. WriterTypes /\ StreamTypes /\ cs[r] \in StreamType /\ cc \in ConnType
  BY DEF Types, StreamTypes
<1>1. UNCHANGED <<caller, rst, disowned>> /\ writer[r] \in {"start", "awake"}
  BY DEF openStream, awaitOpenSlot, callVars, ghostVars
<1>2. \A q \in Calls : CallDrift(q)
  BY <1>1 DEF CallDrift
<1>3. ASSUME AllDrift PROVE Others(r) /\ Fate(r)'
  BY <1>3, DriftKeeps DEF AllDrift, Others
<1>4. Reason(r, cs[r].abort) /\ cs[r].abort # "unusable" /\ ~cs[r].sentHeaders
  BY <1>1 DEF Fate, Reasons, Progress, Unsent
<1>5. ASSUME NEW c, NEW e, ReturnEarly(r, e, c), e # "nil",
             e = cs[r].abort \/ e \in {"ctx", "bad"}
      PROVE  Others(r) /\ Fate(r)'
  <2>1. Reason(r, e) /\ e # "unusable" /\ "early" \in {"early", "cleanup"} /\ writer[r] \in Unsent
    BY <1>1, <1>4, <1>5, OwnErrors DEF Unsent
  <2>2. \A q \in Calls : WriterDrift(q)
    BY <1>0, <1>1, <1>5, <2>1, ReturnDrift DEF ReturnEarly
  <2>. QED  BY <1>0, <1>2, <1>3, <1>5, <2>2, StreamSameDrift DEF AllDrift, Drift, ReturnEarly
<1>6. ASSUME NEW c, ReturnEarly(r, "unusable", c) PROVE Others(r) /\ Fate(r)'
  <2>1. /\ \A q \in Calls \ {r} : writer'[q] = writer[q] /\ err'[q] = err[q]
        /\ writer'[r] = "early" /\ err'[r] = "unusable" /\ cs' = cs
    BY <1>0, <1>6 DEF ReturnEarly, WriterTypes
  <2>2. Others(r)
    BY <1>0, <1>2, <2>1, StreamSameDrift DEF Others, Drift, WriterDrift
  <2>3. Reasons(r)'
    BY <1>1, <1>4, <2>1 DEF Reasons, Reason, ResetErrors, DisownErrors
  <2>4. Progress(r)'
    BY <1>4, <2>1 DEF Fate, Progress, NeverEnded, HasBody
  <2>5. Repeatable(r)'
    BY <1>1, <2>1 DEF Fate, Repeatable
  <2>. QED  BY <2>2, <2>3, <2>4, <2>5 DEF Fate
<1>7. ASSUME NEW c, addStream(r, c) PROVE Others(r) /\ Fate(r)'
  <2>1. StreamDrift(r, [cs[r] EXCEPT !.id = c.nextStreamID])
    BY <1>0, FieldDrift
  <2>2. \A q \in Calls : StreamDrift(q, cs'[q])
    BY <1>0, <1>7, <2>1, StreamOneDrift DEF addStream
  <2>3. \A q \in Calls : WriterDrift(q)
    BY <1>0, <1>1, <1>7, MoveDrift DEF addStream, Unsent
  <2>. QED  BY <1>2, <1>3, <2>2, <2>3 DEF AllDrift, Drift
<1>8. ASSUME writer' = [writer EXCEPT ![r] = "await"], UNCHANGED <<err, cs>> PROVE Others(r) /\ Fate(r)'
  <2>1. \A q \in Calls : WriterDrift(q)
    BY <1>0, <1>1, <1>8, MoveDrift DEF Unsent
  <2>. QED  BY <1>0, <1>2, <1>3, <1>8, <2>1, StreamSameDrift DEF AllDrift, Drift
<1>9. ASSUME NEW c, openSlot(r, c) PROVE Others(r) /\ Fate(r)'
  BY <1>6, <1>7, <1>8, <1>9 DEF openSlot
<1>. QED  BY <1>5, <1>9 DEF openStream, awaitOpenSlot

\* HEADERS are written, or the writer returns before.
LEMMA HeadersFate ==
  ASSUME Types, NEW r \in Calls, Fate(r), encodeAndWriteHeaders(r)
  PROVE  Others(r) /\ Fate(r)'
<1>0. WriterTypes /\ StreamTypes /\ cs[r] \in StreamType
  BY DEF Types, StreamTypes
<1>1. UNCHANGED <<caller, rst, disowned>> /\ writer[r] = "headers"
  BY DEF encodeAndWriteHeaders, callVars
<1>2. \A q \in Calls : CallDrift(q)
  BY <1>1 DEF CallDrift
<1>3. Reason(r, cs[r].abort) /\ cs[r].abort # "unusable" /\ err[r] # "unusable" /\ Reason(r, err[r])
  BY <1>1 DEF Fate, Reasons
<1>4. ASSUME NEW e, Return(r, e), e # "nil", e = cs[r].abort \/ e \in {"ctx", "bad"}, cs' = cs
      PROVE  Others(r) /\ Fate(r)'
  <2>1. Reason(r, e) /\ e # "unusable" /\ "cleanup" \in {"early", "cleanup"}
    BY <1>3, <1>4, OwnErrors
  <2>2. \A q \in Calls : WriterDrift(q)
    BY <1>0, <1>1, <1>4, <2>1, ReturnDrift DEF Return
  <2>. QED  BY <1>0, <1>2, <1>4, <2>2, StreamSameDrift, DriftKeeps DEF AllDrift, Others, Drift
<1>5. ASSUME NEW a \in {"cleanup", "continue", "wait"}, NEW b \in BOOLEAN, NEW c \in BOOLEAN,
             b => c \/ NeverEnded(r), cs[r].abort = "nil",
             writer' = [writer EXCEPT ![r] = a],
             a = "cleanup" => err' = [err EXCEPT ![r] = "write"], a # "cleanup" => err' = err,
             \/ cs' = [cs EXCEPT ![r].sentHeaders = TRUE]
             \/ cs' = [cs EXCEPT ![r].sentHeaders = TRUE, ![r].sentEndStream = b, ![r].endStream = c]
      PROVE  Others(r) /\ Fate(r)'
  <2>1. /\ \A q \in Calls \ {r} : writer'[q] = writer[q] /\ err'[q] = err[q]
        /\ writer'[r] = a /\ err'[r] = IF a = "cleanup" THEN "write" ELSE err[r]
    BY <1>0, <1>5 DEF WriterTypes
  <2>2. (\A q \in Calls \ {r} : cs'[q] = cs[q]) /\ cs'[r].abort = "nil" /\ cs'[r].sentHeaders
    BY <1>0, <1>5 DEF StreamTypes, StreamType
  <2>3. Others(r)
    <3>. SUFFICES ASSUME NEW q \in Calls \ {r} PROVE Drift(q)
      BY DEF Others
    <3>1. StreamDrift(q, cs'[q])
      BY <1>0, <2>2, StreamDrifts
    <3>2. WriterDrift(q)
      BY <2>1 DEF WriterDrift
    <3>. QED  BY <1>2, <3>1, <3>2 DEF Drift
  <2>4. Reasons(r)'
    BY <1>1, <1>3, <2>1, <2>2 DEF Reasons, Reason, ResetErrors, DisownErrors
  <2>5. Progress(r)'
    <3>1. cs[r].sentEndStream => cs[r].endStream \/ NeverEnded(r)
      BY DEF Fate, Progress
    <3>2. \/ cs'[r].sentEndStream = cs[r].sentEndStream /\ cs'[r].endStream = cs[r].endStream
          \/ cs'[r].sentEndStream = b /\ cs'[r].endStream = c
      BY <1>0, <1>5 DEF StreamTypes, StreamType
    <3>. QED  BY <1>5, <2>1, <3>1, <3>2 DEF Progress, Unsent, NeverEnded, HasBody
  <2>6. Repeatable(r)'
    BY <1>1, <1>5 DEF Fate, Repeatable
  <2>. QED  BY <2>3, <2>4, <2>5, <2>6 DEF Fate
<1>6. CASE \/ cs[r].abort # "nil" /\ Return(r, cs[r].abort) /\ cs' = cs
           \/ (Return(r, "ctx") \/ Return(r, "bad")) /\ cs' = cs
  BY <1>4, <1>6
<1>7. CASE /\ cs[r].abort = "nil" /\ Return(r, "write")
           /\ cs' = [cs EXCEPT ![r].sentHeaders = TRUE]
  <2>1. writer' = [writer EXCEPT ![r] = "cleanup"] /\ err' = [err EXCEPT ![r] = "write"]
    BY <1>7 DEF Return
  <2>2. "cleanup" \in {"cleanup", "continue", "wait"} /\ TRUE \in BOOLEAN /\ (TRUE => TRUE \/ NeverEnded(r))
    OBVIOUS
  <2>. QED  BY <1>5, <1>7, <2>1, <2>2
<1>8. CASE /\ cs[r].abort = "nil" /\ err' = err
           /\ cs' = [cs EXCEPT ![r].sentHeaders = TRUE, ![r].sentEndStream = ~HasBody(r),
                               ![r].endStream = ~HasBody(r) /\ r \notin Trailers]
           /\ writer' = [writer EXCEPT ![r] = IF HasBody(r) THEN "continue" ELSE "wait"]
  <2>. DEFINE a == IF HasBody(r) THEN "continue" ELSE "wait"
              b == ~HasBody(r)
              c == ~HasBody(r) /\ r \notin Trailers
  <2>1. a \in {"continue", "wait"} /\ b \in BOOLEAN /\ c \in BOOLEAN /\ (b => c \/ NeverEnded(r))
    BY DEF NeverEnded
  <2>2. /\ writer' = [writer EXCEPT ![r] = a]
        /\ cs' = [cs EXCEPT ![r].sentHeaders = TRUE, ![r].sentEndStream = b, ![r].endStream = c]
    BY <1>8
  <2>. HIDE DEF a, b, c
  <2>. QED  BY <1>5, <1>8, <2>1, <2>2
<1>. QED  BY <1>6, <1>7, <1>8 DEF encodeAndWriteHeaders

\* The writer ends: it resets the stream unless the peer did, or both sides
\* ended it.
LEMMA CleanupFate ==
  ASSUME Types, NEW r \in Calls, Fate(r), cleanupWriteRequest(r)
  PROVE  Others(r) /\ Fate(r)'
<1>. DEFINE d == streams \ {r}
            e == IF cs[r].sentEndStream /\ cs[r].peerClosed THEN "nil" ELSE err[r]
            t == Released(r, e)
            s == [cs EXCEPT ![r] = t]
            wr == [writer EXCEPT ![r] = "done"]
<1>0. /\ WriterTypes /\ StreamTypes /\ cs[r] \in StreamType /\ err[r] \in Errors /\ e \in Errors
      /\ Reasons(r) /\ Progress(r) /\ Repeatable(r)
  BY DEF Types, WriterTypes, StreamTypes, Errors, Fate
<1>1. /\ UNCHANGED <<caller, disowned>> /\ writer[r] = "cleanup" /\ err' = [err EXCEPT ![r] = "nil"]
      /\ IF mustReset(r, e) THEN rst' = rst \cup {r} ELSE rst' = rst
  BY DEF cleanupWriteRequest, callVars
<1>2. \A q \in Calls : CallDrift(q)
  BY <1>1 DEF CallDrift
<1>3. \/ closeForError("conn", d, s, wr)
      \/ cs' = s /\ Broadcast(wr)
  BY DEF cleanupWriteRequest, Done
<1>4. /\ t \in StreamType /\ t.sentHeaders = cs[r].sentHeaders /\ t.sentEndStream = cs[r].sentEndStream
      /\ t.endStream = cs[r].endStream
      /\ t.peerClosed = cs[r].peerClosed /\ t.abort = IF cs[r].abort = "nil" THEN e ELSE cs[r].abort
  <2>. HIDE DEF e
  <2>. QED  BY <1>0 DEF Released, StreamType
<1>5. Broadcast(wr)
  BY <1>3 DEF closeForError
<1>6. /\ \A q \in Calls \ {r} : /\ err'[q] = err[q]
                                /\ \/ writer'[q] = writer[q]
                                   \/ writer[q] = "await" /\ writer'[q] = "awake"
                                   \/ writer[q] = "flow" /\ writer'[q] = "data"
      /\ writer'[r] = "done" /\ err'[r] = "nil"
  <2>1. \A q \in Calls : writer'[q] = CASE wr[q] = "await" -> "awake" [] wr[q] = "flow" -> "data" [] OTHER -> wr[q]
    BY <1>5 DEF Broadcast
  <2>2. \A q \in Calls : wr[q] = IF q = r THEN "done" ELSE writer[q]
    BY <1>0 DEF WriterTypes
  <2>. HIDE DEF wr
  <2>3. writer'[r] = "done"
    BY <2>1, <2>2
  <2>4. \A q \in Calls : err'[q] = IF q = r THEN "nil" ELSE err[q]
    BY <1>0, <1>1 DEF WriterTypes
  <2>5. ASSUME NEW q \in Calls \ {r}
        PROVE  \/ writer'[q] = writer[q]
               \/ writer[q] = "await" /\ writer'[q] = "awake"
               \/ writer[q] = "flow" /\ writer'[q] = "data"
    <3>0. writer'[q] = CASE writer[q] = "await" -> "awake" [] writer[q] = "flow" -> "data" [] OTHER -> writer[q]
      BY <2>1, <2>2
    <3>1. CASE writer[q] = "await"
      <4>1. writer'[q] = "awake"
        BY <3>0, <3>1
      <4>. QED  BY <3>1, <4>1
    <3>2. CASE writer[q] = "flow"
      BY <3>0, <3>2
    <3>3. CASE writer[q] # "await" /\ writer[q] # "flow"
      <4>1. writer'[q] = writer[q]
        BY <3>0, <3>3
      <4>. QED  BY <4>1
    <3>. QED  BY <3>1, <3>2, <3>3
  <2>. QED  BY <2>3, <2>4, <2>5
<1>7. cs'[r] = t /\ \A q \in Calls \ {r} : cs'[q] = cs[q] \/ cs'[q] = Aborted(q, cs[q], "conn")
  <2>. HIDE DEF t
  <2>1. \A q \in Calls : s[q] = IF q = r THEN t ELSE cs[q]
    BY <1>0 DEF StreamTypes
  <2>2. \A q \in Calls : cs'[q] = s[q] \/ (q # r /\ cs'[q] = Aborted(q, s[q], "conn"))
    BY <1>3 DEF closeForError
  <2>. HIDE DEF s
  <2>. QED  BY <2>1, <2>2
<1>8. Others(r)
  <2>. SUFFICES ASSUME NEW q \in Calls \ {r} PROVE Drift(q)
    BY DEF Others
  <2>1. cs[q] \in StreamType /\ StreamDrift(q, cs[q])
    BY <1>0, StreamDrifts DEF StreamTypes
  <2>2. StreamDrift(q, Aborted(q, cs[q], "conn"))
    BY <1>0, <2>1, AbortDrift, OwnErrors
  <2>3. StreamDrift(q, cs'[q])
    BY <1>7, <2>1, <2>2
  <2>4. WriterDrift(q)
    BY <1>6 DEF WriterDrift, Unsent
  <2>. QED  BY <1>2, <2>3, <2>4 DEF Drift
<1>. HIDE DEF t, s, d, wr
<1>9. Reasons(r)'
  <2>1. e \in {"nil", err[r]}
    OBVIOUS
  <2>. HIDE DEF e
  <2>2. cs'[r].abort \in {"nil", err[r], cs[r].abort}
    BY <1>4, <1>7, <2>1
  <2>3. Reason(r, cs[r].abort)'
    BY <1>0, <1>1, <2>2 DEF Reasons, Reason, ResetErrors, DisownErrors
  <2>4. cs'[r].abort = "unusable" => ~cs'[r].sentHeaders
    BY <1>0, <1>1, <1>4, <1>7, <2>2 DEF Reasons
  <2>. QED  BY <1>6, <2>3, <2>4 DEF Reasons, Reason, ResetErrors, DisownErrors
<1>10. Progress(r)'
  <2>0. cs[r].sentEndStream => cs[r].endStream \/ NeverEnded(r)
    BY <1>0 DEF Progress
  <2>. SUFFICES ASSUME cs[r].sentHeaders, ~(cs[r].peerClosed /\ cs[r].sentEndStream) PROVE r \in rst'
    BY <1>4, <1>6, <1>7, <2>0 DEF Progress, Unsent, NeverEnded, HasBody
  <2>1. e = err[r]
    OBVIOUS
  <2>2. CASE mustReset(r, e)
    BY <1>1, <2>2
  <2>3. CASE ~mustReset(r, e)
    <3>1. err[r] \in ResetErrors \/ (err[r] = "nil" /\ cs[r].sentEndStream)
      BY <2>1, <2>3 DEF mustReset, ResetErrors
    <3>2. err[r] # "nil" \/ ~cs[r].sentEndStream
      BY <1>0, <1>1 DEF Progress
    <3>. QED  BY <1>0, <1>1, <3>1, <3>2 DEF Reasons, Reason
  <2>. QED  BY <2>2, <2>3
<1>11. Repeatable(r)'
  BY <1>0, <1>1, <1>4, <1>6, <1>7 DEF Repeatable
<1>. QED  BY <1>8, <1>9, <1>10, <1>11 DEF Fate

-----------------------------------------------------------------------------
(* The start and the repetition of a call.                                 *)

\* A new attempt begins with a new stream, or the call goes elsewhere.
LEMMA StartFate ==
  ASSUME Types, NEW r \in Calls, Fate(r), RoundTripOpt(r)
  PROVE  Others(r) /\ Fate(r)'
<1>0. CallTypes /\ WriterTypes /\ StreamTypes
  BY DEF Types
<1>1. CASE /\ caller' = [caller EXCEPT ![r] = "elsewhere"]
           /\ UNCHANGED <<writer, cs, err, disowned, rst>>
  <2>1. \A q \in Calls : CallDrift(q)
    BY <1>0, <1>1, CallMove DEF CallerStates
  <2>2. \A q \in Calls : WriterDrift(q)
    BY <1>1 DEF WriterDrift
  <2>. QED  BY <1>0, <1>1, <2>1, <2>2, StreamSameDrift, DriftKeeps DEF Drift, Others
<1>2. CASE /\ caller' = [caller EXCEPT ![r] = "select"] /\ writer' = [writer EXCEPT ![r] = "start"]
           /\ cs' = [cs EXCEPT ![r] = NewStream] /\ err' = [err EXCEPT ![r] = "nil"]
           /\ disowned' = disowned \ {r} /\ rst' = rst \ {r}
  <2>1. /\ \A q \in Calls \ {r} : /\ writer'[q] = writer[q] /\ err'[q] = err[q]
                                  /\ caller'[q] = caller[q] /\ cs'[q] = cs[q]
        /\ writer'[r] = "start" /\ err'[r] = "nil" /\ caller'[r] = "select" /\ cs'[r] = NewStream
    BY <1>0, <1>2 DEF WriterTypes, CallTypes, StreamTypes
  <2>2. Others(r)
    <3>. SUFFICES ASSUME NEW q \in Calls \ {r} PROVE Drift(q)
      BY DEF Others
    <3>1. StreamDrift(q, cs'[q])
      BY <1>0, <2>1, StreamDrifts
    <3>2. WriterDrift(q) /\ CallDrift(q)
      BY <1>2, <2>1 DEF WriterDrift, CallDrift
    <3>. QED  BY <3>1, <3>2 DEF Drift
  <2>3. Fate(r)'
    BY <2>1 DEF Fate, Reasons, Reason, Progress, Repeatable, NewStream, ResetErrors, DisownErrors
  <2>. QED  BY <2>2, <2>3
<1>. QED  BY <1>1, <1>2 DEF RoundTripOpt

\* RoundTripOpt decides on a repetition after the stream was aborted.
LEMMA RepeatFate ==
  ASSUME Types, NEW r \in Calls, Fate(r), waitDone(r)
  PROVE  Others(r) /\ Fate(r)'
<1>0. CallTypes /\ WriterTypes /\ StreamTypes
  BY DEF Types
<1>1. UNCHANGED <<writer, cs, err, disowned, rst>>
  BY DEF waitDone, ghostVars
<1>2. (\A q \in Calls : WriterDrift(q)) /\ \A q \in Calls : StreamDrift(q, cs'[q])
  BY <1>0, <1>1, StreamSameDrift DEF WriterDrift
<1>3. CASE \E x \in {"waitAbort", "finished", "failed"} : caller' = [caller EXCEPT ![r] = x]
  <2>1. \A q \in Calls : CallDrift(q)
    BY <1>0, <1>1, <1>3, CallMove DEF CallerStates
  <2>. QED  BY <1>2, <2>1, DriftKeeps DEF Drift, Others
<1>4. CASE caller' = [caller EXCEPT ![r] = "again"] /\ CanRetryError(cs[r].abort)
  <2>1. \A q \in Calls \ {r} : caller'[q] = caller[q]
    BY <1>0, <1>4 DEF CallTypes
  <2>2. Others(r)
    BY <1>1, <1>2, <2>1 DEF Others, Drift, CallDrift
  <2>3. Reasons(r)' /\ Progress(r)'
    BY <1>1 DEF Fate, Reasons, Reason, Progress
  <2>4. Repeatable(r)'
    BY <1>1, <1>4 DEF Fate, Reasons, Reason, Repeatable, CanRetryError, DisownErrors
  <2>. QED  BY <2>2, <2>3, <2>4 DEF Fate
<1>. QED  BY <1>3, <1>4 DEF waitDone, Failed, shouldRetryRequest, CanRetryError

-----------------------------------------------------------------------------
(* Sleeping writers.                                                       *)

\* A step that neither puts a writer to sleep nor takes a stream away from a
\* sleeping one.
LEMMA WakeableKept ==
  ASSUME Wakeable, env' = env,
         \/ cc'.maxConcurrentStreams = cc.maxConcurrentStreams
         \/ cc'.maxConcurrentStreams \in env.limits \cap Nat,
         \A q \in Calls : writer'[q] = "await" =>
            streams' # {} \/ (writer[q] = "await" /\ streams' = streams)
  PROVE  Wakeable'
  BY DEF Wakeable

\* After a Broadcast no writer sleeps for a slot.
LEMMA BroadcastWakes ==
  ASSUME NEW wr, Broadcast(wr) PROVE \A q \in Calls : writer'[q] # "await"
<1>. TAKE q \in Calls
<1>1. writer'[q] = CASE wr[q] = "await" -> "awake" [] wr[q] = "flow" -> "data" [] OTHER -> wr[q]
  BY DEF Broadcast
<1>2. CASE wr[q] = "await"
  BY <1>1, <1>2
<1>3. CASE wr[q] = "flow"
  BY <1>1, <1>3
<1>4. CASE wr[q] # "await" /\ wr[q] # "flow"
  BY <1>1, <1>4
<1>. QED  BY <1>2, <1>3, <1>4

\* Every action keeps Wakeable.
LEMMA WakeableStep ==
  ASSUME IInv, Wakeable, Next
  PROVE  Wakeable'
<1>0. Types /\ cc \in ConnType /\ WriterTypes
  BY DEF IInv, Types
<1>1. ASSUME env' = env, cc'.maxConcurrentStreams = cc.maxConcurrentStreams, streams' = streams,
             \/ writer' = writer \/ \E wr : Broadcast(wr)
             \/ \E r \in Calls : \E a : a # "await" /\ writer' = [writer EXCEPT ![r] = a]
      PROVE  Wakeable'
  <2>1. \A q \in Calls : writer'[q] = "await" => writer[q] = "await"
    BY <1>0, <1>1, BroadcastWakes DEF WriterTypes
  <2>. QED  BY <1>1, <2>1, WakeableKept
<1>2. ASSUME NEW r \in Calls, RoundTripOpt(r) PROVE Wakeable'
  <2>1. cc'.maxConcurrentStreams = cc.maxConcurrentStreams
    BY <1>0, <1>2 DEF RoundTripOpt, ConnType
  <2>2. env' = env /\ streams' = streams /\ (writer' = writer \/ writer' = [writer EXCEPT ![r] = "start"])
    BY <1>2 DEF RoundTripOpt
  <2>. QED  BY <1>1, <2>1, <2>2
<1>3. ASSUME NEW r \in Calls, CloseBody(r) \/ callerStep(r) \/ cancel(r) PROVE Wakeable'
  <2>1. env' = env /\ streams' = streams /\ cc' = cc /\ (writer' = writer \/ Broadcast(writer))
    BY <1>3 DEF CloseBody, callerStep, cancel, handleResponseHeaders, waitDone, cancelRequest,
           reqBodyClose, backoffCanceled, abortStream
  <2>. QED  BY <1>1, <2>1
<1>4. ASSUME NEW r \in Calls, frame(r) PROVE Wakeable'
  <2>1. env' = env /\ streams' = streams /\ (writer' = writer \/ Broadcast(writer))
    BY <1>4 DEF frame, processHeaders, processData, processResetStream, endStreamError, stopReader
  <2>2. cc'.maxConcurrentStreams = cc.maxConcurrentStreams
    <3>1. cc' = cc \/ \E b : cc' = [cc EXCEPT !.doNotReuse = b]
      BY <1>4 DEF frame, processHeaders, processData, processResetStream
    <3>. QED  BY <1>0, <3>1 DEF ConnType
  <2>. QED  BY <1>1, <2>1, <2>2
<1>5. ASSUME NEW r \in Calls,
             \/ returnReservation(r) \/ encodeAndWriteHeaders(r) \/ awaitContinue(r)
             \/ readRequestBody(r) \/ awaitFlowControl(r) \/ awaitPeer(r)
      PROVE  Wakeable'
  <2>1. env' = env /\ streams' = streams
    BY <1>5 DEF returnReservation, encodeAndWriteHeaders, awaitContinue, readRequestBody,
           awaitFlowControl, awaitPeer
  <2>2. cc'.maxConcurrentStreams = cc.maxConcurrentStreams
    <3>1. cc' = cc \/ cc' = decrStreamReservations(cc)
      BY <1>5 DEF returnReservation, encodeAndWriteHeaders, awaitContinue, readRequestBody,
             awaitFlowControl, awaitPeer, Unreserved
    <3>. QED  BY <1>0, <3>1 DEF ConnType, decrStreamReservations
  <2>3. \/ writer' = writer
        \/ \E a \in {"cleanup", "body", "data", "flow", "wait", "waitEnd", "continue"} : writer' = [writer EXCEPT ![r] = a]
    <3>1. CASE encodeAndWriteHeaders(r)
      <4>1. (IF HasBody(r) THEN "continue" ELSE "wait") \in {"continue", "wait"}
        OBVIOUS
      <4>. QED  BY <3>1, <4>1 DEF encodeAndWriteHeaders, Return
    <3>2. CASE returnReservation(r) \/ awaitContinue(r) \/ readRequestBody(r) \/ awaitFlowControl(r) \/ awaitPeer(r)
      BY <3>2 DEF returnReservation, awaitContinue, readRequestBody, awaitFlowControl, awaitPeer,
             Return, sendEndStream
    <3>. QED  BY <1>5, <3>1, <3>2
  <2>. QED  BY <1>1, <2>1, <2>2, <2>3
<1>6. ASSUME NEW r \in Calls, openStream(r) \/ awaitOpenSlot(r) PROVE Wakeable'
  <2>1. env' = env
    BY <1>6 DEF openStream, awaitOpenSlot
  <2>2. ASSUME NEW c \in ConnType, NEW e, ReturnEarly(r, e, c), c.maxConcurrentStreams = cc.maxConcurrentStreams
        PROVE  Wakeable'
    BY <1>1, <2>1, <2>2 DEF ReturnEarly
  <2>3. ASSUME NEW c \in ConnType, openSlot(r, c), c.maxConcurrentStreams = cc.maxConcurrentStreams
        PROVE  Wakeable'
    <3>1. CASE ReturnEarly(r, "unusable", c)
      BY <2>2, <2>3, <3>1
    <3>2. CASE addStream(r, c)
      <4>1. cc'.maxConcurrentStreams = cc.maxConcurrentStreams
        BY <2>3, <3>2 DEF addStream, ConnType
      <4>2. streams' # {}
        BY <3>2 DEF addStream
      <4>. QED  BY <2>1, <4>1, <4>2, WakeableKept
    <3>3. CASE /\ Cardinality(streams) >= c.maxConcurrentStreams
               /\ cc' = [c EXCEPT !.pendingRequests = @ + 1]
               /\ writer' = [writer EXCEPT ![r] = "await"]
               /\ streams' = streams
      <4>1. cc'.maxConcurrentStreams = cc.maxConcurrentStreams
        BY <2>3, <3>3 DEF ConnType
      <4>2. cc.maxConcurrentStreams > 0 => streams # {}
        <5>1. Cardinality({}) = 0 /\ cc.maxConcurrentStreams \in Nat
          BY <1>0, FS_EmptySet DEF ConnType
        <5>. QED  BY <2>3, <3>3, <5>1
      <4>. QED  BY <2>1, <3>3, <4>1, <4>2 DEF Wakeable
    <3>. QED  BY <2>3, <3>1, <3>2, <3>3 DEF openSlot
  <2>4. /\ decrStreamReservations(cc) \in ConnType
        /\ decrStreamReservations(cc).maxConcurrentStreams = cc.maxConcurrentStreams
    BY <1>0 DEF ConnType, decrStreamReservations
  <2>5. CASE openStream(r)
    BY <1>0, <2>2, <2>3, <2>4, <2>5 DEF openStream
  <2>6. CASE awaitOpenSlot(r)
    <3>. DEFINE c == [cc EXCEPT !.pendingRequests = @ - 1]
    <3>1. cc.pendingRequests = 1
      BY <2>6 DEF awaitOpenSlot, IInv, LockInv, Waiting
    <3>2. c \in ConnType /\ c.maxConcurrentStreams = cc.maxConcurrentStreams
      BY <1>0, <3>1 DEF ConnType
    <3>. HIDE DEF c
    <3>. QED  BY <2>2, <2>3, <2>6, <3>2 DEF awaitOpenSlot, c
  <2>. QED  BY <1>6, <2>5, <2>6
<1>7. ASSUME NEW r \in Calls, cleanupWriteRequest(r) PROVE Wakeable'
  <2>1. env' = env /\ \E wr : Broadcast(wr)
    BY <1>7 DEF cleanupWriteRequest, closeForError, Done
  <2>2. cc'.maxConcurrentStreams = cc.maxConcurrentStreams
    <3>1. \E b : cc' = [cc EXCEPT !.closed = b]
      BY <1>7 DEF cleanupWriteRequest, closeForError
    <3>. QED  BY <1>0, <3>1 DEF ConnType
  <2>. QED  BY <2>1, <2>2, BroadcastWakes, WakeableKept
<1>8. ASSUME NEW limit \in env.limits, NEW windows \in BOOLEAN, processSettings(limit, windows)
      PROVE  Wakeable'
  <2>1. env' = env /\ streams' = streams /\ (writer' = writer \/ Broadcast(writer))
    BY <1>8 DEF processSettings
  <2>2. cc'.maxConcurrentStreams = limit /\ limit \in Nat
    BY <1>0, <1>8, Consts DEF processSettings, ConnType, Types, RestTypes
  <2>. QED  BY <2>1, <2>2, BroadcastWakes, WakeableKept
<1>9. ASSUME NEW last, NEW code, processGoAway(last, code) PROVE Wakeable'
  <2>1. env' = env /\ streams' = streams /\ (writer' = writer \/ Broadcast(writer))
    BY <1>9 DEF processGoAway
  <2>2. cc'.maxConcurrentStreams = cc.maxConcurrentStreams
    BY <1>0, <1>9 DEF processGoAway, ConnType
  <2>. QED  BY <1>1, <2>1, <2>2
<1>10. ASSUME \/ processWindowUpdate \/ processPing \/ readError \/ readLoopCleanup
              \/ Shutdown \/ onIdleTimeout \/ lostPing
       PROVE  Wakeable'
  <2>1. env' = env /\ streams' = streams /\ (writer' = writer \/ Broadcast(writer))
    BY <1>10 DEF processWindowUpdate, processPing, readError, readLoopCleanup, Shutdown, onIdleTimeout,
           lostPing, closeForError, stopReader
  <2>2. cc'.maxConcurrentStreams = cc.maxConcurrentStreams
    <3>1. cc' = cc \/ (\E b : cc' = [cc EXCEPT !.closed = b]) \/ (\E b : cc' = [cc EXCEPT !.closing = b])
      BY <1>10 DEF processWindowUpdate, processPing, readError, readLoopCleanup, Shutdown, onIdleTimeout,
             lostPing, closeForError, closeIfIdle
    <3>. QED  BY <1>0, <3>1 DEF ConnType
  <2>. QED  BY <1>1, <2>1, <2>2
<1>. QED  BY <1>2, <1>3, <1>4, <1>5, <1>6, <1>7, <1>8, <1>9, <1>10 DEF Next, writerStep, connStep

-----------------------------------------------------------------------------
(* The theorems.                                                           *)

\* Every step keeps StreamInv, relative to the other invariant.
LEMMA StreamInvStep == IInv /\ StreamInv /\ [Next]_vars => StreamInv'
<1>. SUFFICES ASSUME IInv, StreamInv, [Next]_vars PROVE StreamInv'
  OBVIOUS
<1>0. Types /\ (\A q \in Calls : Fate(q)) /\ Wakeable
  BY DEF IInv, StreamInv
<1>1. ASSUME AllDrift PROVE \A q \in Calls : Fate(q)'
  BY <1>0, <1>1, DriftKeeps DEF AllDrift
<1>2. ASSUME NEW r \in Calls, Others(r), Fate(r)' PROVE \A q \in Calls : Fate(q)'
  BY <1>0, <1>2, DriftKeeps DEF Others
<1>3. CASE Next
  <2>1. ASSUME NEW r \in Calls, CloseBody(r) \/ callerStep(r) \/ cancel(r) PROVE \A q \in Calls : Fate(q)'
    BY <1>0, <1>1, <1>2, <2>1, CallerDrift, RepeatFate DEF callerStep
  <2>2. ASSUME NEW r \in Calls, RoundTripOpt(r) PROVE \A q \in Calls : Fate(q)'
    BY <1>0, <1>2, <2>2, StartFate
  <2>3. ASSUME NEW r \in Calls, writerStep(r) PROVE \A q \in Calls : Fate(q)'
    BY <1>0, <1>1, <1>2, <2>3, OpenDrift, ReservationDrift, HeadersFate, SendDrift, CleanupFate
       DEF writerStep
  <2>4. ASSUME NEW r \in Calls, frame(r) PROVE \A q \in Calls : Fate(q)'
    BY <1>0, <1>1, <2>4, FrameDrift, ResetDrift DEF frame, ResetErrors
  <2>5. ASSUME connStep PROVE \A q \in Calls : Fate(q)'
    BY <1>0, <1>1, <2>5, GoAwayDrift, ConnDrift DEF connStep
  <2>6. \A q \in Calls : Fate(q)'
    BY <1>3, <2>1, <2>2, <2>3, <2>4, <2>5 DEF Next
  <2>7. Wakeable'
    BY <1>0, <1>3, WakeableStep
  <2>. QED  BY <2>6, <2>7 DEF StreamInv
<1>4. CASE UNCHANGED vars
  BY <1>4 DEF StreamInv, Fate, Reasons, Reason, Progress, Repeatable, Wakeable, vars
<1>. QED  BY <1>3, <1>4

\* A new connection satisfies StreamInv: no stream was opened.
LEMMA StreamInvInit == Init => StreamInv
<1>. SUFFICES ASSUME Init PROVE StreamInv
  OBVIOUS
<1>1. \A q \in Calls : Fate(q)
  BY DEF Init, Fate, Reasons, Reason, Progress, Repeatable, NewStream, ResetErrors, DisownErrors
<1>2. Wakeable
  BY DEF Init, Wakeable
<1>. QED  BY <1>1, <1>2 DEF StreamInv

\* The invariant always holds.
LEMMA SpecStreamInv == Spec => []StreamInv
<1>1. IInv /\ StreamInv /\ [Next]_vars => StreamInv'
  BY StreamInvStep
<1>2. Init => StreamInv
  BY StreamInvInit
<1>. QED  BY <1>1, <1>2, SpecIInv, PTL DEF Spec

\* RoundTripOpt repeats only what the server did not process, with the one
\* exception of CanRetryError.
THEOREM OnlyUnprocessedRepeated == Spec => []RetryUnprocessed
<1>1. StreamInv => RetryUnprocessed
  BY DEF StreamInv, Fate, Repeatable, RetryUnprocessed
<1>. QED  BY <1>1, SpecStreamInv, PTL

\* A stream that cleanupWriteRequest forgets was reset or is over for the
\* peer as well, except that of a request with Trailer and no body that the
\* peer ended: its HEADERS go out without END_STREAM, but sentEndStream is
\* set, so no RST_STREAM follows.
THEOREM StreamsEnded == Spec => []NoHalfOpenStream
<1>1. StreamInv => NoHalfOpenStream
  BY DEF StreamInv, Fate, Progress, NoHalfOpenStream
<1>. QED  BY <1>1, SpecStreamInv, PTL

\* A writer asleep in awaitOpenSlotForStreamLocked has a stream to wait for.
THEOREM SleepersWakeable == Spec => []WaiterHasWaker
<1>1. StreamInv => WaiterHasWaker
  BY DEF StreamInv, Wakeable, WaiterHasWaker
<1>. QED  BY <1>1, SpecStreamInv, PTL
=============================================================================
