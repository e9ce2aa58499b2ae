------------------------------- MODULE H3Pool -------------------------------
(***************************************************************************)
(* The HTTP/3 Transport and its map of clients, for one host               *)
(* (internal/http3/transport.go).  A client is a QUIC connection with the  *)
(* number of requests that use it; requests dial it together, retry once   *)
(* on another one, and CloseIdleConnections and Close run at any time.     *)
(*                                                                         *)
(* What one HTTP/3 request does on its connection (clientConn.RoundTrip)   *)
(* is reduced to its outcomes; H3Stream has the inside.                    *)
(***************************************************************************)
EXTENDS Integers, Sequences, FiniteSets

CONSTANTS
    H3Reqs,        \* requests
    H3Scenarios,   \* see H3ScenarioType
    MaxClients     \* bound: dials

H3ScenarioType ==
    [reqs : SUBSET H3Reqs,
     cached : SUBSET H3Reqs,                    \* OnlyCachedConn
     body : {"none", "getBody", "stream"},      \* their request bodies
     events : SUBSET {"cancel", "idle", "close", "add", "die", "reject", "fail"}]

Errors == {"nil", "noCachedConn", "closed", "dial", "canceled", "unusable", "rejected", "failed"}
None == 0

VARIABLES
    h3env,      \* the scenario, which never changes
    current,    \* t.clients[hostname]: a client's number, None if absent
    client,     \* the clients dialed so far, in order
    h3req,      \* each request
    h3ended,    \* the requests whose context ended
    h3closed,   \* t.closed
    processed   \* how often the server may have acted on each request

h3poolVars == <<h3env, current, client, h3req, h3ended, h3closed, processed>>

\* A request: where it is, the client it uses, those whose use count it still
\* holds through deferred calls, whether this is the retry, and its result.
NewH3Req == [at |-> "start", cl |-> None, holds |-> <<>>, retried |-> FALSE, err |-> "nil"]

Init ==
    /\ h3env \in H3Scenarios
    /\ current = None /\ client = <<>> /\ h3ended = {} /\ h3closed = FALSE
    /\ h3req = [r \in h3env.reqs |-> NewH3Req]
    /\ processed = [r \in h3env.reqs |-> 0]

\* A client whose dial has begun; by is the request whose context it uses, or
\* "background".
NewClient(by) == [by |-> by, dial |-> "dialing", useCount |-> 0, conn |-> "none", idleClosed |-> FALSE]

\* Mutant: the user of a client that exists already is not counted.
Used_new(c, i) == IF c[i].dial = "dialing" THEN [c EXCEPT ![i].useCount = @ + 1] ELSE c

Used(c, i) == [c EXCEPT ![i].useCount = @ + 1]

Fail(r, e) == h3req' = [h3req EXCEPT ![r].at = "failed", ![r].err = e, ![r].holds = <<>>]

\* The deferred useCount.Add(-1) of every doRoundTripOpt of r that returns.
Release(r) ==
    [i \in DOMAIN client |->
       [client[i] EXCEPT !.useCount =
            @ - Cardinality({k \in DOMAIN h3req[r].holds : h3req[r].holds[k] = i})]]

-----------------------------------------------------------------------------
(* doRoundTripOpt                                                          *)

\* getClient, under t.mutex.
getClient(r) ==
    /\ h3req[r].at = "start"
    /\ \/ h3closed /\ Fail(r, "closed") /\ client' = Release(r) /\ UNCHANGED current
       \/ /\ ~h3closed /\ current = None /\ r \in h3env.cached
          /\ Fail(r, "noCachedConn") /\ client' = Release(r) /\ UNCHANGED current
       \/ /\ ~h3closed /\ current = None /\ r \notin h3env.cached /\ Len(client) < MaxClients
          /\ client' = Used(Append(client, NewClient(r)), Len(client) + 1)
          /\ current' = Len(client) + 1
          /\ h3req' = [h3req EXCEPT ![r].at = "wait", ![r].cl = current']
       \/ /\ ~h3closed /\ current # None /\ client[current].dial \in {"dial", "canceled"}
          /\ Fail(r, client[current].dial) /\ client' = Release(r) /\ current' = None
       \/ /\ ~h3closed /\ current # None /\ client[current].dial \in {"dialing", "ok"}
          /\ client' = Used(client, current)
          /\ h3req' = [h3req EXCEPT ![r].at = "wait", ![r].cl = current]
          /\ UNCHANGED current
    /\ UNCHANGED <<h3env, h3ended, h3closed, processed>>

\* The goroutine that dials, with the context of the request that started it.
dial(i) ==
    /\ client[i].dial = "dialing"
    /\ \/ client' = [client EXCEPT ![i].dial = "ok", ![i].conn = "up"]
       \/ /\ client[i].by \in h3ended
          /\ client' = [client EXCEPT ![i].dial = "canceled"]
       \/ client' = [client EXCEPT ![i].dial = "dial"]
    /\ UNCHANGED <<h3env, current, h3req, h3ended, h3closed, processed>>

\* The dial is over: its error, for which the host's client is removed, or on.
awaitDial(r) ==
    /\ h3req[r].at = "wait" /\ client[h3req[r].cl].dial # "dialing"
    /\ IF client[h3req[r].cl].dial = "ok"
       THEN /\ h3req' = [h3req EXCEPT ![r].at = "roundTrip", ![r].holds = Append(@, h3req[r].cl)]
            /\ UNCHANGED <<current, client>>
       ELSE /\ Fail(r, client[h3req[r].cl].dial)
            /\ client' = Release(r) /\ current' = None
    /\ UNCHANGED <<h3env, h3ended, h3closed, processed>>

\* The context ends first; the use count keeps this request.
awaitDialCanceled(r) ==
    /\ h3req[r].at = "wait" /\ r \in h3ended
    /\ Fail(r, "canceled") /\ client' = Release(r)
    /\ UNCHANGED <<h3env, current, h3ended, h3closed, processed>>

\* clientConn.RoundTrip returns a response; the count no longer holds the
\* client although the response body is still to be read.
RoundTripOK(r) ==
    /\ h3req[r].at = "roundTrip" /\ client[h3req[r].cl].conn = "up"
    /\ h3req' = [h3req EXCEPT ![r].at = "body", ![r].holds = <<>>]
    /\ client' = Release(r)
    /\ processed' = [processed EXCEPT ![r] = @ + 1]
    /\ UNCHANGED <<h3env, current, h3ended, h3closed>>

\* Mutant: every failed request is tried again.
canRetryRequest_any(e) == TRUE

\* canRetryRequest.
canRetryRequest(e) ==
    \/ e = "unusable"
    \/ e = "rejected" /\ h3env.body \in {"none", "getBody"}

\* clientConn.RoundTrip fails: no stream could be opened, the stream was reset
\* with H3_REQUEST_REJECTED, or it failed later.  Unless the context ended the
\* client is removed and the request tried once more.
RoundTripErr(r, e) ==
    /\ h3req[r].at = "roundTrip"
    /\ \/ e = "unusable" /\ client[h3req[r].cl].conn # "up"
       \/ e = "rejected" /\ "reject" \in h3env.events
       \/ e = "failed" /\ (client[h3req[r].cl].conn # "up" \/ "fail" \in h3env.events)
       \/ e = "canceled" /\ r \in h3ended
    /\ processed' = IF e \in {"failed", "canceled"} THEN [processed EXCEPT ![r] = @ + 1] ELSE processed
    /\ IF r \in h3ended \/ h3req[r].retried
       THEN Fail(r, e) /\ client' = Release(r) /\ UNCHANGED current
       ELSE /\ current' = None
            /\ IF canRetryRequest(e)
               THEN /\ h3req' = [h3req EXCEPT ![r].at = "start", ![r].retried = TRUE]
                    /\ UNCHANGED client
               ELSE Fail(r, e) /\ client' = Release(r)
    /\ UNCHANGED <<h3env, h3ended, h3closed>>

\* The caller reads the response body to its end, or finds the connection gone.
readBody(r) ==
    /\ h3req[r].at = "body"
    /\ h3req' = [h3req EXCEPT ![r].at = IF client[h3req[r].cl].conn = "up" THEN "read" ELSE "cut"]
    /\ UNCHANGED <<h3env, current, client, h3ended, h3closed, processed>>

-----------------------------------------------------------------------------
(* AddConn, CloseIdleConnections, Close; the network                       *)

AddConn ==
    /\ "add" \in h3env.events /\ ~h3closed
    /\ \/ /\ current = None /\ Len(client) < MaxClients
          /\ client' = Append(client, NewClient("background")) /\ current' = Len(client')
       \/ /\ current # None /\ client[current].dial \in {"dial", "canceled"}
          /\ current' = None /\ UNCHANGED client
    /\ UNCHANGED <<h3env, h3req, h3ended, h3closed, processed>>

\* roundTripperWithCount.Close, which cancels a dial and waits for it.
Closed(c) == [c EXCEPT !.dial = IF @ = "dialing" THEN "canceled" ELSE @,
                       !.conn = IF @ = "up" THEN "closed" ELSE @]

CloseIdleConnections ==
    /\ "idle" \in h3env.events /\ current # None /\ client[current].useCount = 0
    /\ client' = [client EXCEPT ![current] = [Closed(@) EXCEPT !.idleClosed = TRUE]]
    /\ current' = None
    /\ UNCHANGED <<h3env, h3req, h3ended, h3closed, processed>>

\* Close: the clients of the map, and through the QUIC transport all others.
Close ==
    /\ "close" \in h3env.events /\ ~h3closed
    /\ client' = [i \in DOMAIN client |-> Closed(client[i])]
    /\ current' = None /\ h3closed' = TRUE
    /\ UNCHANGED <<h3env, h3req, h3ended, processed>>

cancel(r) ==
    /\ "cancel" \in h3env.events /\ r \notin h3ended
    /\ h3ended' = h3ended \cup {r}
    /\ UNCHANGED <<h3env, current, client, h3req, h3closed, processed>>

\* The QUIC connection breaks (idle timeout, reset).
die(i) ==
    /\ "die" \in h3env.events /\ client[i].conn = "up"
    /\ client' = [client EXCEPT ![i].conn = "dead"]
    /\ UNCHANGED <<h3env, current, h3req, h3ended, h3closed, processed>>

Next ==
    \/ \E r \in h3env.reqs :
          \/ getClient(r) \/ awaitDial(r) \/ awaitDialCanceled(r) \/ RoundTripOK(r)
          \/ \E e \in {"unusable", "rejected", "failed", "canceled"} : RoundTripErr(r, e)
          \/ readBody(r) \/ cancel(r)
    \/ \E i \in DOMAIN client : dial(i) \/ die(i)
    \/ AddConn \/ CloseIdleConnections \/ Close

Spec == Init /\ [][Next]_h3poolVars

-----------------------------------------------------------------------------

\* No request is acted on twice: the one retry after a failure happens only
\* when the server cannot have processed the request.
ProcessedOnce == \A r \in h3env.reqs : processed[r] <= 1

\* CloseIdleConnections spares every client whose connection a request is
\* dialing, opening a stream on or awaiting a response from.
RoundTripSpared ==
    \A r \in h3env.reqs :
       h3req[r].at \in {"wait", "roundTrip"} => ~client[h3req[r].cl].idleClosed

\* "This method does not interrupt any connections currently in use": nor does
\* it cut off a response whose body is being read.
InUseSpared ==
    \A r \in h3env.reqs :
       h3req[r].at \in {"wait", "roundTrip", "body"} => ~client[h3req[r].cl].idleClosed
=============================================================================
