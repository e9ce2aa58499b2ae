----------------------------- MODULE MCExchange -----------------------------
(***************************************************************************)
(* Two problems of HTTP/1.  "exchange" is Exchange: a GET and a second     *)
(* request, one after the other or at the same time.  "evict" is the pool  *)
(* with more hosts than room for idle connections.  A behaviour is of one  *)
(* of them, named by part; the state of the other stays as it is.          *)
(***************************************************************************)
EXTENDS Exchange, TLC

CONSTANTS r1, r2, c1, c2,
          e1, e2, e3       \* calls of getConn in "evict"

VARIABLES part,
          caller, done, result, held, dialer, dialCanceled, persist, alt, reused, reader, put,
          idleConn, idleLRU, idleConnWait, closeIdle, connsPerHost, connsPerHostWait,
          dialsInProgress, expiring, closer, doomed, closeCalls, panics

poolVars == <<caller, done, result, held, dialer, dialCanceled, persist, alt, reused, reader, put,
              idleConn, idleLRU, idleConnWait, closeIdle, connsPerHost, connsPerHostWait,
              dialsInProgress, expiring, closer, doomed, closeCalls, panics>>

Get  == [body |-> FALSE, getBody |-> FALSE, idempotent |-> TRUE,
         close |-> FALSE, expect |-> FALSE, https |-> FALSE]
Post == [Get EXCEPT !.body = TRUE, !.idempotent = FALSE]
Put  == [Post EXCEPT !.getBody = TRUE, !.idempotent = TRUE]

Empty == [code |-> "final", close |-> FALSE, body |-> FALSE]
Full  == [Empty EXCEPT !.body = TRUE]
Last  == [Empty EXCEPT !.close = TRUE]
Tunnel == [Empty EXCEPT !.code = "101"]

\* A GET, then p on the connection that is left.
Then(p) == [profile |-> [r \in Reqs |-> IF r = r1 THEN Get ELSE p],
            after |-> [r \in Reqs |-> IF r = r1 THEN {} ELSE {r1}],
            replies |-> {Empty}, faults |-> {}]

\* Both at the same time.
With(p) == [Then(p) EXCEPT !.after = [r \in Reqs |-> {}]]

\* p alone: the GET never starts.
Only(p) == [Then(p) EXCEPT !.after = [r \in Reqs |-> IF r = r1 THEN {r1} ELSE {}]]

Situations ==
    {[Then([Put EXCEPT !.idempotent = FALSE]) EXCEPT !.faults = {"close"}],
     [Then(Put) EXCEPT !.faults = {"reset"}],
     [Then(Put) EXCEPT !.faults = {"408"}],
     [Then(Get) EXCEPT !.faults = {"full", "closeIdle"}, !.replies = {Empty, Full, Last, Tunnel}],
     [Then([Put EXCEPT !.expect = TRUE]) EXCEPT !.replies = {Empty, Last}],
     [With([Post EXCEPT !.expect = TRUE]) EXCEPT !.faults = {}],
     [With(Get) EXCEPT !.faults = {"closeIdle"}],
     [Only([Post EXCEPT !.expect = TRUE]) EXCEPT !.faults = {"1xx", "malformed", "cancel"}, !.replies = {Full, Last}],
     [Only([Put EXCEPT !.https = TRUE]) EXCEPT !.faults = {"dial", "invalid"}],
     [Only([Post EXCEPT !.https = TRUE]) EXCEPT !.faults = {"bodyRead", "timeout"}],
     [Only(Put) EXCEPT !.faults = {"cancel", "close"}, !.replies = {Full}]}

-----------------------------------------------------------------------------
(* Two hosts whose calls share room for one idle connection, and what may  *)
(* go wrong: nothing, or peers that close connections.                     *)

Pool(faults) == INSTANCE ConnPool WITH
    Reqs <- {e1, e2, e3}, Keys <- {"k1", "k2"},
    KeyOf <- [w \in {e1, e2, e3} |-> IF w = e3 THEN "k2" ELSE "k1"],
    MaxConnsPerHost <- 0, MaxIdleConnsPerHost <- 1, MaxIdleConns <- 1,
    DisableKeepAlives <- FALSE, IdleConnTimeout <- FALSE, CanH2 <- FALSE, CloseIdleCalls <- 0,
    Faults <- faults, NoConn <- "NoConn", DialErr <- "DialErr", conn <- persist

\* Peers close connections until the last call begins.
PeerCloses ==
    /\ \E w \in {e1, e2, e3} : caller[w] = "start"
    /\ \E c \in {e1, e2, e3} : Pool({"peer"})!persistConnClose(c)

\* The two calls to the first host are interchangeable.
SameHost == Permutations({e1, e2})

InitPart ==
    /\ part \in {"exchange", "evict"}
    /\ Init /\ Pool({})!Init
    /\ part = "evict" => env = CHOOSE s \in Scenarios : TRUE

NextPart ==
    /\ UNCHANGED part
    /\ \/ part = "exchange" /\ Next /\ UNCHANGED poolVars
       \/ part = "evict" /\ (Pool({})!Next \/ PeerCloses) /\ UNCHANGED vars

SpecPart == InitPart /\ [][NextPart]_<<part, vars, poolVars>>

\* The idle list of the HTTP/1 pool survives eviction, removal and reuse in
\* any order: no internal panic, every connection in the LRU is in the idle
\* map and back, and no connection is left open without owner or list.
EvictionSafe == part = "evict" => Pool({})!EvictionSafe
=============================================================================
