------------------------------ MODULE ConnPool ------------------------------
(***************************************************************************)
(* The connection pool of Transport (transport.go).                        *)
(*                                                                         *)
(* A call of getConn owns one wantConn w.  Three parties race to answer    *)
(* it: an idle connection handed over by tryPutIdleConn, the dial started  *)
(* for w, and the cancellation of the request.  The pool also counts the   *)
(* connections per host so that MaxConnsPerHost is respected.              *)
(*                                                                         *)
(* One action is one critical section of the code: idleMu, connsPerHostMu, *)
(* persistConn.mu or wantConn.mu, together with the locks taken inside it. *)
(* A wantConn is dialled at most once, so the persistConn dialled for w is *)
(* named w as well.                                                        *)
(***************************************************************************)
EXTENDS Integers, Sequences, FiniteSets, Functions

CONSTANTS
    Reqs,                 \* calls of getConn, and the connections they dial
    Keys,                 \* connectMethodKeys
    KeyOf,                \* the key of each call
    MaxConnsPerHost,      \* 0 means no limit
    MaxIdleConnsPerHost,  \* negative: nothing is kept; 0: the default
    MaxIdleConns,         \* 0 means no limit
    DisableKeepAlives,
    IdleConnTimeout,      \* whether an idle timeout is configured
    CanH2,                \* whether ALPN may negotiate h2 (persistConn.alt # nil)
    CloseIdleCalls,       \* how often CloseIdleConnections is called
    Faults,               \* what may go wrong: "cancel", "dial", "peer"
    NoConn, DialErr       \* an empty result channel, a delivered dial error

ASSUME PoolAssumption ==
    /\ IsFiniteSet(Reqs)
    /\ KeyOf \in [Reqs -> Keys]
    /\ MaxConnsPerHost \in Nat
    /\ MaxIdleConnsPerHost \in Int
    /\ MaxIdleConns \in Nat
    /\ CloseIdleCalls \in Nat
    /\ {DisableKeepAlives, IdleConnTimeout, CanH2} \subseteq BOOLEAN
    /\ Faults \subseteq {"cancel", "dial", "peer"}
    /\ NoConn \notin Reqs /\ DialErr \notin Reqs /\ NoConn # DialErr

VARIABLES
    caller,            \* where each getConn caller is
    done,              \* wantConn.done
    result,            \* wantConn.result, a channel of capacity one
    held,              \* the persistConn a caller uses or is handing back
    dialer,            \* where the dial goroutine of each wantConn is
    dialCanceled,      \* dials whose context CloseIdleConnections canceled
    conn,              \* persistConn: not dialled, open, or closed # nil
    alt,               \* persistConns that speak HTTP/2
    reused,            \* persistConn.reused
    reader,            \* readLoop of each HTTP/1 persistConn
    put,               \* progress of tryPutIdleConn / putOrCloseIdleConn
    idleConn, idleLRU, \* idle lists (newest last) and LRU list (newest first)
    idleConnWait,      \* queue of wantConns waiting for an idle connection
    closeIdle,
    connsPerHost, connsPerHostWait,
    dialsInProgress,
    expiring,          \* pending goroutines running closeConnIfStillIdle
    closer, doomed,    \* a running CloseIdleConnections, and what it will close
    closeCalls,        \* calls of CloseIdleConnections left
    panics             \* internal-error panics that were reached

callVars == <<caller, done, result, held>>
slotVars == <<connsPerHost, connsPerHostWait, dialsInProgress>>
dialVars == <<dialer, slotVars>>
idleVars == <<idleConn, idleLRU, idleConnWait, closeIdle>>
connVars == <<conn, alt, reused, reader>>
stopVars == <<expiring, closer, doomed, closeCalls, dialCanceled>>
vars == <<callVars, dialVars, idleVars, connVars, stopVars, put, panics>>

\* The three places that hand a connection back to the pool.
Agents == {"readLoop", "dialConnFor", "cancel"} \X Reqs

PutConn(a) == IF a[1] = "cancel" THEN held[a[2]] ELSE a[2]

maxIdleConnsPerHost ==
    IF MaxIdleConnsPerHost # 0 THEN MaxIdleConnsPerHost ELSE 2

\* The list q without its (first) entry c, if it has one.
Without(q, c) ==
    IF c \notin Range(q) THEN q
    ELSE LET n == CHOOSE i \in DOMAIN q : q[i] = c /\ \A j \in 1 .. i - 1 : q[j] # c
         IN  [j \in 1 .. Len(q) - 1 |-> IF j < n THEN q[j] ELSE q[j + 1]]

\* wantConnQueue.popFront until an entry satisfies ~d, which is q[i].
FirstWaiting(q, d, i) ==
    /\ i \in DOMAIN q
    /\ q[i] \notin d
    /\ \A j \in 1 .. i - 1 : q[j] \in d

\* How many entries the cleanFront loop drops: the longest prefix in d.
CleanFront(q, d) ==
    {n \in 0 .. Len(q) : /\ \A j \in 1 .. n : q[j] \in d
                         /\ n < Len(q) => q[n + 1] \notin d}

\* The queue q after a cleanFront loop dropped n entries and pushBack(w).
CleanPush(q, n, w) == Append(SubSeq(q, n + 1, Len(q)), w)

-----------------------------------------------------------------------------
(* Dial slots: queueForDial, startDialConnForLocked, decConnsPerHost.      *)

\* Mutant: cleans the dials of answered wantConns, finished or not.
startDialConnForLocked_cleanDone(w, dl) ==
    /\ dialer' = [dl EXCEPT ![w] = "start"]
    /\ \E n \in CleanFront(dialsInProgress, done) :
         dialsInProgress' = CleanPush(dialsInProgress, n, w)

\* startDialConnForLocked(w): dl is the dialer map the step has so far.
\* cleanFrontCanceled drops finished dials (cancelCtx = nil) from the front.
startDialConnForLocked(w, dl) ==
    /\ dialer' = [dl EXCEPT ![w] = "start"]
    /\ \E n \in CleanFront(dialsInProgress, {x \in Reqs : dl[x] = "end"}) :
         dialsInProgress' = CleanPush(dialsInProgress, n, w)

\* Mutant: a freed slot is not handed to the next waiting caller.
decConnsPerHost_noHandover(k, dl, d) ==
    /\ dialer' = dl
    /\ connsPerHost' = [connsPerHost EXCEPT ![k] = IF @ > 0 THEN @ - 1 ELSE @]
    /\ UNCHANGED <<connsPerHostWait, dialsInProgress, panics>>

decConnsPerHost(k, dl, d) ==
    LET q == connsPerHostWait[k]
        underflow == MaxConnsPerHost > 0 /\ connsPerHost[k] = 0
    IN  IF MaxConnsPerHost = 0 \/ underflow
        THEN /\ dialer' = dl
             /\ panics' = IF underflow THEN panics \cup {"connCount underflow"}
                          ELSE panics
             /\ UNCHANGED slotVars
        ELSE /\ UNCHANGED panics
             /\ \/ /\ \E i \in DOMAIN q :
                        /\ FirstWaiting(q, d, i)
                        /\ startDialConnForLocked(q[i], dl)
                        /\ connsPerHostWait' = [connsPerHostWait EXCEPT
                                                  ![k] = SubSeq(q, i + 1, Len(q))]
                   /\ UNCHANGED connsPerHost
                \/ /\ Range(q) \subseteq d
                   /\ connsPerHost' = [connsPerHost EXCEPT ![k] = @ - 1]
                   /\ connsPerHostWait' = [connsPerHostWait EXCEPT ![k] = <<>>]
                   /\ dialer' = dl
                   /\ UNCHANGED dialsInProgress

\* persistConn.closeLocked: only the first close gives the slot back.
closeLocked(c, d) ==
    IF conn[c] = "open"
    THEN /\ conn' = [conn EXCEPT ![c] = "closed"]
         /\ decConnsPerHost(KeyOf[c], dialer, d)
    ELSE UNCHANGED <<conn, dialVars, panics>>

-----------------------------------------------------------------------------
(* getConn, run by the goroutine of the request.                           *)

\* Mutant: an HTTP/1 connection is left on the idle list like an HTTP/2 one.
TakeIdle_shared(w, list, m) ==
    /\ done' = done \cup {w}
    /\ result' = [result EXCEPT ![w] = list[m]]
    /\ idleConn' = [idleConn EXCEPT ![KeyOf[w]] = SubSeq(list, 1, m)]
    /\ caller' = [caller EXCEPT ![w] = "select"]
    /\ UNCHANGED <<idleLRU, idleConnWait, expiring>>

\* Mutant: the connection taken off the idle list stays in the LRU.
TakeIdle_keepLRU(w, list, m) ==
    /\ done' = done \cup {w}
    /\ result' = [result EXCEPT ![w] = list[m]]
    /\ idleConn' = [idleConn EXCEPT ![KeyOf[w]] = SubSeq(list, 1, m - 1)]
    /\ caller' = [caller EXCEPT ![w] = "select"]
    /\ UNCHANGED <<idleLRU, idleConnWait, expiring>>

\* Hand the idle connection at position m of the list of w's key to w.
TakeIdle(w, list, m) ==
    LET k == KeyOf[w]
        c == list[m]
    IN  /\ done' = done \cup {w}
        /\ result' = [result EXCEPT ![w] = c]
        /\ idleConn' = [idleConn EXCEPT
                          ![k] = SubSeq(list, 1, IF c \in alt THEN m ELSE m - 1)]
        /\ idleLRU' = IF c \in alt THEN idleLRU ELSE Without(idleLRU, c)
        /\ caller' = [caller EXCEPT ![w] = "select"]
        /\ UNCHANGED <<idleConnWait, expiring>>

\* No usable idle connection: forget the list, register w as a waiter.  The
\* entries 1..old are too old; each gets a goroutine that will close it.
WaitIdle(w, list, old) ==
    LET k == KeyOf[w] IN
    /\ idleConn' = [idleConn EXCEPT ![k] = <<>>]
    /\ expiring' = expiring \cup {list[i] : i \in 1 .. old}
    /\ \E n \in CleanFront(idleConnWait[k], done) :
         idleConnWait' = [idleConnWait EXCEPT ![k] = CleanPush(@, n, w)]
    /\ caller' = [caller EXCEPT ![w] = "queueForDial"]
    /\ UNCHANGED <<done, result, idleLRU>>

\* The list is ordered by idleAt, so the too-old connections are a prefix.
queueForIdleConn(w) ==
    LET list == idleConn[KeyOf[w]] IN
    /\ caller[w] = "start"
    /\ \/ /\ DisableKeepAlives
          /\ caller' = [caller EXCEPT ![w] = "queueForDial"]
          /\ UNCHANGED <<done, result, idleVars, expiring>>
       \/ /\ ~DisableKeepAlives
          /\ closeIdle' = FALSE
          /\ \E old \in 0 .. (IF IdleConnTimeout THEN Len(list) ELSE 0) :
               LET usable == {i \in old + 1 .. Len(list) : conn[list[i]] = "open"}
               IN  \/ \E m \in usable : /\ \A i \in usable : i <= m
                                        /\ TakeIdle(w, list, m)
                   \/ /\ usable = {}
                      /\ WaitIdle(w, list, old)
    /\ UNCHANGED <<held, dialVars, connVars, dialCanceled, put, closer, doomed,
                   panics, closeCalls>>

queueForDial(w) ==
    LET k == KeyOf[w] IN
    /\ caller[w] = "queueForDial"
    /\ caller' = [caller EXCEPT ![w] = "select"]
    /\ \/ /\ MaxConnsPerHost = 0
          /\ startDialConnForLocked(w, dialer)
          /\ UNCHANGED <<connsPerHost, connsPerHostWait>>
       \/ /\ MaxConnsPerHost > 0 /\ connsPerHost[k] < MaxConnsPerHost
          /\ connsPerHost' = [connsPerHost EXCEPT ![k] = @ + 1]
          /\ startDialConnForLocked(w, dialer)
          /\ UNCHANGED connsPerHostWait
       \/ /\ MaxConnsPerHost > 0 /\ connsPerHost[k] >= MaxConnsPerHost
          /\ \E n \in CleanFront(connsPerHostWait[k], done) :
               connsPerHostWait' = [connsPerHostWait EXCEPT ![k] = CleanPush(@, n, w)]
          /\ dialer' = [dialer EXCEPT ![w] = "queued"]
          /\ UNCHANGED <<connsPerHost, dialsInProgress>>
    /\ UNCHANGED <<done, result, held, idleVars, connVars, put, panics, stopVars>>

\* Mutant: the error of the delivered result is ignored.
getConnResult_noErr(w) ==
    /\ caller[w] = "select"
    /\ result[w] # NoConn
    /\ result' = [result EXCEPT ![w] = NoConn]
    /\ caller' = [caller EXCEPT ![w] = "using"]
    /\ held' = [held EXCEPT ![w] = result[w]]
    /\ UNCHANGED <<done, dialVars, idleVars, connVars, put, panics, stopVars>>

\* The select of getConn receives from w.result; a dial error ends the call.
getConnResult(w) ==
    /\ caller[w] = "select"
    /\ result[w] # NoConn
    /\ result' = [result EXCEPT ![w] = NoConn]
    /\ \/ /\ result[w] = DialErr
          /\ caller' = [caller EXCEPT ![w] = "returned"]
          /\ UNCHANGED held
       \/ /\ result[w] # DialErr
          /\ caller' = [caller EXCEPT ![w] = "using"]
          /\ held' = [held EXCEPT ![w] = result[w]]
    /\ UNCHANGED <<done, dialVars, idleVars, connVars, put, panics, stopVars>>

\* The select takes <-treq.ctx.Done(); the deferred w.cancel takes back a
\* connection that was delivered in the meantime and returns it to the pool.
getConnCancel(w) ==
    /\ "cancel" \in Faults
    /\ caller[w] = "select"
    /\ caller' = [caller EXCEPT ![w] = "returned"]
    /\ done' = done \cup {w}
    /\ result' = [result EXCEPT ![w] = NoConn]
    /\ \/ /\ result[w] \in Reqs
          /\ held' = [held EXCEPT ![w] = result[w]]
          /\ put' = [put EXCEPT ![<<"cancel", w>>] = "check"]
       \/ /\ result[w] \notin Reqs
          /\ UNCHANGED <<held, put>>
    /\ UNCHANGED <<dialVars, idleVars, connVars, panics, stopVars>>

-----------------------------------------------------------------------------
(* dialConnFor and the goroutine around it.                                *)

\* Mutant: a dial that is no longer wanted keeps its slot.
dialConnForStart_noDec(w) ==
    /\ dialer[w] = "start"
    /\ dialer' = [dialer EXCEPT ![w] = IF w \in done THEN "exit" ELSE "dialing"]
    /\ UNCHANGED <<callVars, idleVars, connVars, put, panics, slotVars, stopVars>>

\* getCtxForDial: w.ctx is nil exactly when w is done.
dialConnForStart(w) ==
    /\ dialer[w] = "start"
    /\ dialer' = [dialer EXCEPT ![w] = IF w \in done THEN "dec" ELSE "dialing"]
    /\ UNCHANGED <<callVars, idleVars, connVars, put, panics, slotVars, stopVars>>

\* dialConn succeeds: an HTTP/1 connection starts its read loop.
dialConnOK(w) ==
    /\ dialer[w] = "dialing"
    /\ dialer' = [dialer EXCEPT ![w] = "deliver"]
    /\ conn' = [conn EXCEPT ![w] = "open"]
    /\ \/ /\ reader' = [reader EXCEPT ![w] = "reading"]
          /\ UNCHANGED alt
       \/ /\ CanH2
          /\ alt' = alt \cup {w}
          /\ UNCHANGED reader
    /\ UNCHANGED <<callVars, idleVars, reused, put, panics, slotVars, stopVars>>

\* wantConn.tryDeliver(v).
tryDeliver(w, v) ==
    IF w \in done
    THEN UNCHANGED <<done, result>>
    ELSE /\ done' = done \cup {w}
         /\ result' = [result EXCEPT ![w] = v]

dialConnFail(w) ==
    /\ "dial" \in Faults
    /\ dialer[w] = "dialing"
    /\ tryDeliver(w, DialErr)
    /\ dialer' = [dialer EXCEPT ![w] = "dec"]
    /\ UNCHANGED <<caller, held, idleVars, connVars, put, panics, slotVars,
                   stopVars>>

\* Mutant: a connection dialled for a caller that is gone is forgotten.
dialConnForDeliver_forget(w) ==
    /\ dialer[w] = "deliver"
    /\ tryDeliver(w, w)
    /\ dialer' = [dialer EXCEPT ![w] = "exit"]
    /\ put' = IF w \in alt THEN [put EXCEPT ![<<"dialConnFor", w>>] = "check"] ELSE put
    /\ UNCHANGED <<caller, held, idleVars, connVars, panics, slotVars, stopVars>>

\* The dialled connection goes to w, or to the pool when w no longer wants
\* it or when it is HTTP/2 and can be shared.
dialConnForDeliver(w) ==
    /\ dialer[w] = "deliver"
    /\ tryDeliver(w, w)
    /\ dialer' = [dialer EXCEPT ![w] = "exit"]
    /\ put' = IF w \in done \/ w \in alt
              THEN [put EXCEPT ![<<"dialConnFor", w>>] = "check"] ELSE put
    /\ UNCHANGED <<caller, held, idleVars, connVars, panics, slotVars, stopVars>>

dialConnForDec(w) ==
    /\ dialer[w] = "dec"
    /\ decConnsPerHost(KeyOf[w], [dialer EXCEPT ![w] = "exit"], done)
    /\ UNCHANGED <<callVars, idleVars, connVars, put, stopVars>>

\* w.cancelCtx = nil at the end of the goroutine.
dialConnForExit(w) ==
    /\ dialer[w] = "exit"
    /\ put[<<"dialConnFor", w>>] = "no"
    /\ dialer' = [dialer EXCEPT ![w] = "end"]
    /\ UNCHANGED <<callVars, idleVars, connVars, put, panics, slotVars, stopVars>>

-----------------------------------------------------------------------------
(* tryPutIdleConn and putOrCloseIdleConn, for any of the three agents.     *)

\* The checks made before idleMu is taken: keep-alives, isBroken, markReused.
tryPutIdleConnCheck(a) ==
    LET c == PutConn(a)
        refused == DisableKeepAlives \/ MaxIdleConnsPerHost < 0 \/ conn[c] = "closed"
    IN  /\ put[a] = "check"
        /\ put' = [put EXCEPT ![a] = IF refused THEN "close" ELSE "lock"]
        /\ reused' = IF refused THEN reused ELSE reused \cup {c}
        /\ UNCHANGED <<callVars, dialVars, idleVars, conn, alt, reader, panics,
                       stopVars>>

EndPut(a) ==
    /\ put' = [put EXCEPT ![a] = "no"]
    /\ held' = IF a[1] = "cancel" THEN [held EXCEPT ![a[2]] = NoConn] ELSE held

\* Mutant: the evicted connection stays on the idle list of its host.
Park_keepOldest(c, k, d) ==
    LET lru == <<c>> \o idleLRU IN
    /\ idleConn' = [idleConn EXCEPT ![k] = Append(@, c)]
    /\ IF MaxIdleConns # 0 /\ Len(lru) > MaxIdleConns
       THEN /\ idleLRU' = SubSeq(lru, 1, Len(lru) - 1)
            /\ closeLocked(lru[Len(lru)], d)
       ELSE /\ idleLRU' = lru
            /\ UNCHANGED <<conn, dialVars, panics>>

\* Mutant: the evicted connection is removed and not closed.
Park_noClose(c, k, d) ==
    LET lru == <<c>> \o idleLRU
        list == [idleConn EXCEPT ![k] = Append(@, c)]
        oldest == lru[Len(lru)]
        over == MaxIdleConns # 0 /\ Len(lru) > MaxIdleConns
    IN  /\ idleLRU' = IF over THEN SubSeq(lru, 1, Len(lru) - 1) ELSE lru
        /\ idleConn' = IF over THEN [list EXCEPT ![KeyOf[oldest]] = Without(@, oldest)] ELSE list
        /\ UNCHANGED <<conn, dialVars, panics>>

\* removeOldest, close and removeIdleConnLocked of the connection at the end
\* of lru, when the pool is over MaxIdleConns.  d is done after this step.
Park(c, k, d) ==
    LET lru == <<c>> \o idleLRU
        list == [idleConn EXCEPT ![k] = Append(@, c)]
        oldest == lru[Len(lru)]
    IN  IF MaxIdleConns # 0 /\ Len(lru) > MaxIdleConns
        THEN /\ idleLRU' = SubSeq(lru, 1, Len(lru) - 1)
             /\ idleConn' = [list EXCEPT ![KeyOf[oldest]] = Without(@, oldest)]
             /\ closeLocked(oldest, d)
        ELSE /\ idleLRU' = lru
             /\ idleConn' = list
             /\ UNCHANGED <<conn, dialVars, panics>>

\* Put c on the idle list, or refuse it.
PutIdle(a, c, d) ==
    LET k == KeyOf[c]
        refused == closeIdle \/ Len(idleConn[k]) >= maxIdleConnsPerHost
        broken == (IF c \in Range(idleConn[k]) THEN {"dup idle pconn"} ELSE {})
                  \cup (IF c \in Range(idleLRU) THEN {"already in LRU"} ELSE {})
    IN  IF refused
        THEN /\ put' = [put EXCEPT ![a] = "close"]
             /\ UNCHANGED <<held, idleConn, idleLRU, conn, dialVars, panics>>
        ELSE /\ EndPut(a)
             /\ IF broken # {}
                THEN /\ panics' = panics \cup broken
                     /\ UNCHANGED <<idleConn, idleLRU, conn, dialVars>>
                ELSE Park(c, k, d)

\* Mutant: only the front of the waiting queue is tried.
tryPutIdleConn_frontOnly(a) ==
    LET c == PutConn(a)
        k == KeyOf[c]
        q == idleConnWait[k]
    IN  /\ put[a] = "lock"
        /\ c \in alt => c \notin Range(idleLRU)
        /\ \/ /\ q # <<>> /\ Head(q) \notin done
              /\ tryDeliver(Head(q), c)
              /\ EndPut(a)
              /\ UNCHANGED <<idleConn, idleLRU, conn, dialVars, panics>>
           \/ /\ q = <<>> \/ Head(q) \in done
              /\ PutIdle(a, c, done)
              /\ UNCHANGED <<done, result>>
        /\ idleConnWait' = [idleConnWait EXCEPT ![k] = IF q = <<>> THEN q ELSE Tail(q)]
        /\ UNCHANGED <<caller, closeIdle, alt, reused, reader, stopVars>>

\* The part of tryPutIdleConn that runs under idleMu.
tryPutIdleConn(a) ==
    LET c == PutConn(a)
        k == KeyOf[c]
        q == idleConnWait[k]
    IN  /\ put[a] = "lock"
        /\ \/ /\ c \in alt /\ c \in Range(idleLRU)
              /\ EndPut(a)
              /\ UNCHANGED <<done, result, idleConn, idleLRU, idleConnWait, conn,
                             dialVars, panics>>
           \/ /\ c \notin alt
              /\ \E i \in DOMAIN q :
                   /\ FirstWaiting(q, done, i)
                   /\ tryDeliver(q[i], c)
                   /\ idleConnWait' = [idleConnWait EXCEPT ![k] = SubSeq(q, i + 1, Len(q))]
              /\ EndPut(a)
              /\ UNCHANGED <<idleConn, idleLRU, conn, dialVars, panics>>
           \/ /\ c \notin alt /\ Range(q) \subseteq done
              /\ idleConnWait' = [idleConnWait EXCEPT ![k] = <<>>]
              /\ PutIdle(a, c, done)
              /\ UNCHANGED <<done, result>>
           \/ /\ c \in alt /\ c \notin Range(idleLRU)
              /\ done' = done \cup Range(q)
              /\ result' = [w \in Reqs |-> IF w \in Range(q) \ done THEN c ELSE result[w]]
              /\ idleConnWait' = [idleConnWait EXCEPT ![k] = <<>>]
              /\ PutIdle(a, c, done \cup Range(q))
        /\ UNCHANGED <<caller, closeIdle, alt, reused, reader, stopVars>>

\* putOrCloseIdleConn closes what was refused; readLoop does it on exit.
putOrCloseIdleConn(a) ==
    /\ put[a] = "close"
    /\ EndPut(a)
    /\ closeLocked(PutConn(a), done)
    /\ UNCHANGED <<caller, done, result, idleVars, alt, reused, reader, stopVars>>

-----------------------------------------------------------------------------
(* Use of a connection, its failure, and the exit of its read loop.        *)

\* The response was read to its end: readLoop hands the connection back.
readLoopDone(w) ==
    LET c == held[w] IN
    /\ caller[w] = "using"
    /\ c \notin alt
    /\ reader[c] = "reading"
    /\ put[<<"readLoop", c>>] = "no"
    /\ caller' = [caller EXCEPT ![w] = "returned"]
    /\ held' = [held EXCEPT ![w] = NoConn]
    /\ put' = [put EXCEPT ![<<"readLoop", c>>] = "check"]
    /\ UNCHANGED <<done, result, dialVars, idleVars, connVars, panics, stopVars>>

\* The request ends without readLoop handing the connection back: its
\* connection died, or it is HTTP/2, which is shared and never handed back.
roundTripEnd(w) ==
    /\ caller[w] = "using"
    /\ held[w] \in alt \/ conn[held[w]] = "closed"
    /\ caller' = [caller EXCEPT ![w] = "returned"]
    /\ held' = [held EXCEPT ![w] = NoConn]
    /\ UNCHANGED <<done, result, dialVars, idleVars, connVars, put, panics,
                   stopVars>>

\* Any goroutine of an HTTP/1 connection closes it: peer gone, write error,
\* canceled or timed-out request, unsolicited response.
persistConnClose(c) ==
    /\ "peer" \in Faults
    /\ reader[c] = "reading"
    /\ conn[c] = "open"
    /\ closeLocked(c, done)
    /\ UNCHANGED <<callVars, idleVars, alt, reused, reader, put, stopVars>>

RemoveIdleConn(c) ==
    /\ idleLRU' = Without(idleLRU, c)
    /\ idleConn' = [idleConn EXCEPT ![KeyOf[c]] = Without(@, c)]

\* readLoop returns: its deferred removeIdleConn runs after pc.close.
readLoopExit(c) ==
    /\ reader[c] = "reading"
    /\ conn[c] = "closed"
    /\ put[<<"readLoop", c>>] = "no"
    /\ reader' = [reader EXCEPT ![c] = "dead"]
    /\ RemoveIdleConn(c)
    /\ UNCHANGED <<callVars, dialVars, idleConnWait, closeIdle, conn, alt,
                   reused, put, panics, stopVars>>

-----------------------------------------------------------------------------
(* Idle timeout and CloseIdleConnections.                                  *)

\* The idle timer of an HTTP/1 connection expires.
idleTimer(c) ==
    /\ IdleConnTimeout
    /\ c \in Range(idleLRU) \ alt
    /\ c \notin expiring
    /\ expiring' = expiring \cup {c}
    /\ UNCHANGED <<callVars, dialVars, idleVars, connVars, dialCanceled, put,
                   closer, doomed, panics, closeCalls>>

\* Mutant: the idle timer closes the connection without looking at the LRU.
closeConnIfStillIdle_always(c) ==
    /\ c \in expiring
    /\ expiring' = expiring \ {c}
    /\ RemoveIdleConn(c)
    /\ closeLocked(c, done)
    /\ UNCHANGED <<callVars, idleConnWait, closeIdle, alt, reused, reader, put, closer,
                   doomed, closeCalls, dialCanceled>>

closeConnIfStillIdle(c) ==
    /\ c \in expiring
    /\ expiring' = expiring \ {c}
    /\ \/ /\ c \notin Range(idleLRU)
          /\ UNCHANGED <<idleConn, idleLRU, conn, dialVars, panics>>
       \/ /\ c \in Range(idleLRU)
          /\ RemoveIdleConn(c)
          /\ closeLocked(c, done)
    /\ UNCHANGED <<callVars, idleConnWait, closeIdle, alt, reused, reader,
                   dialCanceled, put, closer, doomed, closeCalls>>

\* CloseIdleConnections, first part, under idleMu.
CloseIdleConnections ==
    /\ closer = "no" /\ closeCalls > 0
    /\ closeCalls' = closeCalls - 1
    /\ closer' = "closing"
    /\ doomed' = UNION {Range(idleConn[k]) : k \in Keys}
    /\ idleConn' = [k \in Keys |-> <<>>]
    /\ idleLRU' = <<>>
    /\ closeIdle' = TRUE
    /\ UNCHANGED <<callVars, dialVars, idleConnWait, connVars, dialCanceled, put,
                   expiring, panics>>

closeIdleClose(c) ==
    /\ c \in doomed
    /\ doomed' = doomed \ {c}
    /\ closeLocked(c, done)
    /\ UNCHANGED <<callVars, idleVars, alt, reused, reader, dialCanceled, put,
                   expiring, closer, closeCalls>>

\* Last part: cancel the dials in progress that nobody waits for.
closeIdleDials ==
    /\ closer = "closing" /\ doomed = {}
    /\ closer' = "no"
    /\ dialCanceled' = dialCanceled \cup
         {w \in Range(dialsInProgress) : dialer[w] # "end" /\ w \in done}
    /\ UNCHANGED <<callVars, dialVars, idleVars, connVars, put, expiring, doomed,
                   panics, closeCalls>>

-----------------------------------------------------------------------------
Init ==
    /\ caller = [w \in Reqs |-> "start"]
    /\ done = {}
    /\ result = [w \in Reqs |-> NoConn]
    /\ held = [w \in Reqs |-> NoConn]
    /\ dialer = [w \in Reqs |-> "none"]
    /\ dialCanceled = {}
    /\ conn = [w \in Reqs |-> "none"]
    /\ alt = {}
    /\ reused = {}
    /\ reader = [w \in Reqs |-> "none"]
    /\ put = [a \in Agents |-> "no"]
    /\ idleConn = [k \in Keys |-> <<>>]
    /\ idleLRU = <<>>
    /\ idleConnWait = [k \in Keys |-> <<>>]
    /\ closeIdle = FALSE
    /\ connsPerHost = [k \in Keys |-> 0]
    /\ connsPerHostWait = [k \in Keys |-> <<>>]
    /\ dialsInProgress = <<>>
    /\ expiring = {}
    /\ closer = "no"
    /\ doomed = {}
    /\ closeCalls = CloseIdleCalls
    /\ panics = {}

getConn(w) ==
    queueForIdleConn(w) \/ queueForDial(w) \/ getConnResult(w) \/ getConnCancel(w)

dialConnFor(w) ==
    \/ dialConnForStart(w) \/ dialConnOK(w) \/ dialConnFail(w)
    \/ dialConnForDeliver(w) \/ dialConnForDec(w) \/ dialConnForExit(w)

PutBack(a) ==
    tryPutIdleConnCheck(a) \/ tryPutIdleConn(a) \/ putOrCloseIdleConn(a)

UseConn(w) == readLoopDone(w) \/ roundTripEnd(w)

CloseConn(c) ==
    \/ persistConnClose(c) \/ readLoopExit(c)
    \/ idleTimer(c) \/ closeConnIfStillIdle(c) \/ closeIdleClose(c)

Next ==
    \/ \E w \in Reqs : getConn(w) \/ dialConnFor(w) \/ UseConn(w) \/ CloseConn(w)
    \/ \E a \in Agents : PutBack(a)
    \/ CloseIdleConnections
    \/ closeIdleDials

Spec == Init /\ [][Next]_vars

\* Goroutines run to completion, dials end, and a request that got a
\* connection ends; nothing forces a cancellation, a timer or a peer close.
Fairness ==
    /\ \A w \in Reqs :
         /\ WF_vars(queueForDial(w)) /\ WF_vars(getConnResult(w))
         /\ WF_vars(dialConnFor(w)) /\ WF_vars(UseConn(w))
         /\ WF_vars(readLoopExit(w)) /\ WF_vars(closeConnIfStillIdle(w))
         /\ WF_vars(closeIdleClose(w))
    /\ \A a \in Agents : WF_vars(PutBack(a))

FairSpec == Spec /\ Fairness

-----------------------------------------------------------------------------
(* Properties.                                                             *)

DialStates == {"none", "queued", "start", "dialing", "deliver", "dec", "exit", "end"}

\* Type invariant of the pool's state.
TypeOK ==
    /\ caller \in [Reqs -> {"start", "queueForDial", "select", "using", "returned"}]
    /\ done \subseteq Reqs
    /\ result \in [Reqs -> Reqs \cup {NoConn, DialErr}]
    /\ held \in [Reqs -> Reqs \cup {NoConn}]
    /\ dialer \in [Reqs -> DialStates]
    /\ dialCanceled \subseteq Reqs
    /\ conn \in [Reqs -> {"none", "open", "closed"}]
    /\ alt \subseteq Reqs /\ reused \subseteq Reqs
    /\ reader \in [Reqs -> {"none", "reading", "dead"}]
    /\ put \in [Agents -> {"no", "check", "lock", "close"}]
    /\ idleConn \in [Keys -> Seq(Reqs)]
    /\ idleLRU \in Seq(Reqs)
    /\ idleConnWait \in [Keys -> Seq(Reqs)]
    /\ closeIdle \in BOOLEAN
    /\ connsPerHost \in [Keys -> Nat]
    /\ connsPerHostWait \in [Keys -> Seq(Reqs)]
    /\ dialsInProgress \in Seq(Reqs)
    /\ expiring \subseteq Reqs /\ doomed \subseteq Reqs
    /\ closer \in {"no", "closing"} /\ closeCalls \in Nat
    /\ panics \subseteq {"connCount underflow", "dup idle pconn", "already in LRU"}

\* A wantConn that has permission to dial, or whose connection is open.
HoldsSlot(w) == dialer[w] \in {"start", "dialing", "dec"} \/ conn[w] = "open"

Slots(k) == {w \in Reqs : KeyOf[w] = k /\ HoldsSlot(w)}

\* connsPerHost counts exactly the dials in progress and the open
\* connections of a host, and they never exceed MaxConnsPerHost (the promise
\* of SetMaxConnsPerHost, as far as the connections of this pool go).
SlotAccounting ==
    MaxConnsPerHost > 0 =>
        \A k \in Keys : /\ connsPerHost[k] = Cardinality(Slots(k))
                        /\ connsPerHost[k] <= MaxConnsPerHost

\* The internal-error panics and log.Fatalf of the pool (count underflow,
\* duplicate idle connection, duplicate LRU entry) are never reached.
NoPanic == panics = {}

\* Everyone who may hand out, use, keep or close connection c.
Owners(c) ==
    {<<"dial", w>> : w \in {x \in {c} : dialer[x] = "deliver"}}
    \cup {<<"result", w>> : w \in {x \in Reqs : result[x] = c}}
    \cup {<<"using", w>> : w \in {x \in Reqs : caller[x] = "using" /\ held[x] = c}}
    \cup {<<"put", a>> : a \in {x \in Agents : put[x] # "no" /\ PutConn(x) = c}}
    \cup {<<"idle", x>> : x \in {c} \cap Range(idleLRU)}
    \cup {<<"doomed", x>> : x \in {c} \cap doomed}

\* An HTTP/1 connection is never in two hands: two requests never share it,
\* and it is never used while it is idle, being returned or being closed.
ExclusiveOwner ==
    \A c \in Reqs \ alt : Cardinality(Owners(c)) <= 1

\* An open HTTP/1 connection is always in somebody's hands, so it is reused
\* or closed: the races of delivery, cancellation and return leak none.
NoOrphan ==
    \A c \in Reqs \ alt : conn[c] = "open" => Owners(c) # {}

\* While some caller waits for an idle connection of a host, none is kept on
\* the idle list: tryPutIdleConn prefers a waiter, queueForIdleConn the list.
NoIdleWhileWanted ==
    \A k \in Keys : (\E w \in Range(idleConnWait[k]) : w \notin done)
                    => idleConn[k] = <<>>

\* A caller still waiting for permission to dial is queued, and the host is
\* really at its limit: no freed slot is lost (decConnsPerHost hand-over).
NoStrandedWaiter ==
    \A w \in Reqs : dialer[w] = "queued" /\ w \notin done =>
        /\ w \in Range(connsPerHostWait[KeyOf[w]])
        /\ connsPerHost[KeyOf[w]] = MaxConnsPerHost

\* What is on an idle list is on the LRU list, once, where the eviction and
\* the idle timeout find it; both lists respect their limits.
IdleIndexed ==
    /\ MaxIdleConns > 0 => Len(idleLRU) <= MaxIdleConns
    /\ \A k \in Keys :
         /\ Range(idleConn[k]) \subseteq Range(idleLRU)
         /\ Cardinality(Range(idleConn[k])) = Len(idleConn[k])
         /\ idleConn[k] # <<>> => Len(idleConn[k]) <= maxIdleConnsPerHost

\* The idle lists survive eviction, removal and reuse in any order: no internal
\* panic, the lists agree, and no connection is left open without an owner,
\* unless both the idle timeout and CloseIdleConnections are in use.
EvictionSafe ==
    /\ NoPanic
    /\ IdleIndexed
    /\ ~IdleConnTimeout \/ CloseIdleCalls = 0 => NoOrphan

\* Every running dial is on dialsInProgress, where CloseIdleConnections finds
\* it, although startDialConnForLocked keeps cleaning that queue.
DialsTracked ==
    \A w \in Reqs : dialer[w] \in {"start", "dialing", "deliver", "dec", "exit"}
                    => w \in Range(dialsInProgress)

\* The idle timeout never closes an HTTP/1 connection that a request has or
\* is about to receive, even if the timer fired before the hand-over.
IdleTimeoutSparesUsed ==
    [][\A c \in expiring \ expiring' :
          c \notin alt /\ conn[c] = "open" /\ conn'[c] = "closed" =>
              \A w \in Reqs : /\ result[w] # c
                              /\ ~(caller[w] = "using" /\ held[w] = c)]_vars

\* Nobody waits in getConn and, without keep-alives, every connection is
\* closed again, whoever ended up with it: the caller, a caller that gave up,
\* or the dial goroutine.  This must hold in the end, without relying on
\* cancellation: no caller waits and no connection opens a second time.
AllServed ==
    \A w \in Reqs : /\ caller[w] # "select"
                    /\ DisableKeepAlives => conn[w] # "open"
=============================================================================
