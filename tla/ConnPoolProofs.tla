--------------------------- MODULE ConnPoolProofs ---------------------------
(***************************************************************************)
(* Proofs about the connection pool, for any number of calls, hosts and    *)
(* limits: type correctness, the exact accounting of MaxConnsPerHost, and  *)
(* the hand-over of freed slots to waiting callers.                        *)
(***************************************************************************)
EXTENDS ConnPool, SequenceTheorems, FiniteSetTheorems, TLAPS

-----------------------------------------------------------------------------
(* Queues and lists.                                                       *)

\* What is left of a queue after i entries were popped from its front.
LEMMA SuffixFacts ==
  ASSUME NEW q \in Seq(Reqs), NEW i \in 0 .. Len(q)
  PROVE  LET p == SubSeq(q, i + 1, Len(q)) IN
         /\ p \in Seq(Reqs) /\ Len(p) = Len(q) - i
         /\ \A j \in 1 .. Len(q) - i : p[j] = q[i + j]
<1>. DEFINE p == SubSeq(q, i + 1, Len(q))
<1>1. i + 1 \in Int /\ Len(q) \in Int /\ \A j \in i + 1 .. Len(q) : q[j] \in Reqs
  OBVIOUS
<1>2. /\ p \in Seq(Reqs)
      /\ Len(p) = IF i + 1 <= Len(q) THEN Len(q) - (i + 1) + 1 ELSE 0
      /\ \A j \in 1 .. Len(q) - (i + 1) + 1 : p[j] = q[i + 1 + j - 1]
  BY <1>1, SubSeqProperties
<1>. HIDE DEF p
<1>3. Len(p) = Len(q) - i
  BY <1>1, <1>2
<1>4. \A j \in 1 .. Len(q) - i : p[j] = q[i + j]
  <2>. TAKE j \in 1 .. Len(q) - i
  <2>1. j \in 1 .. Len(q) - (i + 1) + 1 /\ i + 1 + j - 1 = i + j
    BY <1>1
  <2>. QED  BY <1>2, <2>1
<1>. QED  BY <1>2, <1>3, <1>4 DEF p

\* p is q without its first n entries, all of them in d, and with w at the end.
IsCleanPush(p, q, n, w, d) ==
    /\ p \in Seq(Reqs)
    /\ Len(p) = Len(q) - n + 1
    /\ \A i \in 1 .. Len(q) - n : p[i] = q[n + i]
    /\ p[Len(q) - n + 1] = w
    /\ n \in 0 .. Len(q)
    /\ \A j \in 1 .. n : q[j] \in d

\* What a cleanFront loop and a pushBack do to a queue (wantConnQueue).
LEMMA CleanPushFacts ==
  ASSUME NEW q \in Seq(Reqs), NEW d, NEW w \in Reqs, NEW n \in CleanFront(q, d)
  PROVE  IsCleanPush(CleanPush(q, n, w), q, n, w, d)
<1>. DEFINE s == SubSeq(q, n + 1, Len(q))
<1>1. n \in 0 .. Len(q) /\ \A j \in 1 .. n : q[j] \in d
  BY DEF CleanFront
<1>2. /\ s \in Seq(Reqs) /\ Len(s) = Len(q) - n
      /\ \A i \in 1 .. Len(q) - n : s[i] = q[n + i]
  BY <1>1, SuffixFacts
<1>3. CleanPush(q, n, w) = Append(s, w)
  BY DEF CleanPush
<1>. HIDE DEF s
<1>4. /\ Append(s, w) \in Seq(Reqs) /\ Len(Append(s, w)) = Len(q) - n + 1
      /\ \A i \in 1 .. Len(q) - n : Append(s, w)[i] = q[n + i]
      /\ Append(s, w)[Len(q) - n + 1] = w
  BY <1>1, <1>2
<1>. QED  BY <1>1, <1>3, <1>4 DEF IsCleanPush

\* Removing a connection from a list keeps it a list of connections.
LEMMA WithoutType ==
  ASSUME NEW q \in Seq(Reqs), NEW c
  PROVE  Without(q, c) \in Seq(Reqs)
<1>1. CASE c \notin Range(q)
  BY <1>1 DEF Without
<1>2. CASE c \in Range(q)
  <2>. DEFINE n == CHOOSE i \in DOMAIN q : q[i] = c /\ \A j \in 1 .. i - 1 : q[j] # c
              f == [j \in 1 .. Len(q) - 1 |-> IF j < n THEN q[j] ELSE q[j + 1]]
  <2>1. Without(q, c) = f
    BY <1>2 DEF Without
  <2>2. Len(q) \in Nat /\ Len(q) - 1 \in Nat
    BY <1>2 DEF Range
  <2>3. \A j \in 1 .. Len(q) - 1 : q[j] \in Reqs /\ q[j + 1] \in Reqs
    BY <2>2
  <2>. HIDE DEF n
  <2>4. \A j \in 1 .. Len(q) - 1 : (IF j < n THEN q[j] ELSE q[j + 1]) \in Reqs
    BY <2>3
  <2>. QED  BY <2>1, <2>2, <2>4, IsASeq
<1>. QED  BY <1>1, <1>2

-----------------------------------------------------------------------------
(* Type correctness.                                                       *)

\* The connection a caller uses, or hands back after its cancellation, exists.
HeldTyped ==
    \A w \in Reqs :
        /\ caller[w] = "using" => held[w] \in Reqs
        /\ put[<<"cancel", w>>] # "no" => held[w] \in Reqs /\ caller[w] = "returned"

TypeInv == TypeOK /\ HeldTyped

\* The variables that freeing a slot may change.
DialTyped ==
    /\ dialer \in [Reqs -> DialStates]
    /\ connsPerHost \in [Keys -> Nat]
    /\ connsPerHostWait \in [Keys -> Seq(Reqs)]
    /\ dialsInProgress \in Seq(Reqs)
    /\ panics \subseteq {"connCount underflow", "dup idle pconn", "already in LRU"}

\* Starting a dial (startDialConnForLocked) keeps the dialer table and the
\* list of dials in progress well typed.
LEMMA StartDialType ==
  ASSUME DialTyped, NEW w \in Reqs, NEW dl \in [Reqs -> DialStates],
         startDialConnForLocked(w, dl)
  PROVE  dialer' \in [Reqs -> DialStates] /\ dialsInProgress' \in Seq(Reqs)
<1>1. PICK n \in CleanFront(dialsInProgress, {x \in Reqs : dl[x] = "end"}) :
         dialsInProgress' = CleanPush(dialsInProgress, n, w)
  BY DEF startDialConnForLocked
<1>2. dialsInProgress' \in Seq(Reqs)
  BY <1>1, CleanPushFacts DEF DialTyped, IsCleanPush
<1>3. dialer' \in [Reqs -> DialStates]
  BY DEF startDialConnForLocked, DialStates
<1>. QED  BY <1>2, <1>3

\* Giving back a slot (decConnsPerHost) keeps the types of all it touches.
LEMMA DecType ==
  ASSUME DialTyped, NEW k \in Keys, NEW dl \in [Reqs -> DialStates], NEW d,
         decConnsPerHost(k, dl, d)
  PROVE  DialTyped'
<1>. DEFINE q == connsPerHostWait[k]
<1>0. q \in Seq(Reqs)
  BY DEF DialTyped
<1>1. CASE MaxConnsPerHost = 0 \/ (MaxConnsPerHost > 0 /\ connsPerHost[k] = 0)
  BY <1>1 DEF decConnsPerHost, slotVars, DialTyped
<1>2. CASE /\ ~(MaxConnsPerHost = 0 \/ (MaxConnsPerHost > 0 /\ connsPerHost[k] = 0))
           /\ \E i \in DOMAIN q :
                 /\ startDialConnForLocked(q[i], dl)
                 /\ connsPerHostWait' = [connsPerHostWait EXCEPT
                                           ![k] = SubSeq(q, i + 1, Len(q))]
           /\ UNCHANGED <<connsPerHost, panics>>
  <2>1. PICK i \in DOMAIN q : /\ startDialConnForLocked(q[i], dl)
                              /\ connsPerHostWait' = [connsPerHostWait EXCEPT
                                                       ![k] = SubSeq(q, i + 1, Len(q))]
    BY <1>2
  <2>2. q[i] \in Reqs /\ i \in Int /\ Len(q) \in Int
    BY <1>0
  <2>3. \A j \in i + 1 .. Len(q) : q[j] \in Reqs
    BY <1>0
  <2>4. SubSeq(q, i + 1, Len(q)) \in Seq(Reqs)
    BY <2>2, <2>3, SubSeqProperties
  <2>5. dialer' \in [Reqs -> DialStates] /\ dialsInProgress' \in Seq(Reqs)
    BY <2>1, <2>2, StartDialType
  <2>. QED  BY <1>2, <2>1, <2>4, <2>5 DEF DialTyped
<1>3. CASE /\ ~(MaxConnsPerHost = 0 \/ (MaxConnsPerHost > 0 /\ connsPerHost[k] = 0))
           /\ connsPerHost' = [connsPerHost EXCEPT ![k] = @ - 1]
           /\ connsPerHostWait' = [connsPerHostWait EXCEPT ![k] = <<>>]
           /\ dialer' = dl
           /\ UNCHANGED <<dialsInProgress, panics>>
  <2>0. MaxConnsPerHost \in Nat /\ connsPerHost[k] \in Nat
    BY PoolAssumption DEF DialTyped
  <2>1. connsPerHost[k] \in Nat /\ connsPerHost[k] # 0
    BY <1>3, <2>0
  <2>2. connsPerHost[k] - 1 \in Nat /\ <<>> \in Seq(Reqs)
    BY <2>1
  <2>. QED  BY <1>3, <2>2 DEF DialTyped
<1>. QED  BY <1>1, <1>2, <1>3 DEF decConnsPerHost

\* Closing a connection (persistConn.closeLocked) keeps the types.
LEMMA CloseType ==
  ASSUME TypeOK, NEW c \in Reqs, NEW d, closeLocked(c, d)
  PROVE  DialTyped' /\ conn' \in [Reqs -> {"none", "open", "closed"}]
<1>1. DialTyped /\ KeyOf[c] \in Keys
  BY PoolAssumption DEF TypeOK, DialTyped
<1>2. CASE conn[c] = "open"
  <2>1. DialTyped'
    BY <1>1, <1>2, DecType DEF closeLocked, DialTyped
  <2>. QED  BY <1>2, <2>1 DEF closeLocked, TypeOK
<1>3. CASE conn[c] # "open"
  BY <1>1, <1>3 DEF closeLocked, dialVars, slotVars, DialTyped, TypeOK
<1>. QED  BY <1>2, <1>3

\* Every action of the pool keeps TypeInv.
LEMMA TypeInvStep == TypeInv /\ [Next]_vars => TypeInv'
<1>. SUFFICES ASSUME TypeInv, [Next]_vars PROVE TypeInv'
  OBVIOUS
<1>. USE DEF TypeInv
<1>. CASE UNCHANGED vars
  BY DEF vars, callVars, dialVars, slotVars, idleVars, connVars, stopVars, TypeOK,
         HeldTyped

<1>1. ASSUME NEW w \in Reqs, getConnResult(w) PROVE TypeInv'
  <2>1. CASE result[w] = DialErr
    BY ZenonT(60), <1>1, <2>1 DEF getConnResult, callVars, dialVars, slotVars, idleVars, connVars,
           stopVars, TypeOK, HeldTyped
  <2>2. CASE result[w] # DialErr
    <3>0. result[w] \in Reqs \cup {NoConn, DialErr} /\ result[w] # NoConn
      BY <1>1 DEF getConnResult, TypeOK
    <3>1. result[w] \in Reqs
      BY <2>2, <3>0
    <3>2. caller' = [caller EXCEPT ![w] = "using"] /\ held' = [held EXCEPT ![w] = result[w]]
      BY <1>1, <2>2 DEF getConnResult
    <3>3. HeldTyped'
      BY <1>1, <3>1, <3>2 DEF getConnResult, TypeOK, HeldTyped
    <3>4. held' \in [Reqs -> Reqs \cup {NoConn}]
      BY <3>1, <3>2 DEF TypeOK
    <3>. QED  BY <1>1, <3>2, <3>3, <3>4 DEF getConnResult, dialVars, slotVars,
                idleVars, connVars, stopVars, TypeOK
  <2>. QED  BY <2>1, <2>2
<1>2. ASSUME NEW w \in Reqs, getConnCancel(w) PROVE TypeInv'
  <2>0. <<"cancel", w>> \in Agents
    BY DEF Agents
  <2>1. CASE result[w] \in Reqs /\ held' = [held EXCEPT ![w] = result[w]]
                /\ put' = [put EXCEPT ![<<"cancel", w>>] = "check"]
    <3>1. TypeOK'
      BY <1>2, <2>0, <2>1 DEF getConnCancel, callVars, dialVars, slotVars, idleVars,
             connVars, stopVars, TypeOK
    <3>2. HeldTyped'
      <4>1. \A x \in Reqs : x # w => put'[<<"cancel", x>>] = put[<<"cancel", x>>]
        BY <2>0, <2>1 DEF TypeOK, Agents
      <4>. QED  BY ZenonT(60), <1>2, <2>1, <4>1 DEF getConnCancel, TypeOK, HeldTyped
    <3>. QED  BY <3>1, <3>2
  <2>2. CASE UNCHANGED <<held, put>>
    BY <1>2, <2>2 DEF getConnCancel, callVars, dialVars, slotVars, idleVars,
             connVars, stopVars, TypeOK, HeldTyped
  <2>. QED  BY <1>2, <2>1, <2>2 DEF getConnCancel
<1>3. ASSUME NEW w \in Reqs, dialConnForStart(w) PROVE TypeInv'
  BY <1>3 DEF dialConnForStart, callVars, dialVars, slotVars, idleVars, connVars, stopVars,
         TypeOK, HeldTyped, DialStates, Agents

<1>4. ASSUME NEW w \in Reqs, dialConnOK(w) PROVE TypeInv'
  BY <1>4 DEF dialConnOK, callVars, dialVars, slotVars, idleVars, connVars, stopVars,
         TypeOK, HeldTyped, DialStates, Agents

<1>5. ASSUME NEW w \in Reqs, dialConnFail(w) PROVE TypeInv'
  <2>1. done' \subseteq Reqs /\ result' \in [Reqs -> Reqs \cup {NoConn, DialErr}]
    <3>1. CASE w \in done
      BY <1>5, <3>1 DEF dialConnFail, tryDeliver, TypeOK
    <3>2. CASE w \notin done
      <4>1. done' = done \cup {w} /\ result' = [result EXCEPT ![w] = DialErr]
        BY <1>5, <3>2 DEF dialConnFail, tryDeliver
      <4>. QED  BY <4>1 DEF TypeOK
    <3>. QED  BY <3>1, <3>2
  <2>. QED  BY <1>5, <2>1 DEF dialConnFail, dialVars, slotVars, idleVars, connVars,
              stopVars, TypeOK, HeldTyped, DialStates
<1>6. ASSUME NEW w \in Reqs, dialConnForDeliver(w) PROVE TypeInv'
  <2>1. done' \subseteq Reqs /\ result' \in [Reqs -> Reqs \cup {NoConn, DialErr}]
    <3>1. CASE w \in done
      BY <1>6, <3>1 DEF dialConnForDeliver, tryDeliver, TypeOK
    <3>2. CASE w \notin done
      <4>1. done' = done \cup {w} /\ result' = [result EXCEPT ![w] = w]
        BY <1>6, <3>2 DEF dialConnForDeliver, tryDeliver
      <4>. QED  BY <4>1 DEF TypeOK
    <3>. QED  BY <3>1, <3>2
  <2>2. put' \in [Agents -> {"no", "check", "lock", "close"}]
    BY <1>6 DEF dialConnForDeliver, TypeOK
  <2>3. TypeOK'
    BY <1>6, <2>1, <2>2 DEF dialConnForDeliver, slotVars, idleVars, connVars,
              stopVars, TypeOK, DialStates
  <2>4. HeldTyped'
    BY <1>6 DEF dialConnForDeliver, TypeOK, HeldTyped, Agents
  <2>. QED  BY <2>3, <2>4
<1>7. ASSUME NEW w \in Reqs, dialConnForExit(w) PROVE TypeInv'
  BY <1>7 DEF dialConnForExit, callVars, dialVars, slotVars, idleVars, connVars, stopVars,
         TypeOK, HeldTyped, DialStates, Agents

<1>8. ASSUME NEW w \in Reqs, readLoopDone(w) PROVE TypeInv'
  BY ZenonT(60), <1>8 DEF readLoopDone, callVars, dialVars, slotVars, idleVars, connVars, stopVars,
         TypeOK, HeldTyped, DialStates, Agents

<1>9. ASSUME NEW w \in Reqs, roundTripEnd(w) PROVE TypeInv'
  BY ZenonT(60), <1>9 DEF roundTripEnd, callVars, dialVars, slotVars, idleVars, connVars, stopVars,
         TypeOK, HeldTyped, DialStates, Agents

<1>10. ASSUME NEW w \in Reqs, idleTimer(w) PROVE TypeInv'
  BY <1>10 DEF idleTimer, callVars, dialVars, slotVars, idleVars, connVars, stopVars,
         TypeOK, HeldTyped, DialStates, Agents

<1>11. ASSUME NEW w \in Reqs, queueForIdleConn(w) PROVE TypeInv'
  <2>. DEFINE k == KeyOf[w]
              list == idleConn[KeyOf[w]]
  <2>0. k \in Keys /\ list \in Seq(Reqs) /\ idleConnWait[k] \in Seq(Reqs)
    BY PoolAssumption DEF TypeOK
  <2>1. CASE DisableKeepAlives
    BY ZenonT(60), <1>11, <2>1 DEF queueForIdleConn, dialVars, slotVars, idleVars, connVars,
           TypeOK, HeldTyped
  <2>2. ASSUME NEW m \in DOMAIN list, TakeIdle(w, list, m), closeIdle' = FALSE
        PROVE  TypeInv'
    <3>0. list[m] \in Reqs /\ m \in Int
      BY <2>0
    <3>1. \A n \in {m, m - 1} : SubSeq(list, 1, n) \in Seq(Reqs)
      <4>. SUFFICES ASSUME NEW n \in {m, m - 1} PROVE SubSeq(list, 1, n) \in Seq(Reqs)
        OBVIOUS
      <4>1. n \in Int /\ \A i \in 1 .. n : list[i] \in Reqs
        BY <2>0
      <4>. QED  BY <4>1, SubSeqProperties
    <3>2. idleConn' \in [Keys -> Seq(Reqs)]
      BY <2>0, <2>2, <3>1 DEF TakeIdle, TypeOK
    <3>3. idleLRU' \in Seq(Reqs)
      BY <2>2, WithoutType DEF TakeIdle, TypeOK
    <3>. QED  BY <1>11, <2>2, <3>0, <3>2, <3>3 DEF queueForIdleConn, TakeIdle,
                dialVars, slotVars, connVars, TypeOK, HeldTyped
  <2>3. ASSUME NEW old \in 0 .. Len(list), WaitIdle(w, list, old), closeIdle' = FALSE
        PROVE  TypeInv'
    <3>1. PICK n \in CleanFront(idleConnWait[k], done) :
             idleConnWait' = [idleConnWait EXCEPT ![k] = CleanPush(@, n, w)]
      BY <2>3 DEF WaitIdle
    <3>2. CleanPush(idleConnWait[k], n, w) \in Seq(Reqs)
      BY <2>0, CleanPushFacts DEF IsCleanPush
    <3>3. idleConnWait' \in [Keys -> Seq(Reqs)]
      BY <2>0, <3>1, <3>2 DEF TypeOK
    <3>4. expiring' \subseteq Reqs
      <4>1. expiring' = expiring \cup {list[i] : i \in 1 .. old}
        BY <2>3 DEF WaitIdle
      <4>2. \A i \in 1 .. old : list[i] \in Reqs
        BY <2>0
      <4>3. expiring \subseteq Reqs
        BY DEF TypeOK
      <4>. HIDE DEF list
      <4>. QED  BY <4>1, <4>2, <4>3
    <3>5. idleConn' \in [Keys -> Seq(Reqs)]
      <4>1. idleConn' = [idleConn EXCEPT ![k] = <<>>] /\ <<>> \in Seq(Reqs)
        BY <2>3 DEF WaitIdle
      <4>. QED  BY <4>1 DEF TypeOK
    <3>. QED  BY <1>11, <2>3, <3>3, <3>4, <3>5 DEF queueForIdleConn, WaitIdle,
                dialVars, slotVars, connVars, TypeOK, HeldTyped
  <2>4. CASE ~DisableKeepAlives
    <3>1. PICK old \in 0 .. (IF IdleConnTimeout THEN Len(list) ELSE 0) :
            \/ \E m \in old + 1 .. Len(list) : TakeIdle(w, list, m)
            \/ WaitIdle(w, list, old)
      BY <1>11, <2>4 DEF queueForIdleConn
    <3>2. closeIdle' = FALSE
      BY <1>11, <2>4 DEF queueForIdleConn
    <3>3. old \in 0 .. Len(list) /\ old + 1 .. Len(list) \subseteq DOMAIN list
      BY <2>0, <3>1
    <3>. QED  BY <2>2, <2>3, <3>1, <3>2, <3>3
  <2>. QED  BY <2>1, <2>4

<1>12. ASSUME NEW w \in Reqs, queueForDial(w) PROVE TypeInv'
  <2>. DEFINE k == KeyOf[w]
  <2>0. /\ k \in Keys /\ connsPerHostWait[k] \in Seq(Reqs) /\ connsPerHost[k] \in Nat
        /\ DialTyped
    BY PoolAssumption DEF TypeOK, DialTyped
  <2>1. ASSUME startDialConnForLocked(w, dialer),
               connsPerHost' \in [Keys -> Nat], UNCHANGED connsPerHostWait
        PROVE  TypeInv'
    <3>1. dialer' \in [Reqs -> DialStates] /\ dialsInProgress' \in Seq(Reqs)
      BY <2>0, <2>1, StartDialType DEF DialTyped
    <3>. QED  BY <1>12, <2>1, <3>1 DEF queueForDial, idleVars, connVars, stopVars,
                TypeOK, HeldTyped
  <2>2. ASSUME NEW n \in CleanFront(connsPerHostWait[k], done),
               connsPerHostWait' = [connsPerHostWait EXCEPT ![k] = CleanPush(@, n, w)],
               dialer' = [dialer EXCEPT ![w] = "queued"],
               UNCHANGED <<connsPerHost, dialsInProgress>>
        PROVE  TypeInv'
    <3>1. CleanPush(connsPerHostWait[k], n, w) \in Seq(Reqs)
      BY <2>0, CleanPushFacts DEF IsCleanPush
    <3>2. connsPerHostWait' \in [Keys -> Seq(Reqs)]
      BY <2>0, <2>2, <3>1 DEF TypeOK
    <3>. QED  BY <1>12, <2>2, <3>2 DEF queueForDial, idleVars, connVars, stopVars,
                TypeOK, HeldTyped, DialStates
  <2>3. UNCHANGED connsPerHost => connsPerHost' \in [Keys -> Nat]
    BY DEF TypeOK
  <2>4. connsPerHost' = [connsPerHost EXCEPT ![k] = @ + 1] => connsPerHost' \in [Keys -> Nat]
    <3>1. connsPerHost[k] + 1 \in Nat
      BY <2>0
    <3>. QED  BY ZenonT(60), <3>1 DEF TypeOK
  <2>. QED  BY <1>12, <2>1, <2>2, <2>3, <2>4 DEF queueForDial

<1>13. ASSUME NEW w \in Reqs, dialConnForDec(w) PROVE TypeInv'
  <2>1. DialTyped /\ KeyOf[w] \in Keys /\ [dialer EXCEPT ![w] = "exit"] \in [Reqs -> DialStates]
    BY PoolAssumption DEF TypeOK, DialTyped, DialStates
  <2>2. DialTyped'
    BY <1>13, <2>1, DecType DEF dialConnForDec
  <2>. QED  BY <1>13, <2>2 DEF dialConnForDec, callVars, idleVars, connVars, stopVars,
              DialTyped, TypeOK, HeldTyped

<1>14. ASSUME NEW c \in Reqs, persistConnClose(c) PROVE TypeInv'
  BY <1>14, CloseType DEF persistConnClose, callVars, idleVars, stopVars, DialTyped,
     TypeOK, HeldTyped

<1>15. ASSUME NEW c \in Reqs, RemoveIdleConn(c)
       PROVE  idleLRU' \in Seq(Reqs) /\ idleConn' \in [Keys -> Seq(Reqs)]
  <2>1. KeyOf[c] \in Keys
    BY PoolAssumption
  <2>2. Without(idleLRU, c) \in Seq(Reqs) /\ Without(idleConn[KeyOf[c]], c) \in Seq(Reqs)
    BY <2>1, WithoutType DEF TypeOK
  <2>. QED  BY <1>15, <2>1, <2>2 DEF RemoveIdleConn, TypeOK

<1>16. ASSUME NEW c \in Reqs, readLoopExit(c) PROVE TypeInv'
  BY <1>15, <1>16 DEF readLoopExit, callVars, dialVars, slotVars, stopVars, TypeOK,
     HeldTyped

<1>17. ASSUME NEW c \in Reqs, closeConnIfStillIdle(c) PROVE TypeInv'
  <2>1. CASE UNCHANGED <<idleConn, idleLRU, conn, dialVars, panics>>
    BY <1>17, <2>1 DEF closeConnIfStillIdle, callVars, dialVars, slotVars, TypeOK,
       HeldTyped
  <2>2. CASE RemoveIdleConn(c) /\ closeLocked(c, done)
    <3>1. DialTyped' /\ conn' \in [Reqs -> {"none", "open", "closed"}]
      BY <2>2, CloseType
    <3>. QED  BY <1>15, <1>17, <2>2, <3>1 DEF closeConnIfStillIdle, callVars,
                DialTyped, TypeOK, HeldTyped
  <2>. QED  BY <1>17, <2>1, <2>2 DEF closeConnIfStillIdle

<1>18. ASSUME NEW c \in Reqs, closeIdleClose(c) PROVE TypeInv'
  BY <1>18, CloseType DEF closeIdleClose, callVars, idleVars, DialTyped, TypeOK,
     HeldTyped

<1>19. ASSUME CloseIdleConnections PROVE TypeInv'
  <2>1. doomed' \subseteq Reqs
    <3>1. \A k \in Keys : Range(idleConn[k]) \subseteq Reqs
      <4>. SUFFICES ASSUME NEW k \in Keys PROVE Range(idleConn[k]) \subseteq Reqs
        OBVIOUS
      <4>1. idleConn[k] \in Seq(Reqs)
        BY DEF TypeOK
      <4>. QED  BY <4>1, RangeOfSeq
    <3>. QED  BY <1>19, <3>1 DEF CloseIdleConnections
  <2>2. closeCalls' \in Nat
    <3>1. closeCalls \in Nat /\ closeCalls > 0 /\ closeCalls' = closeCalls - 1
      BY <1>19 DEF CloseIdleConnections, TypeOK
    <3>. QED  BY <3>1
  <2>3. idleConn' \in [Keys -> Seq(Reqs)] /\ idleLRU' \in Seq(Reqs)
    BY <1>19 DEF CloseIdleConnections
  <2>. QED  BY <1>19, <2>1, <2>2, <2>3 DEF CloseIdleConnections, callVars, dialVars,
              slotVars, connVars, TypeOK, HeldTyped

<1>20. ASSUME closeIdleDials PROVE TypeInv'
  BY <1>20 DEF closeIdleDials, callVars, dialVars, slotVars, idleVars, connVars,
     TypeOK, HeldTyped, Range

<1>21. ASSUME NEW a \in Agents, put[a] # "no" PROVE PutConn(a) \in Reqs
  <2>1. PICK x \in {"readLoop", "dialConnFor", "cancel"}, w \in Reqs : a = <<x, w>>
    BY <1>21 DEF Agents
  <2>. QED  BY <1>21, <2>1 DEF PutConn, HeldTyped

\* The end of a hand-over: the agent's entries of put and held are reset.
<1>22. ASSUME NEW a \in Agents, EndPut(a), UNCHANGED caller
       PROVE  /\ put' \in [Agents -> {"no", "check", "lock", "close"}]
              /\ held' \in [Reqs -> Reqs \cup {NoConn}]
              /\ put[a] # "no" => HeldTyped'
  <2>0. PICK x \in {"readLoop", "dialConnFor", "cancel"}, w \in Reqs : a = <<x, w>>
    BY <1>22 DEF Agents
  <2>1. put' \in [Agents -> {"no", "check", "lock", "close"}]
    BY <1>22 DEF EndPut, TypeOK
  <2>2. held' \in [Reqs -> Reqs \cup {NoConn}]
    BY <1>22, <2>0 DEF EndPut, TypeOK
  <2>3. ASSUME put[a] # "no" PROVE HeldTyped'
    <3>. SUFFICES ASSUME NEW y \in Reqs
                  PROVE  /\ caller[y] = "using" => held'[y] \in Reqs
                         /\ put'[<<"cancel", y>>] # "no" => held'[y] \in Reqs /\ caller[y] = "returned"
      BY <1>22 DEF HeldTyped
    <3>1. <<"cancel", y>> \in Agents
      BY DEF Agents
    <3>2. CASE x = "cancel" /\ y = w
      BY <1>22, <2>0, <2>3, <3>1, <3>2 DEF EndPut, TypeOK, HeldTyped
    <3>3. CASE ~(x = "cancel" /\ y = w)
      <4>1. put'[<<"cancel", y>>] = put[<<"cancel", y>>]
        <5>1. <<"cancel", y>> # a
          BY <2>0, <3>3
        <5>2. put' = [put EXCEPT ![a] = "no"] /\ put \in [Agents -> {"no", "check", "lock", "close"}]
          BY <1>22 DEF EndPut, TypeOK
        <5>. QED  BY <3>1, <5>1, <5>2
      <4>2. held'[y] = held[y]
        BY ZenonT(60), <1>22, <2>0, <3>3 DEF EndPut, TypeOK
      <4>. QED  BY <4>1, <4>2 DEF HeldTyped
    <3>. QED  BY <3>2, <3>3
  <2>. QED  BY <2>1, <2>2, <2>3

<1>23. ASSUME NEW a \in Agents, put[a] # "no", NEW v \in {"check", "lock", "close"},
              put' = [put EXCEPT ![a] = v], UNCHANGED <<held, caller>>
       PROVE  /\ put' \in [Agents -> {"no", "check", "lock", "close"}]
              /\ HeldTyped'
  BY <1>23 DEF TypeOK, HeldTyped, Agents

<1>24. ASSUME NEW a \in Agents, tryPutIdleConnCheck(a) PROVE TypeInv'
  <2>1. PutConn(a) \in Reqs
    BY <1>21, <1>24 DEF tryPutIdleConnCheck
  <2>2. /\ put' \in [Agents -> {"no", "check", "lock", "close"}]
        /\ HeldTyped'
    BY <1>23, <1>24 DEF tryPutIdleConnCheck, callVars
  <2>3. reused' \subseteq Reqs
    BY <1>24, <2>1 DEF tryPutIdleConnCheck, TypeOK
  <2>. QED  BY <1>24, <2>2, <2>3 DEF tryPutIdleConnCheck, callVars, dialVars, slotVars,
              idleVars, stopVars, TypeOK

<1>25. ASSUME NEW a \in Agents, putOrCloseIdleConn(a) PROVE TypeInv'
  <2>1. PutConn(a) \in Reqs /\ put[a] # "no"
    BY <1>21, <1>25 DEF putOrCloseIdleConn
  <2>2. DialTyped' /\ conn' \in [Reqs -> {"none", "open", "closed"}]
    BY <1>25, <2>1, CloseType DEF putOrCloseIdleConn
  <2>3. /\ put' \in [Agents -> {"no", "check", "lock", "close"}]
        /\ held' \in [Reqs -> Reqs \cup {NoConn}] /\ HeldTyped'
    BY <1>22, <1>25, <2>1 DEF putOrCloseIdleConn
  <2>. QED  BY <1>25, <2>2, <2>3 DEF putOrCloseIdleConn, idleVars, stopVars, DialTyped,
              TypeOK

\* Parking a connection, with the eviction of the oldest one.
<1>26. ASSUME NEW c \in Reqs, NEW d, Park(c, KeyOf[c], d)
       PROVE  /\ idleLRU' \in Seq(Reqs) /\ idleConn' \in [Keys -> Seq(Reqs)]
              /\ DialTyped' /\ conn' \in [Reqs -> {"none", "open", "closed"}]
  <2>. DEFINE lru == <<c>> \o idleLRU
              list == [idleConn EXCEPT ![KeyOf[c]] = Append(@, c)]
              oldest == lru[Len(lru)]
  <2>1. /\ lru \in Seq(Reqs) /\ Len(lru) > 0 /\ Len(lru) \in Nat
        /\ list \in [Keys -> Seq(Reqs)]
    <3>1. KeyOf[c] \in Keys /\ idleConn \in [Keys -> Seq(Reqs)] /\ idleLRU \in Seq(Reqs)
      BY PoolAssumption DEF TypeOK
    <3>2. lru \in Seq(Reqs) /\ Len(lru) = 1 + Len(idleLRU) /\ Len(idleLRU) \in Nat
      BY <3>1
    <3>3. Append(idleConn[KeyOf[c]], c) \in Seq(Reqs)
      BY <3>1
    <3>. QED  BY <3>1, <3>2, <3>3
  <2>2. oldest \in Reqs
    BY <2>1
  <2>3. KeyOf[oldest] \in Keys
    BY <2>2, PoolAssumption
  <2>4. SubSeq(lru, 1, Len(lru) - 1) \in Seq(Reqs)
    <3>1. Len(lru) - 1 \in Int /\ \A i \in 1 .. Len(lru) - 1 : lru[i] \in Reqs
      BY <2>1
    <3>. QED  BY <3>1, SubSeqProperties
  <2>5. Without(list[KeyOf[oldest]], oldest) \in Seq(Reqs)
    BY <2>1, <2>3, WithoutType
  <2>6. CASE MaxIdleConns # 0 /\ Len(lru) > MaxIdleConns
    <3>1. /\ idleLRU' = SubSeq(lru, 1, Len(lru) - 1)
          /\ idleConn' = [list EXCEPT ![KeyOf[oldest]] = Without(@, oldest)]
          /\ closeLocked(oldest, d)
      BY <1>26, <2>6 DEF Park
    <3>2. DialTyped' /\ conn' \in [Reqs -> {"none", "open", "closed"}]
      BY <2>2, <3>1, CloseType
    <3>. HIDE DEF lru, list, oldest
    <3>. QED  BY <2>1, <2>3, <2>4, <2>5, <3>1, <3>2
  <2>7. CASE ~(MaxIdleConns # 0 /\ Len(lru) > MaxIdleConns)
    <3>1. idleLRU' = lru /\ idleConn' = list /\ UNCHANGED <<conn, dialVars, panics>>
      BY <1>26, <2>7 DEF Park
    <3>. QED  BY <2>1, <3>1 DEF TypeOK, DialTyped, dialVars, slotVars
  <2>. QED  BY <2>6, <2>7

<1>27. ASSUME NEW a \in Agents, put[a] # "no", NEW d, PutIdle(a, PutConn(a), d), UNCHANGED caller
       PROVE  /\ idleLRU' \in Seq(Reqs) /\ idleConn' \in [Keys -> Seq(Reqs)]
              /\ DialTyped' /\ conn' \in [Reqs -> {"none", "open", "closed"}]
              /\ put' \in [Agents -> {"no", "check", "lock", "close"}]
              /\ held' \in [Reqs -> Reqs \cup {NoConn}] /\ HeldTyped'
  <2>0. PutConn(a) \in Reqs /\ DialTyped
    BY <1>21, <1>27 DEF TypeOK, DialTyped
  <2>1. CASE /\ put' = [put EXCEPT ![a] = "close"]
             /\ UNCHANGED <<held, idleConn, idleLRU, conn, dialVars, panics>>
    BY <1>23, <1>27, <2>0, <2>1 DEF TypeOK, DialTyped, dialVars, slotVars
  <2>2. CASE EndPut(a) /\ Park(PutConn(a), KeyOf[PutConn(a)], d)
    BY <1>22, <1>26, <1>27, <2>0, <2>2
  <2>3. CASE /\ EndPut(a)
             /\ panics' \subseteq panics \cup {"dup idle pconn", "already in LRU"}
             /\ UNCHANGED <<idleConn, idleLRU, conn, dialVars>>
    BY <1>22, <1>27, <2>0, <2>3 DEF TypeOK, DialTyped, dialVars, slotVars
  <2>. QED  BY <1>27, <2>1, <2>2, <2>3 DEF PutIdle

<1>28. ASSUME NEW a \in Agents, tryPutIdleConn(a) PROVE TypeInv'
  <2>. DEFINE c == PutConn(a)
              k == KeyOf[PutConn(a)]
              q == idleConnWait[KeyOf[PutConn(a)]]
  <2>0. put[a] # "no" /\ UNCHANGED <<caller, closeIdle, alt, reused, reader, stopVars>>
    BY <1>28 DEF tryPutIdleConn
  <2>1. c \in Reqs
    BY <1>21, <2>0
  <2>2. k \in Keys /\ q \in Seq(Reqs)
    BY <2>1, PoolAssumption DEF TypeOK
  <2>3. CASE /\ EndPut(a)
             /\ UNCHANGED <<done, result, idleConn, idleLRU, idleConnWait, conn,
                             dialVars, panics>>
    BY <1>22, <2>0, <2>3 DEF TypeOK, stopVars, dialVars, slotVars
  <2>4. ASSUME NEW i \in DOMAIN q, tryDeliver(q[i], c), EndPut(a),
               idleConnWait' = [idleConnWait EXCEPT ![k] = SubSeq(q, i + 1, Len(q))],
               UNCHANGED <<idleConn, idleLRU, conn, dialVars, panics>>
        PROVE  TypeInv'
    <3>1. q[i] \in Reqs /\ i \in Int
      BY <2>2
    <3>2. SubSeq(q, i + 1, Len(q)) \in Seq(Reqs)
      <4>1. i + 1 \in Int /\ Len(q) \in Int /\ \A j \in i + 1 .. Len(q) : q[j] \in Reqs
        BY <2>2, <3>1
      <4>. QED  BY <4>1, SubSeqProperties
    <3>3. done' \subseteq Reqs /\ result' \in [Reqs -> Reqs \cup {NoConn, DialErr}]
      <4>1. CASE q[i] \in done
        BY <2>4, <4>1 DEF tryDeliver, TypeOK
      <4>2. CASE q[i] \notin done
        <5>1. done' = done \cup {q[i]} /\ result' = [result EXCEPT ![q[i]] = c]
          BY <2>4, <4>2 DEF tryDeliver
        <5>. QED  BY <2>1, <3>1, <5>1 DEF TypeOK
      <4>. QED  BY <4>1, <4>2
    <3>4. idleConnWait' \in [Keys -> Seq(Reqs)]
      BY <2>2, <2>4, <3>2 DEF TypeOK
    <3>. QED  BY <1>22, <2>0, <2>4, <3>3, <3>4 DEF TypeOK, stopVars, dialVars, slotVars
  <2>5. ASSUME NEW d, PutIdle(a, c, d),
               idleConnWait' = [idleConnWait EXCEPT ![k] = <<>>],
               done' \subseteq Reqs, result' \in [Reqs -> Reqs \cup {NoConn, DialErr}]
        PROVE  TypeInv'
    <3>1. idleConnWait' \in [Keys -> Seq(Reqs)]
      <4>1. <<>> \in Seq(Reqs)
        OBVIOUS
      <4>2. idleConnWait \in [Keys -> Seq(Reqs)]
        BY DEF TypeOK
      <4>. HIDE DEF k, q
      <4>. QED  BY <2>5, <4>1, <4>2
    <3>2. /\ idleLRU' \in Seq(Reqs) /\ idleConn' \in [Keys -> Seq(Reqs)]
          /\ DialTyped' /\ conn' \in [Reqs -> {"none", "open", "closed"}]
          /\ put' \in [Agents -> {"no", "check", "lock", "close"}]
          /\ held' \in [Reqs -> Reqs \cup {NoConn}] /\ HeldTyped'
      BY <1>27, <2>0, <2>5
    <3>. QED  BY <2>0, <2>5, <3>1, <3>2 DEF TypeOK, DialTyped, stopVars
  <2>6. UNCHANGED <<done, result>> =>
            done' \subseteq Reqs /\ result' \in [Reqs -> Reqs \cup {NoConn, DialErr}]
    BY DEF TypeOK
  <2>7. /\ done' = done \cup Range(q)
        /\ result' = [w \in Reqs |-> IF w \in Range(q) \ done THEN c ELSE result[w]]
        => done' \subseteq Reqs /\ result' \in [Reqs -> Reqs \cup {NoConn, DialErr}]
    <3>1. Range(q) \subseteq Reqs
      BY <2>2, RangeOfSeq
    <3>. QED  BY ZenonT(60), <2>1, <3>1 DEF TypeOK
  <2>. QED  BY <1>28, <2>3, <2>4, <2>5, <2>6, <2>7 DEF tryPutIdleConn
<1>. QED
  BY <1>1, <1>2, <1>3, <1>4, <1>5, <1>6, <1>7, <1>8, <1>9, <1>10, <1>11, <1>12, <1>13,
     <1>14, <1>16, <1>17, <1>18, <1>19, <1>20, <1>24, <1>25, <1>28
     DEF Next, getConn, dialConnFor, UseConn, CloseConn, PutBack

\* A new Transport satisfies TypeInv.
LEMMA TypeInvInit == Init => TypeInv
<1>. SUFFICES ASSUME Init PROVE TypeInv
  OBVIOUS
<1>1. TypeOK
  <2>1. CloseIdleCalls \in Nat
    BY PoolAssumption
  <2>2. <<>> \in Seq(Reqs)
    OBVIOUS
  <2>. QED  BY <2>1, <2>2 DEF Init, TypeOK, DialStates
<1>2. HeldTyped
  BY DEF Init, HeldTyped, Agents
<1>. QED  BY <1>1, <1>2 DEF TypeInv

\* Type correctness of the pool for every instance of its constants.
THEOREM TypeCorrect == Spec => []TypeOK
<1>1. TypeInv => TypeOK
  BY DEF TypeInv
<1>. QED  BY <1>1, TypeInvInit, TypeInvStep, PTL DEF Spec

-----------------------------------------------------------------------------
(* The accounting of MaxConnsPerHost.                                      *)

\* A connection exists only once its dial is over; a caller that has not
\* reached queueForDial has no dial; nobody queues without a limit.
DialStage ==
    \A w \in Reqs :
        /\ conn[w] # "none" => dialer[w] \in {"deliver", "exit", "end"}
        /\ caller[w] \in {"start", "queueForDial"} => dialer[w] = "none"
        /\ dialer[w] = "queued" => MaxConnsPerHost > 0

\* The queue of a host holds distinct calls to that host that have no slot.
WaitQueue ==
    \A k \in Keys : \A i \in DOMAIN connsPerHostWait[k] :
        LET w == connsPerHostWait[k][i] IN
        /\ dialer[w] = "queued" /\ KeyOf[w] = k
        /\ \A j \in DOMAIN connsPerHostWait[k] : connsPerHostWait[k][j] = w => i = j

SlotInv == DialStage /\ WaitQueue /\ SlotAccounting /\ NoStrandedWaiter

\* Sets of calls are finite, so counting dials and connections is defined.
LEMMA FiniteCalls == \A S \in SUBSET Reqs : IsFiniteSet(S) /\ Cardinality(S) \in Nat
  BY PoolAssumption, FS_Subset, FS_CardinalityType

\* What a step that leaves the dials and the connections alone must not do.
Quiet ==
    /\ UNCHANGED <<dialVars, conn>>
    /\ done \subseteq done'
    /\ \A w \in Reqs : caller'[w] \in {"start", "queueForDial"} =>
                           caller[w] \in {"start", "queueForDial"}

\* A quiet step keeps SlotInv: it can only answer callers (done grows).
LEMMA QuietStep == SlotInv /\ Quiet => SlotInv'
<1>. SUFFICES ASSUME SlotInv, Quiet PROVE SlotInv'
  OBVIOUS
<1>. USE DEF SlotInv, Quiet, dialVars, slotVars
<1>1. DialStage'
  BY DEF DialStage
<1>2. WaitQueue'
  BY DEF WaitQueue
<1>3. SlotAccounting'
  <2>1. \A k : Slots(k)' = Slots(k)
    BY DEF Slots, HoldsSlot
  <2>. QED  BY <2>1 DEF SlotAccounting
<1>4. NoStrandedWaiter'
  BY DEF NoStrandedWaiter
<1>. QED  BY <1>1, <1>2, <1>3, <1>4

\* Giving a slot back: it goes to the first caller still waiting, or the
\* count goes down.  x is the dial or the connection that had the slot.
LEMMA DecStep ==
  ASSUME TypeOK, SlotInv, UNCHANGED caller, done \subseteq done',
         NEW x \in Reqs, HoldsSlot(x), NEW dl \in [Reqs -> DialStates],
         NEW d, d \subseteq done',
         decConnsPerHost(KeyOf[x], dl, d),
         \A w \in Reqs \ {x} : dl[w] = dialer[w] /\ conn'[w] = conn[w],
         dl[x] \in {"deliver", "exit", "end"}, conn'[x] # "open",
         caller[x] \notin {"start", "queueForDial"}
  PROVE  SlotInv'
<1>. DEFINE k == KeyOf[x]
            q == connsPerHostWait[KeyOf[x]]
<1>0. k \in Keys /\ q \in Seq(Reqs) /\ connsPerHost[k] \in Nat /\ MaxConnsPerHost \in Nat
  BY PoolAssumption DEF TypeOK
<1>1. CASE MaxConnsPerHost = 0
  <2>1. dialer' = dl /\ UNCHANGED slotVars
    BY <1>1 DEF decConnsPerHost
  <2>2. DialStage'
    BY <2>1 DEF SlotInv, DialStage
  <2>3. ~(MaxConnsPerHost > 0)
    BY <1>1
  <2>4. \A w \in Reqs : dialer[w] # "queued" /\ dl[w] # "queued"
    BY <2>3 DEF SlotInv, DialStage
  <2>5. NoStrandedWaiter'
    BY <2>1, <2>4 DEF NoStrandedWaiter
  <2>6. WaitQueue'
    <3>1. \A kk \in Keys : connsPerHostWait[kk] \in Seq(Reqs)
      BY DEF TypeOK
    <3>2. \A kk \in Keys : DOMAIN connsPerHostWait[kk] = {}
      BY <2>4, <3>1 DEF SlotInv, WaitQueue
    <3>. QED  BY <2>1, <3>2 DEF WaitQueue, slotVars
  <2>. QED  BY <2>2, <2>3, <2>5, <2>6 DEF SlotInv, SlotAccounting
<1>2. CASE MaxConnsPerHost > 0
  <2>0. /\ \A kk \in Keys : connsPerHost[kk] = Cardinality(Slots(kk))
        /\ \A kk \in Keys : connsPerHost[kk] <= MaxConnsPerHost
    BY <1>2 DEF SlotInv, SlotAccounting
  <2>1. x \in Slots(k) /\ IsFiniteSet(Slots(k))
    BY FiniteCalls DEF Slots
  <2>2. connsPerHost[k] > 0
    BY <1>0, <2>0, <2>1, FS_EmptySet, FiniteCalls
  <2>3. Cardinality(Slots(k) \ {x}) = connsPerHost[k] - 1 /\ IsFiniteSet(Slots(k) \ {x})
    BY <1>0, <2>0, <2>1, FS_RemoveElement
  <2>4. \/ /\ \E i \in DOMAIN q :
                 /\ FirstWaiting(q, d, i)
                 /\ startDialConnForLocked(q[i], dl)
                 /\ connsPerHostWait' = [connsPerHostWait EXCEPT
                                           ![k] = SubSeq(q, i + 1, Len(q))]
           /\ UNCHANGED connsPerHost
        \/ /\ Range(q) \subseteq d
           /\ connsPerHost' = [connsPerHost EXCEPT ![k] = @ - 1]
           /\ connsPerHostWait' = [connsPerHostWait EXCEPT ![k] = <<>>]
           /\ dialer' = dl
    <3>1. ~(MaxConnsPerHost = 0 \/ (MaxConnsPerHost > 0 /\ connsPerHost[k] = 0))
      BY <1>0, <1>2, <2>2
    <3>. QED  BY <3>1 DEF decConnsPerHost
  <2>5. dialer[x] # "queued" /\ dl[x] # "queued" /\ dl[x] \notin {"start", "dialing", "dec"}
    BY DEF HoldsSlot, SlotInv, DialStage
  <2>6. \A w \in Reqs : dl[w] = "queued" <=> dialer[w] = "queued"
    BY <2>5
  <2>7. CASE /\ Range(q) \subseteq d
             /\ connsPerHost' = [connsPerHost EXCEPT ![k] = @ - 1]
             /\ connsPerHostWait' = [connsPerHostWait EXCEPT ![k] = <<>>]
             /\ dialer' = dl
    <3>1. DialStage'
      BY <2>7 DEF SlotInv, DialStage
    <3>2. WaitQueue'
      <4>. SUFFICES ASSUME NEW kk \in Keys, NEW i \in DOMAIN connsPerHostWait'[kk]
                    PROVE  LET w == connsPerHostWait'[kk][i] IN
                           /\ dialer'[w] = "queued" /\ KeyOf[w] = kk
                           /\ \A j \in DOMAIN connsPerHostWait'[kk] :
                                 connsPerHostWait'[kk][j] = w => i = j
        BY DEF WaitQueue
      <4>1. connsPerHostWait'[kk] = IF kk = k THEN <<>> ELSE connsPerHostWait[kk]
        BY <2>7 DEF TypeOK
      <4>2. kk # k /\ connsPerHostWait'[kk] = connsPerHostWait[kk]
        BY <4>1
      <4>3. connsPerHostWait[kk] \in Seq(Reqs)
        BY DEF TypeOK
      <4>4. connsPerHostWait[kk][i] \in Reqs /\ dialer[connsPerHostWait[kk][i]] = "queued"
        BY <4>2, <4>3 DEF SlotInv, WaitQueue
      <4>. QED  BY <2>6, <2>7, <4>2, <4>4 DEF SlotInv, WaitQueue
    <3>3. SlotAccounting'
      <4>. SUFFICES ASSUME NEW kk \in Keys
                    PROVE  /\ connsPerHost'[kk] = Cardinality(Slots(kk)')
                           /\ connsPerHost'[kk] <= MaxConnsPerHost
        BY DEF SlotAccounting
      <4>1. CASE kk = k
        <5>1. Slots(k)' = Slots(k) \ {x}
          BY <2>5, <2>7 DEF Slots, HoldsSlot
        <5>2. connsPerHost'[k] = connsPerHost[k] - 1
          BY <1>0, <2>7 DEF TypeOK
        <5>. QED  BY <1>0, <2>0, <2>3, <4>1, <5>1, <5>2
      <4>2. CASE kk # k
        <5>1. Slots(kk)' = Slots(kk)
          BY <2>5, <2>7, <4>2 DEF Slots, HoldsSlot
        <5>2. connsPerHost'[kk] = connsPerHost[kk]
          BY <1>0, <2>7, <4>2 DEF TypeOK
        <5>. QED  BY <2>0, <5>1, <5>2
      <4>. QED  BY <4>1, <4>2
    <3>4. NoStrandedWaiter'
      <4>. SUFFICES ASSUME NEW w \in Reqs, dialer'[w] = "queued", w \notin done'
                    PROVE  /\ w \in Range(connsPerHostWait'[KeyOf[w]])
                           /\ connsPerHost'[KeyOf[w]] = MaxConnsPerHost
        BY DEF NoStrandedWaiter
      <4>1. /\ w \in Range(connsPerHostWait[KeyOf[w]])
            /\ connsPerHost[KeyOf[w]] = MaxConnsPerHost
        BY <2>6, <2>7 DEF SlotInv, NoStrandedWaiter
      <4>2. KeyOf[w] # k /\ KeyOf[w] \in Keys
        BY <2>7, <4>1, PoolAssumption
      <4>. QED  BY ZenonT(60), <2>7, <4>1, <4>2 DEF TypeOK
    <3>. QED  BY <3>1, <3>2, <3>3, <3>4 DEF SlotInv
  <2>8. ASSUME NEW i \in DOMAIN q, FirstWaiting(q, d, i),
               startDialConnForLocked(q[i], dl),
               connsPerHostWait' = [connsPerHostWait EXCEPT ![k] = SubSeq(q, i + 1, Len(q))],
               UNCHANGED connsPerHost
        PROVE  SlotInv'
    <3>. DEFINE z == q[i]
                p == SubSeq(q, i + 1, Len(q))
    <3>1. z \in Reqs /\ i \in 1 .. Len(q) /\ Len(q) \in Nat
      BY <1>0
    <3>2. dialer[z] = "queued" /\ KeyOf[z] = k /\ z # x
      BY <1>0, <2>5 DEF SlotInv, WaitQueue
    <3>3. conn[z] # "open" /\ conn'[z] = "none" /\ caller[z] \notin {"start", "queueForDial"}
      BY <3>1, <3>2 DEF SlotInv, DialStage, TypeOK
    <3>4. dialer' = [dl EXCEPT ![z] = "start"]
      BY <2>8 DEF startDialConnForLocked
    <3>5. /\ Len(p) = Len(q) - i
          /\ \A j \in 1 .. Len(q) - i : p[j] = q[i + j]
          /\ p \in Seq(Reqs)
      <4>1. i \in 0 .. Len(q)
        BY <3>1
      <4>. QED  BY <1>0, <4>1, SuffixFacts
    <3>6. connsPerHostWait' = [connsPerHostWait EXCEPT ![k] = p]
      BY <2>8
    <3>7. \A j \in 1 .. i - 1 : q[j] \in d
      BY <2>8 DEF FirstWaiting
    <3>. HIDE DEF z, p
    <3>8. \A w \in Reqs : dialer'[w] = "queued" <=> (dialer[w] = "queued" /\ w # z)
      BY <2>6, <3>1, <3>4
    <3>9. DialStage'
      BY <3>1, <3>3, <3>4 DEF SlotInv, DialStage
    <3>10. WaitQueue'
      <4>. SUFFICES ASSUME NEW kk \in Keys, NEW n \in DOMAIN connsPerHostWait'[kk]
                    PROVE  LET w == connsPerHostWait'[kk][n] IN
                           /\ dialer'[w] = "queued" /\ KeyOf[w] = kk
                           /\ \A j \in DOMAIN connsPerHostWait'[kk] :
                                 connsPerHostWait'[kk][j] = w => n = j
        BY DEF WaitQueue
      <4>1. CASE kk = k
        <5>1. connsPerHostWait'[kk] = p
          BY <1>0, <3>6, <4>1 DEF TypeOK
        <5>2. n \in 1 .. Len(q) - i /\ DOMAIN p = 1 .. Len(q) - i
          BY <3>5, <5>1
        <5>3. i + n \in DOMAIN q /\ i + n # i /\ p[n] = q[i + n]
          BY <1>0, <3>1, <3>5, <5>2
        <5>4. dialer[q[i + n]] = "queued" /\ KeyOf[q[i + n]] = k /\ q[i + n] \in Reqs
          BY <1>0, <5>3 DEF SlotInv, WaitQueue
        <5>5. q[i + n] # z
          BY <1>0, <3>1, <5>3 DEF SlotInv, WaitQueue, z
        <5>6. ASSUME NEW j \in DOMAIN p, p[j] = p[n] PROVE n = j
          <6>1. i + j \in DOMAIN q /\ p[j] = q[i + j]
            BY SMTT(40), <1>0, <3>1, <3>5, <5>2
          <6>2. i + n = i + j
            <7>1. q[i + j] = q[i + n]
              BY <5>3, <5>6, <6>1
            <7>. QED  BY <1>0, <5>3, <6>1, <7>1 DEF SlotInv, WaitQueue
          <6>. QED  BY <3>1, <5>2, <6>2
        <5>. QED  BY <3>8, <4>1, <5>1, <5>3, <5>4, <5>5, <5>6
      <4>2. CASE kk # k
        <5>1. connsPerHostWait'[kk] = connsPerHostWait[kk] /\ connsPerHostWait[kk] \in Seq(Reqs)
          BY <3>6, <4>2 DEF TypeOK
        <5>2. /\ connsPerHostWait[kk][n] \in Reqs
              /\ dialer[connsPerHostWait[kk][n]] = "queued"
              /\ connsPerHostWait[kk][n] # z
          BY <3>2, <4>2, <5>1 DEF SlotInv, WaitQueue
        <5>. QED  BY <3>8, <5>1, <5>2 DEF SlotInv, WaitQueue
      <4>. QED  BY <4>1, <4>2
    <3>11. SlotAccounting'
      <4>. SUFFICES ASSUME NEW kk \in Keys
                    PROVE  /\ connsPerHost'[kk] = Cardinality(Slots(kk)')
                           /\ connsPerHost'[kk] <= MaxConnsPerHost
        BY DEF SlotAccounting
      <4>1. CASE kk = k
        <5>1. Slots(k)' = (Slots(k) \ {x}) \cup {z}
          BY <2>5, <3>1, <3>2, <3>3, <3>4 DEF Slots, HoldsSlot
        <5>2. z \notin Slots(k) \ {x}
          BY <3>2, <3>3 DEF Slots, HoldsSlot
        <5>3. Cardinality(Slots(k)') = connsPerHost[k] - 1 + 1
          BY <2>3, <5>1, <5>2, FS_AddElement
        <5>. QED  BY <1>0, <2>0, <2>8, <4>1, <5>3
      <4>2. CASE kk # k
        <5>1. Slots(kk)' = Slots(kk)
          BY <2>5, <3>1, <3>2, <3>4, <4>2 DEF Slots, HoldsSlot
        <5>. QED  BY <2>0, <2>8, <5>1
      <4>. QED  BY <4>1, <4>2
    <3>12. NoStrandedWaiter'
      <4>. SUFFICES ASSUME NEW w \in Reqs, dialer'[w] = "queued", w \notin done'
                    PROVE  /\ w \in Range(connsPerHostWait'[KeyOf[w]])
                           /\ connsPerHost'[KeyOf[w]] = MaxConnsPerHost
        BY DEF NoStrandedWaiter
      <4>1. /\ w \in Range(connsPerHostWait[KeyOf[w]])
            /\ connsPerHost[KeyOf[w]] = MaxConnsPerHost
            /\ w # z
        BY <3>8 DEF SlotInv, NoStrandedWaiter
      <4>2. KeyOf[w] \in Keys
        BY PoolAssumption
      <4>3. CASE KeyOf[w] = k
        <5>1. PICK j \in DOMAIN q : w = q[j]
          BY <4>1, <4>3 DEF Range
        <5>2. j \in i + 1 .. Len(q)
          BY <1>0, <3>1, <3>7, <4>1, <5>1 DEF z
        <5>3. j - i \in DOMAIN p /\ p[j - i] = q[j]
          <6>1. j - i \in 1 .. Len(q) - i /\ i + (j - i) = j
            BY <3>1, <5>2
          <6>2. DOMAIN p = 1 .. Len(q) - i
            BY <3>5
          <6>3. p[j - i] = q[i + (j - i)]
            BY <3>5, <6>1
          <6>. QED  BY <6>1, <6>2, <6>3
        <5>4. w \in Range(p)
          BY <5>1, <5>3 DEF Range
        <5>. QED  BY ZenonT(60), <1>0, <2>8, <3>6, <4>1, <4>3, <5>4 DEF TypeOK
      <4>4. CASE KeyOf[w] # k
        BY ZenonT(60), <2>8, <3>6, <4>1, <4>2, <4>4 DEF TypeOK
      <4>. QED  BY <4>3, <4>4
    <3>. QED  BY <3>9, <3>10, <3>11, <3>12 DEF SlotInv
  <2>. QED  BY <2>4, <2>7, <2>8
<1>. QED  BY <1>0, <1>1, <1>2

\* A dial goroutine moves on without gaining or losing its slot.
LEMMA DialMove ==
  ASSUME TypeOK, SlotInv, UNCHANGED <<caller, slotVars>>, done \subseteq done',
         NEW x \in Reqs, NEW v \in DialStates \ {"none", "queued"},
         dialer[x] \notin {"none", "queued"}, dialer' = [dialer EXCEPT ![x] = v],
         \A w \in Reqs \ {x} : conn'[w] = conn[w],
         HoldsSlot(x)' <=> HoldsSlot(x),
         conn'[x] # "none" => v \in {"deliver", "exit", "end"}
  PROVE  SlotInv'
<1>1. \A w \in Reqs \ {x} : dialer'[w] = dialer[w]
  BY DEF TypeOK
<1>2. dialer'[x] = v
  BY DEF TypeOK
<1>3. \A w \in Reqs : dialer'[w] = "queued" <=> dialer[w] = "queued"
  BY <1>1, <1>2
<1>4. DialStage'
  BY <1>1, <1>2 DEF SlotInv, DialStage
<1>5. WaitQueue'
  <2>1. \A k \in Keys : connsPerHostWait[k] \in Seq(Reqs)
    BY DEF TypeOK
  <2>2. \A k \in Keys : \A i \in DOMAIN connsPerHostWait[k] : connsPerHostWait[k][i] \in Reqs
    BY <2>1
  <2>. QED  BY <1>3, <2>2 DEF SlotInv, WaitQueue, slotVars
<1>6. SlotAccounting'
  <2>1. \A k \in Keys : Slots(k)' = Slots(k)
    BY <1>1 DEF Slots, HoldsSlot
  <2>. QED  BY <2>1 DEF SlotInv, SlotAccounting, slotVars
<1>7. NoStrandedWaiter'
  BY <1>3 DEF SlotInv, NoStrandedWaiter, slotVars
<1>. QED  BY <1>4, <1>5, <1>6, <1>7 DEF SlotInv

\* Closing a connection frees its slot if it was open.
LEMMA CloseStep ==
  ASSUME TypeOK, SlotInv, UNCHANGED caller, done \subseteq done',
         NEW c \in Reqs, NEW d, d \subseteq done', closeLocked(c, d)
  PROVE  SlotInv'
<1>1. CASE conn[c] = "open"
  <2>1. conn' = [conn EXCEPT ![c] = "closed"] /\ decConnsPerHost(KeyOf[c], dialer, d)
    BY <1>1 DEF closeLocked
  <2>2. dialer[c] \in {"deliver", "exit", "end"} /\ caller[c] \notin {"start", "queueForDial"}
    BY <1>1 DEF SlotInv, DialStage
  <2>3. \A w \in Reqs \ {c} : dialer[w] = dialer[w] /\ conn'[w] = conn[w]
    BY <2>1 DEF TypeOK
  <2>4. conn'[c] # "open" /\ HoldsSlot(c) /\ dialer \in [Reqs -> DialStates]
    BY <1>1, <2>1 DEF TypeOK, HoldsSlot
  <2>. QED  BY <2>1, <2>2, <2>3, <2>4, DecStep
<1>2. CASE conn[c] # "open"
  BY <1>2, QuietStep DEF closeLocked, Quiet
<1>. QED  BY <1>1, <1>2

\* A caller takes a free slot, or queues up at a host that is at its limit.
LEMMA QueueForDialStep ==
  ASSUME TypeOK, SlotInv, NEW w \in Reqs, queueForDial(w)
  PROVE  SlotInv'
<1>. DEFINE k == KeyOf[w]
            q == connsPerHostWait[KeyOf[w]]
<1>0. k \in Keys /\ q \in Seq(Reqs) /\ connsPerHost[k] \in Nat /\ MaxConnsPerHost \in Nat
  BY PoolAssumption DEF TypeOK
<1>1. dialer[w] = "none" /\ conn[w] = "none" /\ ~HoldsSlot(w)
  BY DEF queueForDial, SlotInv, DialStage, HoldsSlot, TypeOK
<1>2. /\ caller' = [caller EXCEPT ![w] = "select"] /\ caller'[w] = "select"
      /\ UNCHANGED <<done, conn>>
      /\ \A x \in Reqs \ {w} : caller'[x] = caller[x]
  BY DEF queueForDial, connVars, TypeOK
<1>3. \A kk \in Keys : /\ connsPerHostWait[kk] \in Seq(Reqs)
                       /\ w \notin Range(connsPerHostWait[kk])
  <2>. TAKE kk \in Keys
  <2>1. connsPerHostWait[kk] \in Seq(Reqs)
    BY DEF TypeOK
  <2>. QED  BY <1>1, <2>1 DEF SlotInv, WaitQueue, Range
<1>4. ASSUME startDialConnForLocked(w, dialer), UNCHANGED connsPerHostWait
      PROVE  /\ DialStage' /\ WaitQueue'
             /\ \A kk \in Keys : Slots(kk)' = IF kk = k THEN Slots(kk) \cup {w} ELSE Slots(kk)
             /\ \A x \in Reqs : dialer'[x] = "queued" <=> dialer[x] = "queued"
  <2>1. dialer' = [dialer EXCEPT ![w] = "start"]
    BY <1>4 DEF startDialConnForLocked
  <2>0. dialer'[w] = "start" /\ \A x \in Reqs \ {w} : dialer'[x] = dialer[x]
    BY <2>1 DEF TypeOK
  <2>2. DialStage'
    BY <1>1, <1>2, <2>0 DEF SlotInv, DialStage
  <2>3. \A x \in Reqs : dialer'[x] = "queued" <=> dialer[x] = "queued"
    BY <1>1, <2>1 DEF TypeOK
  <2>4. WaitQueue'
    <3>1. \A kk \in Keys : \A i \in DOMAIN connsPerHostWait[kk] : connsPerHostWait[kk][i] \in Reqs
      BY <1>3
    <3>. QED  BY <1>4, <2>3, <3>1 DEF SlotInv, WaitQueue
  <2>5. \A kk \in Keys : Slots(kk)' = IF kk = k THEN Slots(kk) \cup {w} ELSE Slots(kk)
    <3>1. \A x \in Reqs : HoldsSlot(x)' <=> HoldsSlot(x) \/ x = w
      BY <1>2, <2>0 DEF HoldsSlot
    <3>. QED  BY <3>1 DEF Slots
  <2>. QED  BY <2>2, <2>3, <2>4, <2>5
<1>5. CASE MaxConnsPerHost = 0
  <2>1. startDialConnForLocked(w, dialer) /\ UNCHANGED <<connsPerHost, connsPerHostWait>>
    BY <1>0, <1>5 DEF queueForDial
  <2>2. ~(MaxConnsPerHost > 0)
    BY <1>5
  <2>3. NoStrandedWaiter' /\ SlotAccounting'
    BY <1>4, <2>1, <2>2 DEF SlotInv, DialStage, NoStrandedWaiter, SlotAccounting
  <2>. QED  BY <1>4, <2>1, <2>3 DEF SlotInv
<1>6. CASE MaxConnsPerHost > 0 /\ connsPerHost[k] < MaxConnsPerHost
  <2>1. /\ startDialConnForLocked(w, dialer) /\ UNCHANGED connsPerHostWait
        /\ connsPerHost' = [connsPerHost EXCEPT ![k] = @ + 1]
    BY <1>0, <1>6 DEF queueForDial
  <2>2. SlotAccounting'
    <3>. SUFFICES ASSUME NEW kk \in Keys
                  PROVE  /\ connsPerHost'[kk] = Cardinality(Slots(kk)')
                         /\ connsPerHost'[kk] <= MaxConnsPerHost
      BY DEF SlotAccounting
    <3>1. /\ connsPerHost[kk] = Cardinality(Slots(kk))
          /\ connsPerHost[kk] <= MaxConnsPerHost
      BY <1>6 DEF SlotInv, SlotAccounting
    <3>2. CASE kk = k
      <4>1. w \notin Slots(k) /\ IsFiniteSet(Slots(k))
        BY <1>1, FiniteCalls DEF Slots
      <4>2. Cardinality(Slots(k)') = Cardinality(Slots(k)) + 1
        BY <1>0, <1>4, <2>1, <4>1, FS_AddElement
      <4>3. connsPerHost'[k] = connsPerHost[k] + 1
        BY <1>0, <2>1 DEF TypeOK
      <4>. QED  BY <1>0, <1>6, <3>1, <3>2, <4>2, <4>3
    <3>3. CASE kk # k
      BY <1>4, <2>1, <3>1, <3>3 DEF TypeOK
    <3>. QED  BY <3>2, <3>3
  <2>3. NoStrandedWaiter'
    <3>. SUFFICES ASSUME NEW x \in Reqs, dialer'[x] = "queued", x \notin done'
                  PROVE  /\ x \in Range(connsPerHostWait'[KeyOf[x]])
                         /\ connsPerHost'[KeyOf[x]] = MaxConnsPerHost
      BY DEF NoStrandedWaiter
    <3>1. /\ x \in Range(connsPerHostWait[KeyOf[x]])
          /\ connsPerHost[KeyOf[x]] = MaxConnsPerHost
      BY <1>2, <1>4, <2>1 DEF SlotInv, NoStrandedWaiter
    <3>2. KeyOf[x] # k /\ KeyOf[x] \in Keys
      BY <1>0, <1>6, <3>1, PoolAssumption
    <3>. QED  BY <2>1, <3>1, <3>2 DEF TypeOK
  <2>. QED  BY <1>4, <2>1, <2>2, <2>3 DEF SlotInv
<1>7. CASE MaxConnsPerHost > 0 /\ connsPerHost[k] >= MaxConnsPerHost
  <2>1. /\ dialer' = [dialer EXCEPT ![w] = "queued"]
        /\ UNCHANGED connsPerHost
    BY <1>0, <1>7 DEF queueForDial
  <2>2. PICK n \in CleanFront(q, done) :
           connsPerHostWait' = [connsPerHostWait EXCEPT ![k] = CleanPush(q, n, w)]
    BY <1>0, <1>7 DEF queueForDial
  <2>. DEFINE p == CleanPush(q, n, w)
  <2>3. /\ p \in Seq(Reqs) /\ n \in 0 .. Len(q) /\ Len(q) \in Nat
        /\ Len(p) = Len(q) - n + 1
        /\ \A i \in 1 .. Len(q) - n : p[i] = q[n + i]
        /\ p[Len(q) - n + 1] = w
        /\ \A j \in 1 .. n : q[j] \in done
    <3>1. q \in Seq(Reqs) /\ w \in Reqs /\ n \in CleanFront(q, done)
      BY <1>0, <2>2
    <3>2. Len(q) \in Nat
      BY <3>1
    <3>. HIDE DEF q
    <3>3. IsCleanPush(CleanPush(q, n, w), q, n, w, done)
      BY <3>1, CleanPushFacts
    <3>4. IsCleanPush(p, q, n, w, done)
      BY <3>3
    <3>. HIDE DEF p
    <3>. QED  BY <3>2, <3>4 DEF IsCleanPush
  <2>4. connsPerHostWait' = [connsPerHostWait EXCEPT ![k] = p]
    BY <2>2
  <2>. HIDE DEF p
  <2>5. DialStage'
    BY ZenonT(60), <1>1, <1>2, <1>7, <2>1 DEF SlotInv, DialStage, TypeOK
  <2>6. SlotAccounting'
    <3>1. \A kk \in Keys : Slots(kk)' = Slots(kk)
      BY <1>1, <1>2, <2>1 DEF Slots, HoldsSlot, TypeOK
    <3>. QED  BY <2>1, <3>1 DEF SlotInv, SlotAccounting
  <2>7. \A x \in Reqs : dialer'[x] = "queued" <=> dialer[x] = "queued" \/ x = w
    BY <2>1 DEF TypeOK
  <2>8. WaitQueue'
    <3>. SUFFICES ASSUME NEW kk \in Keys, NEW i \in DOMAIN connsPerHostWait'[kk]
                  PROVE  LET x == connsPerHostWait'[kk][i] IN
                         /\ dialer'[x] = "queued" /\ KeyOf[x] = kk
                         /\ \A j \in DOMAIN connsPerHostWait'[kk] :
                               connsPerHostWait'[kk][j] = x => i = j
      BY DEF WaitQueue
    <3>1. CASE kk = k
      <4>1. connsPerHostWait'[kk] = p
        BY <1>0, <2>4, <3>1 DEF TypeOK
      <4>2. DOMAIN p = 1 .. Len(q) - n + 1 /\ i \in 1 .. Len(q) - n + 1
        BY <2>3, <4>1
      <4>3. ASSUME NEW j \in 1 .. Len(q) - n
            PROVE  /\ n + j \in DOMAIN q /\ p[j] = q[n + j] /\ p[j] \in Reqs
                   /\ dialer[p[j]] = "queued" /\ KeyOf[p[j]] = k /\ p[j] # w
        <5>1. n + j \in DOMAIN q /\ p[j] = q[n + j]
          BY <1>0, <2>3
        <5>2. q[n + j] \in Range(q) /\ q[n + j] \in Reqs
          BY <1>0, <5>1 DEF Range
        <5>. QED  BY <1>0, <1>3, <5>1, <5>2 DEF SlotInv, WaitQueue
      <4>4. dialer'[p[i]] = "queued" /\ KeyOf[p[i]] = k
        <5>1. CASE i \in 1 .. Len(q) - n
          BY <2>7, <4>3, <5>1
        <5>2. CASE i = Len(q) - n + 1
          BY <2>3, <2>7, <5>2
        <5>. QED  BY <2>3, <4>2, <5>1, <5>2
      <4>5. ASSUME NEW j \in DOMAIN p, p[j] = p[i] PROVE i = j
        <5>1. CASE i = Len(q) - n + 1 \/ j = Len(q) - n + 1
          BY SMTT(30), <2>3, <4>2, <4>3, <4>5, <5>1
        <5>2. CASE i \in 1 .. Len(q) - n /\ j \in 1 .. Len(q) - n
          <6>1. q[n + i] = q[n + j] /\ n + i \in DOMAIN q /\ n + j \in DOMAIN q
            BY <4>3, <4>5, <5>2
          <6>2. n + i = n + j
            BY <1>0, <6>1 DEF SlotInv, WaitQueue
          <6>. QED  BY <2>3, <5>2, <6>2
        <5>. QED  BY SMTT(40), <2>3, <4>2, <5>1, <5>2
      <4>. QED  BY <3>1, <4>1, <4>4, <4>5
    <3>2. CASE kk # k
      <4>1. connsPerHostWait'[kk] = connsPerHostWait[kk]
        BY <2>4, <3>2 DEF TypeOK
      <4>2. connsPerHostWait[kk][i] \in Reqs
        BY <1>3, <4>1
      <4>. QED  BY <2>7, <4>1, <4>2 DEF SlotInv, WaitQueue
    <3>. QED  BY <3>1, <3>2
  <2>9. NoStrandedWaiter'
    <3>. SUFFICES ASSUME NEW x \in Reqs, dialer'[x] = "queued", x \notin done'
                  PROVE  /\ x \in Range(connsPerHostWait'[KeyOf[x]])
                         /\ connsPerHost'[KeyOf[x]] = MaxConnsPerHost
      BY DEF NoStrandedWaiter
    <3>0. KeyOf[x] \in Keys
      BY PoolAssumption
    <3>1. CASE x = w
      <4>1. connsPerHost[k] <= MaxConnsPerHost
        BY <1>0, <1>7 DEF SlotInv, SlotAccounting
      <4>2. connsPerHost[k] = MaxConnsPerHost
        BY <1>0, <1>7, <4>1
      <4>3. Len(q) - n + 1 \in DOMAIN p
        BY <2>3
      <4>4. w \in Range(p)
        BY <2>3, <4>3 DEF Range
      <4>. QED  BY <1>0, <2>1, <2>4, <3>1, <4>2, <4>4 DEF TypeOK
    <3>2. CASE x # w
      <4>1. /\ x \in Range(connsPerHostWait[KeyOf[x]])
            /\ connsPerHost[KeyOf[x]] = MaxConnsPerHost
        BY <1>2, <2>7, <3>2 DEF SlotInv, NoStrandedWaiter
      <4>2. CASE KeyOf[x] = k
        <5>1. PICK j \in DOMAIN q : x = q[j]
          BY <4>1, <4>2 DEF Range
        <5>2. j \in n + 1 .. Len(q)
          BY <1>0, <1>2, <2>3, <5>1
        <5>3. j - n \in 1 .. Len(q) - n /\ n + (j - n) = j
          BY <2>3, <5>2
        <5>4. DOMAIN p = 1 .. Len(q) - n + 1 /\ p[j - n] = q[n + (j - n)]
          <6>1. DOMAIN p = 1 .. Len(q) - n + 1
            BY <2>3
          <6>2. p[j - n] = q[n + (j - n)]
            BY <2>3, <5>3
          <6>. QED  BY <6>1, <6>2
        <5>5. j - n \in DOMAIN p
          BY <2>3, <5>3, <5>4
        <5>6. x \in Range(p)
          BY <5>1, <5>3, <5>4, <5>5 DEF Range
        <5>. QED  BY <1>0, <2>1, <2>4, <4>1, <4>2, <5>6 DEF TypeOK
      <4>3. CASE KeyOf[x] # k
        BY <2>1, <2>4, <3>0, <4>1, <4>3 DEF TypeOK
      <4>. QED  BY <4>2, <4>3
    <3>. QED  BY <3>1, <3>2
  <2>. QED  BY <2>5, <2>6, <2>8, <2>9 DEF SlotInv
<1>. QED  BY <1>0, <1>5, <1>6, <1>7

\* Every action of the pool keeps SlotInv.
LEMMA SlotInvStep == TypeInv /\ SlotInv /\ [Next]_vars => SlotInv'
<1>. SUFFICES ASSUME TypeInv, SlotInv, [Next]_vars PROVE SlotInv'
  OBVIOUS
<1>0. TypeOK
  BY DEF TypeInv
<1>1. CASE UNCHANGED vars
  BY <1>1, QuietStep DEF Quiet, vars, callVars, dialVars, connVars
<1>2. ASSUME NEW w \in Reqs, queueForIdleConn(w) PROVE SlotInv'
  <2>1. UNCHANGED <<dialVars, conn>>
    BY <1>2 DEF queueForIdleConn, connVars
  <2>2. caller' \in {[caller EXCEPT ![w] = "queueForDial"], [caller EXCEPT ![w] = "select"]}
    BY <1>2 DEF queueForIdleConn, TakeIdle, WaitIdle
  <2>3. done \subseteq done'
    BY <1>2 DEF queueForIdleConn, TakeIdle, WaitIdle
  <2>4. caller[w] = "start"
    BY <1>2 DEF queueForIdleConn
  <2>. QED  BY <1>0, <2>1, <2>2, <2>3, <2>4, QuietStep DEF Quiet, TypeOK
<1>3. ASSUME NEW w \in Reqs, getConnResult(w) \/ getConnCancel(w) \/ UseConn(w)
      PROVE  SlotInv'
  <2>1. UNCHANGED <<dialVars, conn>> /\ done \subseteq done'
    BY <1>3 DEF getConnResult, getConnCancel, UseConn, readLoopDone, roundTripEnd, connVars
  <2>2. caller' \in {[caller EXCEPT ![w] = "returned"], [caller EXCEPT ![w] = "using"]}
    BY <1>3 DEF getConnResult, getConnCancel, UseConn, readLoopDone, roundTripEnd
  <2>. QED  BY <1>0, <2>1, <2>2, QuietStep DEF Quiet, TypeOK
<1>4. ASSUME NEW w \in Reqs, queueForDial(w) PROVE SlotInv'
  BY <1>0, <1>4, QueueForDialStep
<1>5. ASSUME NEW w \in Reqs, dialConnForStart(w) PROVE SlotInv'
  <2>1. PICK v \in {"dec", "dialing"} : dialer' = [dialer EXCEPT ![w] = v]
    BY <1>5 DEF dialConnForStart
  <2>2. HoldsSlot(w)' <=> HoldsSlot(w)
    BY <1>0, <1>5, <2>1 DEF dialConnForStart, HoldsSlot, TypeOK
  <2>3. conn[w] = "none"
    BY <1>0, <1>5 DEF dialConnForStart, SlotInv, DialStage, TypeOK
  <2>. QED  BY <1>0, <1>5, <2>1, <2>2, <2>3, DialMove
            DEF dialConnForStart, callVars, connVars, DialStates
<1>6. ASSUME NEW w \in Reqs, dialConnOK(w) PROVE SlotInv'
  <2>1. HoldsSlot(w)' <=> HoldsSlot(w)
    BY <1>0, <1>6 DEF dialConnOK, HoldsSlot, TypeOK
  <2>2. \A x \in Reqs \ {w} : conn'[x] = conn[x]
    BY <1>0, <1>6 DEF dialConnOK, TypeOK
  <2>. QED  BY <1>0, <1>6, <2>1, <2>2, DialMove DEF dialConnOK, callVars, DialStates
<1>7. ASSUME NEW w \in Reqs, dialConnFail(w) PROVE SlotInv'
  <2>1. HoldsSlot(w)' <=> HoldsSlot(w)
    BY <1>0, <1>7 DEF dialConnFail, HoldsSlot, TypeOK
  <2>2. conn' = conn /\ conn[w] = "none" /\ done \subseteq done'
    BY <1>0, <1>7 DEF dialConnFail, connVars, SlotInv, DialStage, TypeOK, tryDeliver
  <2>. QED  BY <1>0, <1>7, <2>1, <2>2, DialMove DEF dialConnFail, DialStates
<1>8. ASSUME NEW w \in Reqs, dialConnForDeliver(w) \/ dialConnForExit(w) PROVE SlotInv'
  <2>1. conn' = conn /\ done \subseteq done' /\ UNCHANGED <<caller, slotVars>>
    BY <1>8 DEF dialConnForDeliver, dialConnForExit, connVars, callVars, tryDeliver
  <2>2. PICK v \in {"exit", "end"} : dialer' = [dialer EXCEPT ![w] = v]
    BY <1>8 DEF dialConnForDeliver, dialConnForExit
  <2>3. dialer[w] \in {"deliver", "exit"}
    BY <1>8 DEF dialConnForDeliver, dialConnForExit
  <2>4. HoldsSlot(w)' <=> HoldsSlot(w)
    BY <1>0, <2>1, <2>2, <2>3 DEF HoldsSlot, TypeOK
  <2>. QED  BY <1>0, <2>1, <2>2, <2>3, <2>4, DialMove DEF DialStates
<1>9. ASSUME NEW w \in Reqs, dialConnForDec(w) PROVE SlotInv'
  <2>. DEFINE dl == [dialer EXCEPT ![w] = "exit"]
  <2>1. dl \in [Reqs -> DialStates] /\ dl[w] = "exit" /\ \A x \in Reqs \ {w} : dl[x] = dialer[x]
    BY <1>0 DEF TypeOK, DialStates
  <2>2. dialer[w] = "dec" /\ HoldsSlot(w) /\ UNCHANGED <<caller, done, conn>>
    BY <1>9 DEF dialConnForDec, HoldsSlot, callVars, connVars
  <2>3. conn[w] # "open" /\ caller[w] \notin {"start", "queueForDial"}
    BY <2>2 DEF SlotInv, DialStage
  <2>4. decConnsPerHost(KeyOf[w], dl, done)
    BY <1>9 DEF dialConnForDec
  <2>. HIDE DEF dl
  <2>. QED  BY <1>0, <2>1, <2>2, <2>3, <2>4, DecStep
<1>10. ASSUME NEW c \in Reqs, persistConnClose(c) \/ closeIdleClose(c) PROVE SlotInv'
  BY <1>0, <1>10, CloseStep DEF persistConnClose, closeIdleClose, callVars
<1>11. ASSUME NEW c \in Reqs, readLoopExit(c) \/ idleTimer(c) PROVE SlotInv'
  BY <1>11, QuietStep DEF readLoopExit, idleTimer, callVars, connVars, Quiet
<1>12. ASSUME NEW c \in Reqs, closeConnIfStillIdle(c) PROVE SlotInv'
  <2>1. UNCHANGED <<caller, done>>
    BY <1>12 DEF closeConnIfStillIdle, callVars
  <2>2. CASE closeLocked(c, done)
    BY <1>0, <2>1, <2>2, CloseStep
  <2>3. CASE UNCHANGED <<conn, dialVars>>
    BY <2>1, <2>3, QuietStep DEF Quiet
  <2>. QED  BY <1>12, <2>2, <2>3 DEF closeConnIfStillIdle
<1>13. ASSUME CloseIdleConnections \/ closeIdleDials PROVE SlotInv'
  BY <1>13, QuietStep DEF CloseIdleConnections, closeIdleDials, callVars, connVars, Quiet
<1>14. ASSUME NEW a \in Agents, put[a] # "no" PROVE PutConn(a) \in Reqs
  <2>1. PICK x \in {"readLoop", "dialConnFor", "cancel"}, w \in Reqs : a = <<x, w>>
    BY DEF Agents
  <2>. QED  BY <1>14, <2>1 DEF PutConn, TypeInv, HeldTyped
<1>15. ASSUME NEW a \in Agents, tryPutIdleConnCheck(a) PROVE SlotInv'
  BY <1>15, QuietStep DEF tryPutIdleConnCheck, callVars, Quiet
<1>16. ASSUME NEW a \in Agents, putOrCloseIdleConn(a) PROVE SlotInv'
  BY <1>0, <1>14, <1>16, CloseStep DEF putOrCloseIdleConn
<1>17. ASSUME NEW a \in Agents, tryPutIdleConn(a) PROVE SlotInv'
  <2>1. UNCHANGED caller /\ PutConn(a) \in Reqs
    BY <1>14, <1>17 DEF tryPutIdleConn
  <2>2. done \subseteq done'
    BY <1>17 DEF tryPutIdleConn, tryDeliver
  <2>3. CASE UNCHANGED <<conn, dialVars>>
    BY <2>1, <2>2, <2>3, QuietStep DEF Quiet
  <2>4. ASSUME NEW d, d \subseteq done', Park(PutConn(a), KeyOf[PutConn(a)], d)
        PROVE  SlotInv'
    <3>. DEFINE lru == <<PutConn(a)>> \o idleLRU
    <3>1. lru[Len(lru)] \in Reqs
      <4>1. idleLRU \in Seq(Reqs)
        BY <1>0 DEF TypeOK
      <4>2. lru \in Seq(Reqs) /\ Len(lru) = 1 + Len(idleLRU) /\ Len(idleLRU) \in Nat
        BY <2>1, <4>1
      <4>. QED  BY <4>2
    <3>2. CASE closeLocked(lru[Len(lru)], d)
      BY <1>0, <2>1, <2>2, <2>4, <3>1, <3>2, CloseStep
    <3>3. CASE UNCHANGED <<conn, dialVars>>
      BY <2>3, <3>3
    <3>. QED  BY <2>4, <3>2, <3>3 DEF Park
  <2>5. ASSUME NEW d, d \subseteq done', PutIdle(a, PutConn(a), d) PROVE SlotInv'
    BY <2>3, <2>4, <2>5 DEF PutIdle
  <2>. QED  BY <1>17, <2>3, <2>5 DEF tryPutIdleConn
<1>. QED
  BY <1>1, <1>2, <1>3, <1>4, <1>5, <1>6, <1>7, <1>8, <1>9, <1>10, <1>11, <1>12, <1>13,
     <1>15, <1>16, <1>17
     DEF Next, getConn, dialConnFor, CloseConn, PutBack

\* A new Transport satisfies SlotInv.
LEMMA SlotInvInit == Init => SlotInv
<1>. SUFFICES ASSUME Init PROVE SlotInv
  OBVIOUS
<1>1. DialStage
  BY DEF Init, DialStage
<1>2. WaitQueue
  BY DEF Init, WaitQueue
<1>3. SlotAccounting
  <2>1. \A k \in Keys : Slots(k) = {}
    BY DEF Init, Slots, HoldsSlot
  <2>2. MaxConnsPerHost \in Nat
    BY PoolAssumption
  <2>. QED  BY <2>1, <2>2, FS_EmptySet DEF Init, SlotAccounting
<1>4. NoStrandedWaiter
  BY DEF Init, NoStrandedWaiter
<1>. QED  BY <1>1, <1>2, <1>3, <1>4 DEF SlotInv

\* Whatever the number of calls, hosts and connections allowed, connsPerHost
\* counts exactly the dials and open connections of a host and respects
\* MaxConnsPerHost.
THEOREM SlotsExact == Spec => []SlotAccounting
<1>1. Init => TypeInv /\ SlotInv
  BY TypeInvInit, SlotInvInit
<1>2. TypeInv /\ SlotInv /\ [Next]_vars => (TypeInv /\ SlotInv)'
  BY TypeInvStep, SlotInvStep
<1>3. SlotInv => SlotAccounting
  BY DEF SlotInv
<1>. QED  BY <1>1, <1>2, <1>3, PTL DEF Spec

\* No freed slot is lost: a caller that still waits for permission to dial is
\* queued at a host that is really at its limit.
THEOREM NoSlotLost == Spec => []NoStrandedWaiter
<1>1. Init => TypeInv /\ SlotInv
  BY TypeInvInit, SlotInvInit
<1>2. TypeInv /\ SlotInv /\ [Next]_vars => (TypeInv /\ SlotInv)'
  BY TypeInvStep, SlotInvStep
<1>3. SlotInv => NoStrandedWaiter
  BY DEF SlotInv
<1>. QED  BY <1>1, <1>2, <1>3, PTL DEF Spec
=============================================================================
