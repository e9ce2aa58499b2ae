--------------------------- MODULE ConnPoolOwners ---------------------------
(***************************************************************************)
(* Proofs about who has a connection of the pool, for any number of calls, *)
(* hosts and limits: an HTTP/1 connection is in one hand, the idle lists   *)
(* agree, no internal panic is reached, the idle timeout spares what is in *)
(* use, running dials can be found, and no connection is lost.             *)
(***************************************************************************)
EXTENDS ConnPoolProofs

-----------------------------------------------------------------------------
(* Lists without duplicates.                                               *)

Distinct(q) == \A i, j \in DOMAIN q : q[i] = q[j] => i = j

\* Removing a connection from an idle list (removeIdleConnLocked, connLRU.remove).
LEMMA WithoutFacts ==
  ASSUME NEW q \in Seq(Reqs), NEW c, Distinct(q)
  PROVE  LET p == Without(q, c) IN
         /\ p \in Seq(Reqs) /\ Distinct(p) /\ Len(p) <= Len(q)
         /\ Range(p) = Range(q) \ {c}
<1>0. Without(q, c) \in Seq(Reqs)
  BY WithoutType
<1>1. CASE c \notin Range(q)
  BY <1>1 DEF Without
<1>2. CASE c \in Range(q)
  <2>. DEFINE n == CHOOSE i \in DOMAIN q : q[i] = c /\ \A j \in 1 .. i - 1 : q[j] # c
              p == [j \in 1 .. Len(q) - 1 |-> IF j < n THEN q[j] ELSE q[j + 1]]
  <2>1. Without(q, c) = p
    BY <1>2 DEF Without
  <2>2. \E i \in DOMAIN q : q[i] = c /\ \A j \in 1 .. i - 1 : q[j] # c
    <3>1. PICK i \in DOMAIN q : q[i] = c
      BY <1>2 DEF Range
    <3>2. \A j \in 1 .. i - 1 : q[j] # c
      BY <3>1 DEF Distinct
    <3>. QED  BY <3>1, <3>2
  <2>3. n \in 1 .. Len(q) /\ q[n] = c
    BY <2>2
  <2>. HIDE DEF n
  <2>4. Len(q) \in Nat /\ DOMAIN q = 1 .. Len(q) /\ Len(q) - 1 \in Nat
    BY <2>3
  <2>5. DOMAIN p = 1 .. Len(q) - 1 /\ Len(p) = Len(q) - 1
    BY <2>4, <2>1, <1>0
  <2>6. \A j \in 1 .. Len(q) - 1 : p[j] = IF j < n THEN q[j] ELSE q[j + 1]
    OBVIOUS
  <2>. HIDE DEF p
  <2>7. Distinct(p)
    <3>. SUFFICES ASSUME NEW i \in 1 .. Len(q) - 1, NEW j \in 1 .. Len(q) - 1, p[i] = p[j]
                  PROVE  i = j
      BY <2>5 DEF Distinct
    <3>1. PICK x \in 1 .. Len(q) : p[i] = q[x] /\ x = IF i < n THEN i ELSE i + 1
      BY <2>3, <2>4, <2>6
    <3>2. PICK y \in 1 .. Len(q) : p[j] = q[y] /\ y = IF j < n THEN j ELSE j + 1
      BY <2>3, <2>4, <2>6
    <3>3. x = y
      BY <3>1, <3>2, <2>4 DEF Distinct
    <3>. QED  BY <3>1, <3>2, <3>3, <2>3, <2>4
  <2>8. Range(p) \subseteq Range(q) \ {c}
    <3>. SUFFICES ASSUME NEW j \in 1 .. Len(q) - 1 PROVE p[j] \in Range(q) /\ p[j] # c
      BY <2>5 DEF Range
    <3>1. PICK x \in 1 .. Len(q) : p[j] = q[x] /\ x # n
      BY <2>3, <2>4, <2>6
    <3>. QED  BY <3>1, <2>3, <2>4 DEF Range, Distinct
  <2>9. Range(q) \ {c} \subseteq Range(p)
    <3>. SUFFICES ASSUME NEW x \in 1 .. Len(q), q[x] # c PROVE q[x] \in Range(p)
      BY <2>4 DEF Range
    <3>1. PICK j \in 1 .. Len(q) - 1 : p[j] = q[x]
      <4>1. CASE x < n
        BY <4>1, <2>3, <2>4, <2>6
      <4>2. CASE x > n
        <5>1. x - 1 \in 1 .. Len(q) - 1 /\ ~(x - 1 < n) /\ x - 1 + 1 = x
          BY <4>2, <2>3, <2>4
        <5>. QED  BY <5>1, <2>6
      <4>. QED  BY <4>1, <4>2, <2>3, <2>4
    <3>. QED  BY <3>1, <2>5 DEF Range
  <2>. QED  BY <1>0, <2>1, <2>4, <2>5, <2>7, <2>8, <2>9
<1>. QED  BY <1>1, <1>2

\* The first m entries of a list (queueForIdleConn keeps them, the LRU all but
\* the oldest).
LEMMA PrefixFacts ==
  ASSUME NEW q \in Seq(Reqs), NEW m \in 0 .. Len(q)
  PROVE  LET p == SubSeq(q, 1, m) IN
         /\ p \in Seq(Reqs) /\ Len(p) = m
         /\ \A i \in 1 .. m : p[i] = q[i]
         /\ Range(p) = {q[i] : i \in 1 .. m}
         /\ Distinct(q) => Distinct(p)
<1>. DEFINE p == SubSeq(q, 1, m)
<1>1. Len(q) \in Nat /\ m \in Int /\ \A i \in 1 .. m : q[i] \in Reqs
  OBVIOUS
<1>2. /\ p \in Seq(Reqs) /\ Len(p) = IF 1 <= m THEN m - 1 + 1 ELSE 0
      /\ \A i \in 1 .. m - 1 + 1 : p[i] = q[1 + i - 1]
  BY <1>1, SubSeqProperties
<1>. HIDE DEF p
<1>3. Len(p) = m /\ DOMAIN p = 1 .. m
  BY <1>1, <1>2
<1>4. \A i \in 1 .. m : p[i] = q[i]
  <2>. TAKE i \in 1 .. m
  <2>1. i \in 1 .. m - 1 + 1 /\ 1 + i - 1 = i
    BY <1>1
  <2>. QED  BY <1>2, <2>1
<1>5. Range(p) = {q[i] : i \in 1 .. m}
  BY <1>3, <1>4 DEF Range
<1>6. Distinct(q) => Distinct(p)
  BY <1>1, <1>3, <1>4 DEF Distinct
<1>. QED  BY <1>2, <1>3, <1>4, <1>5, <1>6 DEF p

\* Adding a connection at the end of an idle list.
LEMMA AppendFacts ==
  ASSUME NEW q \in Seq(Reqs), NEW c \in Reqs
  PROVE  LET p == Append(q, c) IN
         /\ p \in Seq(Reqs) /\ Len(p) = Len(q) + 1
         /\ Range(p) = Range(q) \cup {c}
         /\ Distinct(q) /\ c \notin Range(q) => Distinct(p)
<1>. DEFINE p == Append(q, c)
<1>1. /\ p \in Seq(Reqs) /\ Len(p) = Len(q) + 1 /\ Len(q) \in Nat
      /\ \A i \in 1 .. Len(q) : p[i] = q[i]
      /\ p[Len(q) + 1] = c
  OBVIOUS
<1>. HIDE DEF p
<1>2. DOMAIN p = 1 .. Len(q) + 1 /\ DOMAIN q = 1 .. Len(q)
  BY <1>1
<1>3. Range(p) = Range(q) \cup {c}
  BY <1>1, <1>2 DEF Range
<1>4. Distinct(q) /\ c \notin Range(q) => Distinct(p)
  BY <1>1, <1>2 DEF Range, Distinct
<1>. QED  BY <1>1, <1>3, <1>4 DEF p

\* Adding a connection at the front of the LRU list.
LEMMA PushFacts ==
  ASSUME NEW q \in Seq(Reqs), NEW c \in Reqs
  PROVE  LET p == <<c>> \o q IN
         /\ p \in Seq(Reqs) /\ Len(p) = Len(q) + 1
         /\ p[1] = c /\ \A i \in 1 .. Len(q) : p[i + 1] = q[i]
         /\ Range(p) = Range(q) \cup {c}
         /\ Distinct(q) /\ c \notin Range(q) => Distinct(p)
<1>. DEFINE p == <<c>> \o q
<1>1. /\ p \in Seq(Reqs) /\ Len(p) = Len(q) + 1 /\ Len(q) \in Nat
      /\ p[1] = c
      /\ \A i \in 1 .. Len(q) : p[i + 1] = q[i]
  OBVIOUS
<1>. HIDE DEF p
<1>2. DOMAIN p = 1 .. Len(q) + 1 /\ DOMAIN q = 1 .. Len(q)
  BY <1>1
<1>3. \A j \in 1 .. Len(q) + 1 : j # 1 => j - 1 \in 1 .. Len(q) /\ p[j] = q[j - 1]
  <2>. SUFFICES ASSUME NEW j \in 1 .. Len(q) + 1, j # 1
                PROVE  j - 1 \in 1 .. Len(q) /\ p[j] = q[j - 1]
    OBVIOUS
  <2>1. j - 1 \in 1 .. Len(q) /\ j - 1 + 1 = j
    BY <1>1
  <2>. QED  BY <1>1, <2>1
<1>4. Range(p) = Range(q) \cup {c}
  <2>1. Range(p) \subseteq Range(q) \cup {c}
    <3>. SUFFICES ASSUME NEW j \in 1 .. Len(q) + 1 PROVE p[j] \in Range(q) \cup {c}
      BY <1>2 DEF Range
    <3>1. CASE j = 1
      BY <3>1, <1>1
    <3>2. CASE j # 1
      <4>1. j - 1 \in DOMAIN q /\ p[j] = q[j - 1]
        BY <3>2, <1>2, <1>3
      <4>. QED  BY <4>1 DEF Range
    <3>. QED  BY <3>1, <3>2
  <2>2. Range(q) \subseteq Range(p)
    <3>. SUFFICES ASSUME NEW i \in 1 .. Len(q) PROVE q[i] \in Range(p)
      BY <1>2 DEF Range
    <3>1. i + 1 \in 1 .. Len(q) + 1 /\ p[i + 1] = q[i]
      BY <1>1
    <3>. QED  BY <3>1, <1>2 DEF Range
  <2>3. c \in Range(p)
    BY <1>1, <1>2 DEF Range
  <2>. QED  BY <2>1, <2>2, <2>3
<1>5. ASSUME Distinct(q), c \notin Range(q) PROVE Distinct(p)
  <2>. SUFFICES ASSUME NEW i \in 1 .. Len(q) + 1, NEW j \in 1 .. Len(q) + 1, p[i] = p[j]
                PROVE  i = j
    BY <1>2 DEF Distinct
  <2>1. \A n \in 1 .. Len(q) : q[n] # c
    BY <1>2, <1>5 DEF Range
  <2>2. CASE i = 1 \/ j = 1
    BY <1>1, <1>3, <2>1, <2>2
  <2>3. CASE i # 1 /\ j # 1
    <3>1. i - 1 \in DOMAIN q /\ j - 1 \in DOMAIN q /\ q[i - 1] = q[j - 1]
      BY <1>2, <1>3, <2>3
    <3>2. i - 1 = j - 1
      BY <1>5, <3>1 DEF Distinct
    <3>. QED  BY <1>1, <3>2
  <2>. QED  BY <2>2, <2>3
<1>. QED  BY <1>1, <1>4, <1>5 DEF p

-----------------------------------------------------------------------------
(* What starting a dial and closing a connection do to the dials.          *)

\* startDialConnForLocked records the new dial and forgets only finished ones.
LEMMA StartFacts ==
  ASSUME TypeOK, NEW w \in Reqs, NEW dl, startDialConnForLocked(w, dl)
  PROVE  /\ dialer' = [dl EXCEPT ![w] = "start"]
         /\ w \in Range(dialsInProgress')
         /\ \A x \in Range(dialsInProgress) : dl[x] # "end" => x \in Range(dialsInProgress')
<1>. DEFINE q == dialsInProgress
            d == {x \in Reqs : dl[x] = "end"}
<1>1. PICK n \in CleanFront(q, d) : dialsInProgress' = CleanPush(q, n, w)
  BY DEF startDialConnForLocked
<1>. DEFINE p == CleanPush(q, n, w)
<1>2. q \in Seq(Reqs) /\ Len(q) \in Nat /\ DOMAIN q = 1 .. Len(q)
  <2>1. q \in Seq(Reqs)
    BY DEF TypeOK
  <2>. QED  BY <2>1
<1>3. IsCleanPush(p, q, n, w, d)
  BY <1>2, CleanPushFacts
<1>4. /\ n \in 0 .. Len(q) /\ Len(p) = Len(q) - n + 1 /\ DOMAIN p = 1 .. Len(q) - n + 1
      /\ \A i \in 1 .. Len(q) - n : p[i] = q[n + i]
      /\ p[Len(q) - n + 1] = w
      /\ \A j \in 1 .. n : dl[q[j]] = "end"
  <2>. HIDE DEF p, q
  <2>. QED  BY <1>2, <1>3 DEF IsCleanPush
<1>. HIDE DEF p, q
<1>5. w \in Range(p)
  <2>1. Len(q) - n + 1 \in DOMAIN p
    BY <1>2, <1>4
  <2>. QED  BY <1>4, <2>1 DEF Range
<1>6. ASSUME NEW x \in Range(q), dl[x] # "end" PROVE x \in Range(p)
  <2>1. PICK j \in 1 .. Len(q) : x = q[j]
    BY <1>2 DEF Range
  <2>2. j - n \in 1 .. Len(q) - n /\ n + (j - n) = j
    BY <1>2, <1>4, <1>6, <2>1
  <2>3. j - n \in DOMAIN p /\ p[j - n] = q[n + (j - n)]
    BY <1>2, <1>4, <2>2
  <2>. QED  BY <2>1, <2>2, <2>3 DEF Range
<1>. QED  BY <1>1, <1>5, <1>6 DEF startDialConnForLocked, p, q

\* Giving back a slot that is really held is never the underflow panic; it may
\* start the dial of a queued call, and every running dial stays recorded.
LEMMA DecFacts ==
  ASSUME TypeOK, SlotInv, NEW x \in Reqs, HoldsSlot(x),
         NEW dl \in [Reqs -> DialStates], NEW d,
         decConnsPerHost(KeyOf[x], dl, d)
  PROVE  /\ panics' = panics
         /\ \A w \in Reqs : \/ dialer'[w] = dl[w]
                            \/ /\ dialer[w] = "queued" /\ dialer'[w] = "start"
                               /\ w \in Range(dialsInProgress')
         /\ \A w \in Range(dialsInProgress) :
               dl[w] # "end" => w \in Range(dialsInProgress')
<1>. DEFINE k == KeyOf[x]
            q == connsPerHostWait[KeyOf[x]]
<1>0. k \in Keys /\ q \in Seq(Reqs) /\ connsPerHost[k] \in Nat /\ MaxConnsPerHost \in Nat
  BY PoolAssumption DEF TypeOK
<1>1. CASE MaxConnsPerHost = 0
  BY <1>0, <1>1 DEF decConnsPerHost, slotVars
<1>2. CASE MaxConnsPerHost > 0
  <2>1. x \in Slots(k) /\ IsFiniteSet(Slots(k)) /\ connsPerHost[k] = Cardinality(Slots(k))
    BY <1>0, <1>2, FiniteCalls DEF Slots, SlotInv, SlotAccounting
  <2>2. connsPerHost[k] # 0
    BY <2>1, FS_EmptySet
  <2>3. /\ UNCHANGED panics
        /\ \/ \E i \in DOMAIN q : startDialConnForLocked(q[i], dl)
           \/ dialer' = dl /\ UNCHANGED dialsInProgress
    BY <1>0, <1>2, <2>2 DEF decConnsPerHost
  <2>4. ASSUME NEW i \in DOMAIN q, startDialConnForLocked(q[i], dl)
        PROVE  /\ \A w \in Reqs : \/ dialer'[w] = dl[w]
                                  \/ /\ dialer[w] = "queued" /\ dialer'[w] = "start"
                                     /\ w \in Range(dialsInProgress')
               /\ \A w \in Range(dialsInProgress) :
                     dl[w] # "end" => w \in Range(dialsInProgress')
    <3>1. q[i] \in Reqs /\ dialer[q[i]] = "queued"
      BY <1>0 DEF SlotInv, WaitQueue
    <3>. HIDE DEF q
    <3>. QED  BY <2>4, <3>1, StartFacts
  <2>. QED  BY <2>3, <2>4
<1>. QED  BY <1>0, <1>1, <1>2

\* What the first or a repeated close of a connection changes.
Closed(c) ==
    /\ panics' = panics
    /\ \A w \in Reqs : conn'[w] = IF w = c /\ conn[c] = "open" THEN "closed" ELSE conn[w]
    /\ \A w \in Reqs : \/ dialer'[w] = dialer[w]
                       \/ /\ dialer[w] = "queued" /\ dialer'[w] = "start"
                          /\ w \in Range(dialsInProgress')
    /\ \A w \in Range(dialsInProgress) :
          dialer[w] # "end" => w \in Range(dialsInProgress')

\* persistConn.closeLocked closes that connection and no other.
LEMMA CloseFacts ==
  ASSUME TypeOK, SlotInv, NEW c \in Reqs, NEW d, closeLocked(c, d)
  PROVE  Closed(c)
<1>1. CASE conn[c] = "open"
  <2>1. conn' = [conn EXCEPT ![c] = "closed"] /\ decConnsPerHost(KeyOf[c], dialer, d)
    BY <1>1 DEF closeLocked
  <2>2. HoldsSlot(c) /\ dialer \in [Reqs -> DialStates]
    BY <1>1 DEF HoldsSlot, TypeOK
  <2>. QED  BY <1>1, <2>1, <2>2, DecFacts DEF Closed, TypeOK
<1>2. CASE conn[c] # "open"
  BY <1>2 DEF closeLocked, dialVars, slotVars, Closed
<1>. QED  BY <1>1, <1>2

-----------------------------------------------------------------------------
(* Who has a connection.                                                   *)

\* The entry <<t, x>> of Owners(c): connection c is in the hands of x as t.
Own(t, x, c) ==
    \/ t = "dial"   /\ x = c /\ dialer[c] = "deliver"
    \/ t = "result" /\ x \in Reqs /\ result[x] = c
    \/ t = "using"  /\ x \in Reqs /\ caller[x] = "using" /\ held[x] = c
    \/ t = "put"    /\ x \in Agents /\ put[x] # "no" /\ PutConn(x) = c
    \/ t = "idle"   /\ x = c /\ c \in Range(idleLRU)
    \/ t = "doomed" /\ x = c /\ c \in doomed

\* An HTTP/1 connection has at most one owner.
OneOwner ==
    \A c \in Reqs \ alt : \A s, t, x, y : Own(s, x, c) /\ Own(t, y, c) => s = t /\ x = y

\* A connection that was not dialled yet has no owner.
Dialled == \A c \in Reqs : conn[c] = "none" => \A t, x : ~Own(t, x, c)

\* The result channel of an unanswered wantConn is empty.
Answered == \A w \in Reqs : w \notin done => result[w] = NoConn

\* The idle lists and the LRU list name every connection once, an idle list
\* only connections of its host that are in the LRU list; both are limited.
IdleLists ==
    /\ Distinct(idleLRU)
    /\ MaxIdleConns > 0 => Len(idleLRU) <= MaxIdleConns
    /\ \A k \in Keys :
         /\ Distinct(idleConn[k])
         /\ \A c \in Range(idleConn[k]) : KeyOf[c] = k /\ c \in Range(idleLRU)
         /\ idleConn[k] # <<>> => Len(idleConn[k]) <= maxIdleConnsPerHost

\* A step after which c has no new owner, or one owner only, or may be shared.
Passed(c) ==
    \/ \A t, x : Own(t, x, c)' => Own(t, x, c)
    \/ /\ conn'[c] # "none"
       /\ \/ c \in alt'
          \/ \E s, y : \A t, x : Own(t, x, c)' => t = s /\ x = y

\* A step that passes every connection on keeps it in one hand.
LEMMA PassedStep ==
  ASSUME OneOwner, Dialled, alt \subseteq alt',
         \A c \in Reqs : conn'[c] = "none" => conn[c] = "none",
         \A c \in Reqs : Passed(c)
  PROVE  OneOwner' /\ Dialled'
<1>1. OneOwner'
  <2>. SUFFICES ASSUME NEW c \in Reqs \ alt', NEW s, NEW t, NEW x, NEW y,
                       Own(s, x, c)', Own(t, y, c)'
                PROVE  s = t /\ x = y
    BY DEF OneOwner
  <2>1. Passed(c) /\ c \in Reqs \ alt
    OBVIOUS
  <2>2. CASE \A r, z : Own(r, z, c)' => Own(r, z, c)
    BY <2>1, <2>2 DEF OneOwner
  <2>3. CASE \E r, z : \A tt, xx : Own(tt, xx, c)' => tt = r /\ xx = z
    BY <2>3
  <2>. QED  BY <2>1, <2>2, <2>3 DEF Passed
<1>2. Dialled'
  BY DEF Dialled, Passed
<1>. QED  BY <1>1, <1>2

\* Where an agent that hands back connection c finds it.
LEMMA Agent ==
  ASSUME NEW a \in Agents
  PROVE  \/ \E x \in Reqs : a = <<"readLoop", x>> /\ PutConn(a) = x /\ PutConn(a)' = x
         \/ \E x \in Reqs : a = <<"dialConnFor", x>> /\ PutConn(a) = x /\ PutConn(a)' = x
         \/ \E x \in Reqs : a = <<"cancel", x>> /\ PutConn(a) = held[x] /\ PutConn(a)' = held'[x]
  BY DEF Agents, PutConn

\* A step in which only y, as s, can become an owner of c.
Gain(c, s, y) ==
    /\ dialer'[c] = "deliver" => dialer[c] = "deliver" \/ (s = "dial" /\ y = c)
    /\ \A x \in Reqs : result'[x] = c => result[x] = c \/ (s = "result" /\ y = x)
    /\ \A x \in Reqs : caller'[x] = "using" /\ held'[x] = c =>
                           (caller[x] = "using" /\ held[x] = c) \/ (s = "using" /\ y = x)
    /\ \A x \in Agents : put'[x] # "no" /\ PutConn(x)' = c =>
                             (put[x] # "no" /\ PutConn(x) = c) \/ (s = "put" /\ y = x)
    /\ c \in Range(idleLRU') => c \in Range(idleLRU) \/ (s = "idle" /\ y = c)
    /\ c \in doomed' => c \in doomed \/ (s = "doomed" /\ y = c)

NoGain(c) == Gain(c, "nobody", "nobody")

\* A connection gains an owner only where one of the pool's tables gains it.
LEMMA Gains ==
  ASSUME NEW c \in Reqs, NEW s, NEW y, Gain(c, s, y)
  PROVE  \A t, x : Own(t, x, c)' => Own(t, x, c) \/ (t = s /\ x = y)
<1>. USE DEF Gain
<1>. SUFFICES ASSUME NEW t, NEW x, Own(t, x, c)' PROVE Own(t, x, c) \/ (t = s /\ x = y)
  OBVIOUS
<1>1. CASE t = "dial" /\ x = c /\ dialer'[c] = "deliver"
  BY <1>1 DEF Own
<1>2. CASE t = "result" /\ x \in Reqs /\ result'[x] = c
  BY <1>2 DEF Own
<1>3. CASE t = "using" /\ x \in Reqs /\ caller'[x] = "using" /\ held'[x] = c
  BY <1>3 DEF Own
<1>4. CASE t = "put" /\ x \in Agents /\ put'[x] # "no" /\ PutConn(x)' = c
  BY <1>4 DEF Own
<1>5. CASE t = "idle" /\ x = c /\ c \in Range(idleLRU')
  BY <1>5 DEF Own
<1>6. CASE t = "doomed" /\ x = c /\ c \in doomed'
  BY <1>6 DEF Own
<1>. QED  BY <1>1, <1>2, <1>3, <1>4, <1>5, <1>6 DEF Own

\* A step that gives the connection to nobody passes it on.
LEMMA NoGainPassed == \A c \in Reqs : NoGain(c) => Passed(c)
<1>. SUFFICES ASSUME NEW c \in Reqs, NoGain(c) PROVE Passed(c)
  OBVIOUS
<1>1. \A t, x : Own(t, x, c)' => Own(t, x, c) \/ (t = "nobody" /\ x = "nobody")
  BY Gains DEF NoGain
<1>2. ~Own("nobody", "nobody", c)'
  BY DEF Own
<1>. QED  BY <1>1, <1>2 DEF Passed

\* The hand-over of a connection: its owner lets go of it as another gets it.
LEMMA HandOver ==
  ASSUME OneOwner, Dialled, NEW c \in Reqs, NEW r, NEW z, NEW s, NEW y,
         UNCHANGED <<conn, alt>>, Own(r, z, c), c \in alt \/ ~Own(r, z, c)', Gain(c, s, y)
  PROVE  Passed(c)
<1>1. conn'[c] # "none"
  BY DEF Dialled
<1>2. \A t, x : Own(t, x, c)' => Own(t, x, c) \/ (t = s /\ x = y)
  BY Gains
<1>3. CASE c \notin alt
  BY <1>1, <1>2, <1>3 DEF OneOwner, Passed
<1>. QED  BY <1>1, <1>3 DEF Passed

\* The agent a is done; the others keep what they hand back, and the callers
\* what they use.
LEMMA EndPutFacts ==
  ASSUME TypeInv, NEW a \in Agents, put[a] # "no", EndPut(a)
  PROVE  /\ put'[a] = "no"
         /\ \A b \in Agents \ {a} : put'[b] = put[b] /\ PutConn(b)' = PutConn(b)
         /\ \A x \in Reqs : caller[x] = "using" => held'[x] = held[x]
<1>0. put \in [Agents -> {"no", "check", "lock", "close"}] /\ held \in [Reqs -> Reqs \cup {NoConn}]
  BY DEF TypeInv, TypeOK
<1>1. put' = [put EXCEPT ![a] = "no"]
  BY DEF EndPut
<1>2. CASE a[1] # "cancel"
  <2>1. held' = held
    BY <1>2 DEF EndPut
  <2>. QED  BY <1>0, <1>1, <2>1 DEF PutConn
<1>3. CASE a[1] = "cancel"
  <2>1. PICK w \in Reqs : a = <<"cancel", w>>
    BY <1>3 DEF Agents
  <2>2. held' = [held EXCEPT ![w] = NoConn] /\ caller[w] = "returned"
    BY <1>3, <2>1 DEF EndPut, TypeInv, HeldTyped
  <2>3. \A b \in Agents \ {a} : PutConn(b)' = PutConn(b)
    BY <1>0, <2>1, <2>2, Agent
  <2>. QED  BY <1>0, <1>1, <2>2, <2>3
<1>. QED  BY <1>2, <1>3

\* Every action but tryPutIdleConn passes each connection on.
LEMMA SimplePassed ==
  ASSUME TypeInv, SlotInv, OneOwner, Dialled, IdleLists, Next,
         ~ \E a \in Agents : tryPutIdleConn(a)
  PROVE  \A c \in Reqs : Passed(c)
<1>0. TypeOK
  BY DEF TypeInv
<1>1. ASSUME NEW w \in Reqs, queueForIdleConn(w), NEW c \in Reqs PROVE Passed(c)
  <2>. DEFINE list == idleConn[KeyOf[w]]
  <2>1. KeyOf[w] \in Keys /\ list \in Seq(Reqs) /\ idleLRU \in Seq(Reqs)
    BY <1>0, PoolAssumption DEF TypeOK
  <2>2. UNCHANGED <<held, dialer, conn, alt, put, doomed>>
    BY <1>1 DEF queueForIdleConn, dialVars, connVars
  <2>3. CASE UNCHANGED <<result, idleLRU>> /\ caller' = [caller EXCEPT ![w] = "queueForDial"]
    <3>1. NoGain(c)
      BY <1>0, <2>2, <2>3 DEF NoGain, Gain, PutConn, TypeOK
    <3>. QED  BY <3>1, NoGainPassed
  <2>4. ASSUME NEW m \in 1 .. Len(list), TakeIdle(w, list, m) PROVE Passed(c)
    <3>. DEFINE p == list[m]
    <3>1. p \in Reqs /\ p \in Range(list)
      BY <2>1 DEF Range
    <3>2. p \in Range(idleLRU)
      BY <2>1, <3>1 DEF IdleLists
    <3>3. /\ caller' = [caller EXCEPT ![w] = "select"]
          /\ result' = [result EXCEPT ![w] = p]
          /\ idleLRU' = IF p \in alt THEN idleLRU ELSE Without(idleLRU, p)
      BY <2>4 DEF TakeIdle
    <3>4. Range(Without(idleLRU, p)) = Range(idleLRU) \ {p}
      BY <2>1, WithoutFacts DEF IdleLists
    <3>. HIDE DEF p
    <3>5. CASE c = p
      <4>1. Own("idle", c, c) /\ (c \in alt \/ ~Own("idle", c, c)')
        BY <2>2, <3>2, <3>3, <3>4, <3>5 DEF Own
      <4>2. Gain(c, "result", w)
        BY <1>0, <2>2, <3>3, <3>4 DEF Gain, PutConn, TypeOK
      <4>. QED  BY <2>2, <4>1, <4>2, HandOver
    <3>6. CASE c # p
      <4>1. NoGain(c)
        BY <1>0, <2>2, <3>3, <3>4, <3>6 DEF NoGain, Gain, PutConn, TypeOK
      <4>. QED  BY <4>1, NoGainPassed
    <3>. QED  BY <3>5, <3>6
  <2>. QED  BY <1>1, <2>3, <2>4 DEF queueForIdleConn, WaitIdle, idleVars
<1>2. ASSUME NEW w \in Reqs, queueForDial(w), NEW c \in Reqs PROVE Passed(c)
  <2>1. UNCHANGED <<result, held, put, idleLRU, doomed>> /\ caller' = [caller EXCEPT ![w] = "select"]
    BY <1>2 DEF queueForDial, idleVars, stopVars
  <2>2. PICK v \in {"start", "queued"} : dialer' = [dialer EXCEPT ![w] = v]
    BY <1>2 DEF queueForDial, startDialConnForLocked
  <2>3. NoGain(c)
    BY <1>0, <2>1, <2>2 DEF NoGain, Gain, PutConn, TypeOK
  <2>. QED  BY <2>3, NoGainPassed
<1>3. ASSUME NEW w \in Reqs, getConnResult(w), NEW c \in Reqs PROVE Passed(c)
  <2>1. UNCHANGED <<dialer, put, idleLRU, doomed, conn, alt>> /\ result' = [result EXCEPT ![w] = NoConn]
    BY <1>3 DEF getConnResult, idleVars, stopVars, dialVars, connVars
  <2>2. NoConn \notin Reqs /\ put[<<"cancel", w>>] = "no"
    BY <1>3, PoolAssumption DEF getConnResult, TypeInv, HeldTyped
  <2>3. CASE caller' = [caller EXCEPT ![w] = "returned"] /\ UNCHANGED held
    <3>1. NoGain(c)
      BY <1>0, <2>1, <2>2, <2>3 DEF NoGain, Gain, PutConn, TypeOK
    <3>. QED  BY <3>1, NoGainPassed
  <2>4. CASE /\ result[w] # DialErr /\ caller' = [caller EXCEPT ![w] = "using"]
             /\ held' = [held EXCEPT ![w] = result[w]]
    <3>1. \A a \in Agents : put'[a] # "no" => put[a] # "no" /\ PutConn(a)' = PutConn(a)
      BY <1>0, <2>1, <2>2, <2>4, Agent DEF TypeOK
    <3>2. CASE c = result[w]
      <4>1. Own("result", w, c) /\ ~Own("result", w, c)'
        BY <1>0, <2>1, <2>2, <3>2 DEF Own, TypeOK
      <4>2. Gain(c, "using", w)
        BY <1>0, <2>1, <2>2, <2>4, <3>1 DEF Gain, TypeOK
      <4>. QED  BY <2>1, <4>1, <4>2, HandOver
    <3>3. CASE c # result[w]
      <4>1. NoGain(c)
        BY <1>0, <2>1, <2>2, <2>4, <3>1, <3>3 DEF NoGain, Gain, TypeOK
      <4>. QED  BY <4>1, NoGainPassed
    <3>. QED  BY <3>2, <3>3
  <2>. QED  BY <1>3, <2>3, <2>4 DEF getConnResult
<1>4. ASSUME NEW w \in Reqs, getConnCancel(w), NEW c \in Reqs PROVE Passed(c)
  <2>1. /\ UNCHANGED <<dialer, idleLRU, doomed, conn, alt>> /\ result' = [result EXCEPT ![w] = NoConn]
        /\ caller' = [caller EXCEPT ![w] = "returned"]
    BY <1>4 DEF getConnCancel, idleVars, stopVars, dialVars, connVars
  <2>2. NoConn \notin Reqs /\ put[<<"cancel", w>>] = "no"
    BY <1>4, PoolAssumption DEF getConnCancel, TypeInv, HeldTyped
  <2>3. CASE UNCHANGED <<held, put>>
    <3>1. NoGain(c)
      BY <1>0, <2>1, <2>2, <2>3 DEF NoGain, Gain, PutConn, TypeOK
    <3>. QED  BY <3>1, NoGainPassed
  <2>4. CASE /\ result[w] \in Reqs /\ held' = [held EXCEPT ![w] = result[w]]
             /\ put' = [put EXCEPT ![<<"cancel", w>>] = "check"]
    <3>1. \A a \in Agents : put'[a] # "no" =>
             \/ put[a] # "no" /\ PutConn(a)' = PutConn(a)
             \/ a = <<"cancel", w>> /\ PutConn(a)' = result[w]
      BY ZenonT(40), <1>0, <2>1, <2>2, <2>4, Agent DEF TypeOK
    <3>2. CASE c = result[w]
      <4>1. Own("result", w, c) /\ ~Own("result", w, c)'
        BY <1>0, <2>1, <2>2, <3>2 DEF Own, TypeOK
      <4>2. Gain(c, "put", <<"cancel", w>>)
        BY <1>0, <2>1, <2>2, <2>4, <3>1 DEF Gain, TypeOK
      <4>. QED  BY <2>1, <4>1, <4>2, HandOver
    <3>3. CASE c # result[w]
      <4>1. NoGain(c)
        BY <1>0, <2>1, <2>2, <2>4, <3>1, <3>3 DEF NoGain, Gain, TypeOK
      <4>. QED  BY <4>1, NoGainPassed
    <3>. QED  BY <3>2, <3>3
  <2>. QED  BY <1>4, <2>3, <2>4 DEF getConnCancel
<1>5. ASSUME NEW w \in Reqs, dialConnOK(w), NEW c \in Reqs PROVE Passed(c)
  <2>1. /\ UNCHANGED <<caller, held, result, put, idleLRU, doomed>>
        /\ dialer' = [dialer EXCEPT ![w] = "deliver"] /\ conn' = [conn EXCEPT ![w] = "open"]
        /\ dialer[w] = "dialing"
    BY <1>5 DEF dialConnOK, callVars, idleVars, stopVars
  <2>2. CASE c = w
    <3>1. \A t, x : ~Own(t, x, c)
      BY <2>1, <2>2 DEF SlotInv, DialStage, Dialled
    <3>2. Gain(c, "dial", c)
      BY <1>0, <2>1, <2>2 DEF Gain, PutConn, TypeOK
    <3>3. \A t, x : Own(t, x, c)' => t = "dial" /\ x = c
      BY <3>1, <3>2, Gains
    <3>4. conn'[c] # "none"
      BY <1>0, <2>1, <2>2 DEF TypeOK
    <3>. QED  BY <3>3, <3>4 DEF Passed
  <2>3. CASE c # w
    <3>1. NoGain(c)
      BY <1>0, <2>1, <2>3 DEF NoGain, Gain, PutConn, TypeOK
    <3>. QED  BY <3>1, NoGainPassed
  <2>. QED  BY <2>2, <2>3
<1>6. ASSUME NEW w \in Reqs, dialConnForStart(w) \/ dialConnForExit(w), NEW c \in Reqs
      PROVE  Passed(c)
  <2>1. UNCHANGED <<caller, held, result, put, idleLRU, doomed>>
    BY <1>6 DEF dialConnForStart, dialConnForExit, callVars, idleVars, stopVars
  <2>2. PICK v \in {"dec", "dialing", "end"} : dialer' = [dialer EXCEPT ![w] = v]
    BY <1>6 DEF dialConnForStart, dialConnForExit
  <2>3. NoGain(c)
    BY <1>0, <2>1, <2>2 DEF NoGain, Gain, PutConn, TypeOK
  <2>. QED  BY <2>3, NoGainPassed
<1>7. ASSUME NEW w \in Reqs, dialConnFail(w), NEW c \in Reqs PROVE Passed(c)
  <2>1. UNCHANGED <<caller, held, put, idleLRU, doomed>> /\ dialer' = [dialer EXCEPT ![w] = "dec"]
    BY <1>7 DEF dialConnFail, idleVars, stopVars
  <2>2. result' \in {result, [result EXCEPT ![w] = DialErr]} /\ DialErr \notin Reqs
    BY <1>7, PoolAssumption DEF dialConnFail, tryDeliver
  <2>3. NoGain(c)
    BY <1>0, <2>1, <2>2 DEF NoGain, Gain, PutConn, TypeOK
  <2>. QED  BY <2>3, NoGainPassed
<1>8. ASSUME NEW w \in Reqs, dialConnForDeliver(w), NEW c \in Reqs PROVE Passed(c)
  <2>1. /\ UNCHANGED <<caller, held, idleLRU, doomed, conn, alt>>
        /\ dialer' = [dialer EXCEPT ![w] = "exit"] /\ dialer[w] = "deliver"
        /\ result' = IF w \in done THEN result ELSE [result EXCEPT ![w] = w]
        /\ put' = IF w \in done \/ w \in alt
                  THEN [put EXCEPT ![<<"dialConnFor", w>>] = "check"] ELSE put
    BY <1>8 DEF dialConnForDeliver, tryDeliver, idleVars, stopVars, connVars
  <2>2. \A a \in Agents : PutConn(a)' = PutConn(a) /\ (a = <<"dialConnFor", w>> => PutConn(a) = w)
    BY <2>1 DEF PutConn
  <2>3. CASE c # w
    <3>1. NoGain(c)
      BY <1>0, <2>1, <2>2, <2>3 DEF NoGain, Gain, TypeOK
    <3>. QED  BY <3>1, NoGainPassed
  <2>4. CASE c = w
    <3>1. Own("dial", c, c) /\ ~Own("dial", c, c)'
      BY <1>0, <2>1, <2>4 DEF Own, TypeOK
    <3>2. CASE c \in alt
      <4>1. conn'[c] # "none"
        BY <2>1, <3>1 DEF Dialled
      <4>. QED  BY <2>1, <3>2, <4>1 DEF Passed
    <3>3. CASE c \notin alt /\ w \in done
      <4>1. Gain(c, "put", <<"dialConnFor", w>>)
        BY <1>0, <2>1, <2>2, <2>4, <3>3 DEF Gain, TypeOK
      <4>. QED  BY <2>1, <3>1, <4>1, HandOver
    <3>4. CASE c \notin alt /\ w \notin done
      <4>1. Gain(c, "result", w)
        BY <1>0, <2>1, <2>2, <2>4, <3>4 DEF Gain, TypeOK
      <4>. QED  BY <2>1, <3>1, <4>1, HandOver
    <3>. QED  BY <3>2, <3>3, <3>4
  <2>. QED  BY <2>3, <2>4
<1>9. ASSUME NEW w \in Reqs, dialConnForDec(w), NEW c \in Reqs PROVE Passed(c)
  <2>. DEFINE dl == [dialer EXCEPT ![w] = "exit"]
  <2>1. UNCHANGED <<caller, held, result, put, idleLRU, doomed>> /\ dialer[w] = "dec"
    BY <1>9 DEF dialConnForDec, callVars, idleVars, stopVars
  <2>2. dl \in [Reqs -> DialStates] /\ \A x \in Reqs : dl[x] = "deliver" <=> dialer[x] = "deliver"
    BY <1>0, <2>1 DEF TypeOK, DialStates
  <2>3. decConnsPerHost(KeyOf[w], dl, done) /\ HoldsSlot(w)
    BY <1>9 DEF dialConnForDec, HoldsSlot
  <2>. HIDE DEF dl
  <2>4. dialer'[c] = "deliver" => dialer[c] = "deliver"
    BY <1>0, <2>2, <2>3, DecFacts
  <2>5. NoGain(c)
    BY <2>1, <2>4 DEF NoGain, Gain, PutConn
  <2>. QED  BY <2>5, NoGainPassed
<1>10. ASSUME NEW a \in Agents, tryPutIdleConnCheck(a), NEW c \in Reqs PROVE Passed(c)
  <2>1. UNCHANGED <<caller, held, result, dialer, idleLRU, doomed>> /\ put[a] # "no"
    BY <1>10 DEF tryPutIdleConnCheck, callVars, dialVars, idleVars, stopVars
  <2>2. PICK v \in {"close", "lock"} : put' = [put EXCEPT ![a] = v]
    BY <1>10 DEF tryPutIdleConnCheck
  <2>3. NoGain(c)
    BY <1>0, <2>1, <2>2 DEF NoGain, Gain, PutConn, TypeOK
  <2>. QED  BY <2>3, NoGainPassed
<1>11. ASSUME NEW a \in Agents, put[a] # "no" PROVE PutConn(a) \in Reqs
  BY <1>11, Agent DEF TypeInv, HeldTyped
<1>12. ASSUME NEW a \in Agents, putOrCloseIdleConn(a), NEW c \in Reqs PROVE Passed(c)
  <2>1. /\ UNCHANGED <<caller, result, idleLRU, doomed>> /\ put[a] # "no" /\ EndPut(a)
        /\ PutConn(a) \in Reqs /\ closeLocked(PutConn(a), done)
    BY <1>11, <1>12 DEF putOrCloseIdleConn, idleVars, stopVars
  <2>2. dialer'[c] = "deliver" => dialer[c] = "deliver"
    BY <1>0, <2>1, CloseFacts DEF Closed
  <2>3. NoGain(c)
    BY <2>1, <2>2, EndPutFacts DEF NoGain, Gain
  <2>. QED  BY <2>3, NoGainPassed
<1>13. ASSUME NEW w \in Reqs, readLoopDone(w), NEW c \in Reqs PROVE Passed(c)
  <2>. DEFINE h == held[w]
  <2>1. /\ UNCHANGED <<result, dialer, idleLRU, doomed, conn, alt>> /\ caller[w] = "using"
        /\ caller' = [caller EXCEPT ![w] = "returned"] /\ held' = [held EXCEPT ![w] = NoConn]
        /\ put' = [put EXCEPT ![<<"readLoop", h>>] = "check"]
    BY <1>13 DEF readLoopDone, dialVars, idleVars, stopVars, connVars
  <2>2. h \in Reqs /\ put[<<"cancel", w>>] = "no"
    BY <2>1 DEF TypeInv, HeldTyped
  <2>3. \A a \in Agents : put'[a] # "no" =>
           \/ put[a] # "no" /\ PutConn(a)' = PutConn(a)
           \/ a = <<"readLoop", h>> /\ PutConn(a)' = h
    <3>. SUFFICES ASSUME NEW a \in Agents, put'[a] # "no"
                  PROVE  \/ put[a] # "no" /\ PutConn(a)' = PutConn(a)
                         \/ a = <<"readLoop", h>> /\ PutConn(a)' = h
      OBVIOUS
    <3>1. CASE a = <<"readLoop", h>>
      BY <3>1 DEF PutConn
    <3>2. CASE a # <<"readLoop", h>>
      <4>1. put[a] # "no" /\ a # <<"cancel", w>>
        BY <1>0, <2>1, <2>2, <3>2 DEF TypeOK
      <4>. QED  BY <1>0, <2>1, <4>1, Agent DEF TypeOK
    <3>. QED  BY <3>1, <3>2
  <2>4. CASE c = h
    <3>1. Own("using", w, c) /\ ~Own("using", w, c)'
      BY <1>0, <2>1, <2>2, <2>4 DEF Own, TypeOK
    <3>2. Gain(c, "put", <<"readLoop", h>>)
      BY <1>0, <2>1, <2>2, <2>3, <2>4 DEF Gain, TypeOK
    <3>. QED  BY <2>1, <3>1, <3>2, HandOver
  <2>5. CASE c # h
    <3>1. NoGain(c)
      BY <1>0, <2>1, <2>3, <2>5 DEF NoGain, Gain, TypeOK
    <3>. QED  BY <3>1, NoGainPassed
  <2>. QED  BY <2>4, <2>5
<1>14. ASSUME NEW w \in Reqs, roundTripEnd(w), NEW c \in Reqs PROVE Passed(c)
  <2>1. /\ UNCHANGED <<result, dialer, idleLRU, doomed, put>> /\ caller[w] = "using"
        /\ caller' = [caller EXCEPT ![w] = "returned"] /\ held' = [held EXCEPT ![w] = NoConn]
    BY <1>14 DEF roundTripEnd, dialVars, idleVars, stopVars
  <2>2. put[<<"cancel", w>>] = "no"
    BY <2>1 DEF TypeInv, HeldTyped
  <2>3. \A a \in Agents : put'[a] # "no" => put[a] # "no" /\ PutConn(a)' = PutConn(a)
    BY <1>0, <2>1, <2>2, Agent DEF TypeOK
  <2>4. NoGain(c)
    BY <1>0, <2>1, <2>3 DEF NoGain, Gain, TypeOK
  <2>. QED  BY <2>4, NoGainPassed
<1>15. ASSUME NEW x \in Reqs, persistConnClose(x) \/ closeIdleClose(x), NEW c \in Reqs
       PROVE  Passed(c)
  <2>1. /\ UNCHANGED <<caller, held, result, idleLRU, put>> /\ doomed' \subseteq doomed
        /\ closeLocked(x, done)
    BY <1>15 DEF persistConnClose, closeIdleClose, callVars, idleVars, stopVars
  <2>2. dialer'[c] = "deliver" => dialer[c] = "deliver"
    BY <1>0, <2>1, CloseFacts DEF Closed
  <2>3. NoGain(c)
    BY <2>1, <2>2 DEF NoGain, Gain, PutConn
  <2>. QED  BY <2>3, NoGainPassed
<1>16. ASSUME NEW x \in Reqs, RemoveIdleConn(x) PROVE Range(idleLRU') = Range(idleLRU) \ {x}
  BY <1>0, <1>16, WithoutFacts DEF RemoveIdleConn, IdleLists, TypeOK
<1>17. ASSUME NEW x \in Reqs, readLoopExit(x) \/ idleTimer(x), NEW c \in Reqs PROVE Passed(c)
  <2>1. UNCHANGED <<caller, held, result, dialer, put, doomed>>
    BY <1>17 DEF readLoopExit, idleTimer, callVars, dialVars, stopVars
  <2>2. Range(idleLRU') \subseteq Range(idleLRU)
    BY <1>16, <1>17 DEF readLoopExit, idleTimer, idleVars
  <2>3. NoGain(c)
    BY <2>1, <2>2 DEF NoGain, Gain, PutConn
  <2>. QED  BY <2>3, NoGainPassed
<1>18. ASSUME NEW x \in Reqs, closeConnIfStillIdle(x), NEW c \in Reqs PROVE Passed(c)
  <2>1. UNCHANGED <<caller, held, result, put, doomed>>
    BY <1>18 DEF closeConnIfStillIdle, callVars
  <2>2. Range(idleLRU') \subseteq Range(idleLRU)
    BY <1>16, <1>18 DEF closeConnIfStillIdle
  <2>3. dialer' = dialer \/ closeLocked(x, done)
    BY <1>18 DEF closeConnIfStillIdle, dialVars
  <2>4. dialer'[c] = "deliver" => dialer[c] = "deliver"
    BY <1>0, <2>3, CloseFacts DEF Closed
  <2>5. NoGain(c)
    BY <2>1, <2>2, <2>4 DEF NoGain, Gain, PutConn
  <2>. QED  BY <2>5, NoGainPassed
<1>19. ASSUME CloseIdleConnections, NEW c \in Reqs PROVE Passed(c)
  <2>1. /\ UNCHANGED <<caller, held, result, dialer, put, conn, alt>> /\ idleLRU' = <<>>
        /\ doomed' = UNION {Range(idleConn[k]) : k \in Keys}
    BY <1>19 DEF CloseIdleConnections, callVars, dialVars, connVars
  <2>2. c \notin Range(idleLRU')
    BY <2>1 DEF Range
  <2>3. CASE c \in doomed'
    <3>1. c \in Range(idleLRU)
      BY <2>1, <2>3 DEF IdleLists
    <3>2. Own("idle", c, c) /\ ~Own("idle", c, c)'
      BY <2>2, <3>1 DEF Own
    <3>3. Gain(c, "doomed", c)
      BY <2>1, <2>2 DEF Gain, PutConn
    <3>. QED  BY <2>1, <3>2, <3>3, HandOver
  <2>4. CASE c \notin doomed'
    <3>1. NoGain(c)
      BY <2>1, <2>2, <2>4 DEF NoGain, Gain, PutConn
    <3>. QED  BY <3>1, NoGainPassed
  <2>. QED  BY <2>3, <2>4
<1>20. ASSUME closeIdleDials, NEW c \in Reqs PROVE Passed(c)
  <2>1. NoGain(c)
    BY <1>20 DEF closeIdleDials, callVars, dialVars, idleVars, NoGain, Gain, PutConn
  <2>. QED  BY <2>1, NoGainPassed
<1>. QED
  BY <1>1, <1>2, <1>3, <1>4, <1>5, <1>6, <1>7, <1>8, <1>9, <1>10, <1>12, <1>13, <1>14,
     <1>15, <1>17, <1>18, <1>19, <1>20
     DEF Next, getConn, dialConnFor, CloseConn, PutBack, UseConn

-----------------------------------------------------------------------------
(* tryPutIdleConn, the step with the most outcomes.                        *)

\* Parking a connection keeps the lists in order; at the limit the oldest idle
\* connection is dropped from both lists and closed.
LEMMA ParkFacts ==
  ASSUME TypeOK, SlotInv, IdleLists, NEW c \in Reqs, c \notin Range(idleLRU),
         Len(idleConn[KeyOf[c]]) < maxIdleConnsPerHost,
         NEW d, Park(c, KeyOf[c], d)
  PROVE  /\ IdleLists' /\ panics' = panics
         /\ \A x \in Reqs : (x = c \/ x \in Range(idleConn[KeyOf[x]])) /\ x \in Range(idleLRU') =>
               x \in Range(idleConn'[KeyOf[x]])
         /\ \/ Range(idleLRU') = Range(idleLRU) \cup {c} /\ UNCHANGED <<conn, dialVars>>
            \/ \E o \in Range(idleLRU) : /\ Range(idleLRU') = (Range(idleLRU) \cup {c}) \ {o}
                                         /\ Closed(o)
<1>. DEFINE k == KeyOf[c]
            lru == <<c>> \o idleLRU
            ik == Append(idleConn[k], c)
            list == [idleConn EXCEPT ![k] = ik]
            o == lru[Len(lru)]
<1>0. /\ k \in Keys /\ idleConn \in [Keys -> Seq(Reqs)] /\ idleLRU \in Seq(Reqs)
      /\ KeyOf \in [Reqs -> Keys] /\ MaxIdleConns \in Nat /\ maxIdleConnsPerHost \in Int
  <2>1. maxIdleConnsPerHost \in Int
    BY PoolAssumption DEF maxIdleConnsPerHost
  <2>. QED  BY <2>1, PoolAssumption DEF TypeOK
<1>1. /\ lru \in Seq(Reqs) /\ Len(lru) = Len(idleLRU) + 1 /\ Len(idleLRU) \in Nat
      /\ lru[1] = c /\ Range(lru) = Range(idleLRU) \cup {c} /\ Distinct(lru)
      /\ \A i \in 1 .. Len(idleLRU) : lru[i + 1] = idleLRU[i]
  BY <1>0, PushFacts DEF IdleLists
<1>2. c \notin Range(idleConn[k])
  BY <1>0 DEF IdleLists
<1>3. /\ ik \in Seq(Reqs) /\ Len(ik) = Len(idleConn[k]) + 1 /\ Range(ik) = Range(idleConn[k]) \cup {c}
      /\ Distinct(ik) /\ Len(ik) <= maxIdleConnsPerHost
  <2>1. idleConn[k] \in Seq(Reqs) /\ Distinct(idleConn[k])
    BY <1>0 DEF IdleLists
  <2>2. /\ ik \in Seq(Reqs) /\ Len(ik) = Len(idleConn[k]) + 1
        /\ Range(ik) = Range(idleConn[k]) \cup {c} /\ Distinct(ik)
    BY <1>2, <2>1, AppendFacts
  <2>3. Len(idleConn[k]) \in Nat
    BY <2>1
  <2>. HIDE DEF ik
  <2>. QED  BY <1>0, <2>2, <2>3
<1>4. list \in [Keys -> Seq(Reqs)] /\ list[k] = ik /\ \A kk \in Keys \ {k} : list[kk] = idleConn[kk]
  BY <1>0, <1>3
<1>. HIDE DEF lru, ik, list
<1>5. ASSUME NEW kk \in Keys
      PROVE  /\ Distinct(list[kk])
             /\ \A x \in Range(list[kk]) : KeyOf[x] = kk /\ x \in Range(lru)
             /\ list[kk] # <<>> => Len(list[kk]) <= maxIdleConnsPerHost
  <2>1. CASE kk = k
    BY <1>0, <1>1, <1>3, <1>4, <2>1 DEF IdleLists
  <2>2. CASE kk # k
    BY <1>0, <1>1, <1>4, <2>2 DEF IdleLists
  <2>. QED  BY <2>1, <2>2
<1>6. CASE ~(MaxIdleConns # 0 /\ Len(lru) > MaxIdleConns)
  <2>1. idleLRU' = lru /\ idleConn' = list /\ UNCHANGED <<conn, dialVars, panics>>
    BY <1>6 DEF Park, lru, list, ik
  <2>2. MaxIdleConns > 0 => Len(lru) <= MaxIdleConns
    BY <1>0, <1>1, <1>6
  <2>3. IdleLists'
    BY <1>1, <1>5, <2>1, <2>2 DEF IdleLists, maxIdleConnsPerHost
  <2>4. \A x \in Reqs : x = c \/ x \in Range(idleConn[KeyOf[x]]) => x \in Range(list[KeyOf[x]])
    BY <1>0, <1>3, <1>4
  <2>. QED  BY <1>1, <2>1, <2>3, <2>4
<1>7. CASE MaxIdleConns # 0 /\ Len(lru) > MaxIdleConns
  <2>. DEFINE p == SubSeq(lru, 1, Len(lru) - 1)
              ko == KeyOf[o]
              wo == Without(list[ko], o)
  <2>1. idleLRU' = p /\ idleConn' = [list EXCEPT ![ko] = wo] /\ closeLocked(o, d)
    BY <1>7 DEF Park, lru, list, ik
  <2>2. Len(lru) - 1 \in 1 .. Len(lru) /\ Len(lru) \in Nat /\ Len(lru) - 1 \in 0 .. Len(lru)
    BY <1>0, <1>1, <1>7
  <2>3. /\ p \in Seq(Reqs) /\ Len(p) = Len(lru) - 1 /\ Distinct(p)
        /\ Range(p) = {lru[i] : i \in 1 .. Len(lru) - 1}
    BY <1>1, <2>2, PrefixFacts
  <2>4. o \in Reqs /\ o \in Range(idleLRU) /\ o # c /\ ko \in Keys
    <3>1. Len(lru) - 1 \in 1 .. Len(idleLRU) /\ Len(lru) = Len(lru) - 1 + 1
      BY <1>1, <2>2
    <3>2. o = idleLRU[Len(lru) - 1]
      BY <1>1, <3>1
    <3>. QED  BY <1>0, <3>1, <3>2 DEF Range
  <2>5. Range(p) = Range(lru) \ {o}
    <3>1. DOMAIN lru = 1 .. Len(lru)
      BY <1>1
    <3>2. \A i \in 1 .. Len(lru) - 1 : i \in DOMAIN lru /\ lru[i] # o
      BY <1>1, <2>2, <3>1 DEF Distinct
    <3>3. \A i \in DOMAIN lru : lru[i] # o => i \in 1 .. Len(lru) - 1
      BY <2>2, <3>1
    <3>. QED  BY <2>3, <3>2, <3>3 DEF Range
  <2>. HIDE DEF o
  <2>6. /\ wo \in Seq(Reqs) /\ Distinct(wo) /\ Len(wo) <= Len(list[ko])
        /\ Range(wo) = Range(list[ko]) \ {o}
    BY <1>4, <1>5, <2>4, WithoutFacts
  <2>. HIDE DEF p, wo
  <2>7. idleConn'[ko] = wo /\ \A kk \in Keys \ {ko} : idleConn'[kk] = list[kk]
    BY <1>4, <2>1, <2>4
  <2>8. MaxIdleConns > 0 => Len(p) <= MaxIdleConns
    <3>1. Len(idleLRU) <= MaxIdleConns
      BY <1>0, <1>7 DEF IdleLists
    <3>. QED  BY <1>0, <1>1, <2>3, <3>1
  <2>9. ASSUME NEW kk \in Keys
        PROVE  /\ Distinct(idleConn'[kk])
               /\ \A x \in Range(idleConn'[kk]) : KeyOf[x] = kk /\ x \in Range(p)
               /\ idleConn'[kk] # <<>> => Len(idleConn'[kk]) <= maxIdleConnsPerHost
    <3>1. CASE kk = ko
      <4>1. wo # <<>> => list[kk] # <<>>
        <5>1. wo # <<>> => Range(wo) # {}
          BY <2>6 DEF Range
        <5>2. list[kk] = <<>> => Range(list[kk]) = {}
          BY DEF Range
        <5>. QED  BY <2>6, <3>1, <5>1, <5>2
      <4>2. Len(wo) \in Nat /\ Len(list[kk]) \in Nat
        BY <1>4, <2>6
      <4>3. wo # <<>> => Len(wo) <= maxIdleConnsPerHost
        BY <1>0, <1>5, <2>6, <3>1, <4>1, <4>2
      <4>. QED  BY <1>5, <2>5, <2>6, <2>7, <3>1, <4>3
    <3>2. CASE kk # ko
      <4>1. \A x \in Range(list[kk]) : x # o
        BY <1>5, <3>2 DEF ko
      <4>. QED  BY <1>5, <2>5, <2>7, <3>2, <4>1
    <3>. QED  BY <3>1, <3>2
  <2>10. IdleLists'
    BY <2>1, <2>3, <2>8, <2>9 DEF IdleLists, maxIdleConnsPerHost
  <2>11. Closed(o)
    BY <2>1, <2>4, CloseFacts
  <2>12. ASSUME NEW x \in Reqs, x = c \/ x \in Range(idleConn[KeyOf[x]]), x \in Range(idleLRU')
         PROVE  x \in Range(idleConn'[KeyOf[x]])
    <3>1. x # o /\ KeyOf[x] \in Keys
      BY <1>0, <2>1, <2>5, <2>12
    <3>2. x \in Range(list[KeyOf[x]])
      BY <1>0, <1>3, <1>4, <2>12
    <3>. QED  BY <2>6, <2>7, <3>1, <3>2
  <2>. QED  BY <1>1, <2>1, <2>4, <2>5, <2>10, <2>11, <2>12 DEF Closed
<1>. QED  BY <1>6, <1>7

\* The connection an agent hands back exists.
LEMMA PutConnTyped ==
  ASSUME TypeInv, NEW a \in Agents, put[a] # "no"
  PROVE  PutConn(a) \in Reqs
  BY Agent DEF TypeInv, HeldTyped

\* The waiters that tryPutIdleConn answers were unanswered: one of them when
\* the connection is HTTP/1, all when it is HTTP/2.
Answers(c) ==
    /\ done \subseteq done'
    /\ \A x \in Reqs : \/ result'[x] = result[x] /\ (x \in done' \ done => c \in alt)
                       \/ c \in alt /\ x \in done' \ done /\ result'[x] = c

\* The outcomes of tryPutIdleConn: the HTTP/2 connection is idle already, a
\* waiter gets it, it is refused, or it is parked.  No internal panic is one.
PutShared(a) ==
    /\ PutConn(a) \in alt /\ EndPut(a)
    /\ UNCHANGED <<done, result, idleConn, idleLRU, conn, dialVars, panics>>

PutGiven(a, z) ==
    /\ PutConn(a) \notin alt /\ z \notin done /\ EndPut(a)
    /\ done' = done \cup {z} /\ result' = [result EXCEPT ![z] = PutConn(a)]
    /\ UNCHANGED <<idleConn, idleLRU, conn, dialVars, panics>>

PutRefused(a) ==
    /\ Answers(PutConn(a)) /\ put' = [put EXCEPT ![a] = "close"]
    /\ UNCHANGED <<held, idleConn, idleLRU, conn, dialVars, panics>>

PutParked(a) ==
    /\ Answers(PutConn(a)) /\ EndPut(a)
    /\ PutConn(a) \notin Range(idleLRU)
    /\ Len(idleConn[KeyOf[PutConn(a)]]) < maxIdleConnsPerHost
    /\ \E d : Park(PutConn(a), KeyOf[PutConn(a)], d)

\* tryPutIdleConn has no other outcome.
LEMMA PutOutcome ==
  ASSUME TypeInv, OneOwner, IdleLists, Answered, NEW a \in Agents, tryPutIdleConn(a)
  PROVE  /\ put[a] = "lock" /\ PutConn(a) \in Reqs
         /\ UNCHANGED <<caller, closeIdle, alt, reused, reader, stopVars>>
         /\ \/ PutShared(a) \/ PutRefused(a) \/ PutParked(a)
            \/ \E z \in Reqs : PutGiven(a, z)
<1>. DEFINE c == PutConn(a)
            k == KeyOf[c]
            q == idleConnWait[k]
<1>0. TypeOK
  BY DEF TypeInv
<1>1. put[a] = "lock" /\ UNCHANGED <<caller, closeIdle, alt, reused, reader, stopVars>>
  BY DEF tryPutIdleConn
<1>2. c \in Reqs /\ k \in Keys /\ q \in Seq(Reqs) /\ Range(q) \subseteq Reqs
  <2>1. c \in Reqs
    BY <1>1, PutConnTyped
  <2>2. k \in Keys
    BY <2>1, PoolAssumption
  <2>3. q \in Seq(Reqs)
    BY <1>0, <2>2 DEF TypeOK
  <2>. QED  BY <2>1, <2>2, <2>3 DEF Range
<1>3. c \notin alt => c \notin Range(idleLRU)
  <2>1. Own("put", a, c)
    BY <1>1 DEF Own
  <2>2. c \in Range(idleLRU) => Own("idle", c, c)
    BY DEF Own
  <2>. QED  BY <1>2, <2>1, <2>2 DEF OneOwner
<1>4. ASSUME NEW d, PutIdle(a, c, d), Answers(c), c \notin Range(idleLRU)
      PROVE  PutRefused(a) \/ PutParked(a)
  <2>1. c \notin Range(idleConn[k])
    BY <1>2, <1>4 DEF IdleLists
  <2>2. CASE closeIdle \/ Len(idleConn[k]) >= maxIdleConnsPerHost
    BY <1>4, <2>2 DEF PutIdle, PutRefused
  <2>3. CASE ~(closeIdle \/ Len(idleConn[k]) >= maxIdleConnsPerHost)
    <3>1. EndPut(a) /\ Park(c, k, d)
      BY <1>4, <2>1, <2>3 DEF PutIdle
    <3>2. Len(idleConn[k]) < maxIdleConnsPerHost
      <4>1. idleConn[k] \in Seq(Reqs)
        BY <1>0, <1>2 DEF TypeOK
      <4>2. Len(idleConn[k]) \in Nat /\ maxIdleConnsPerHost \in Int
        BY <4>1, PoolAssumption DEF maxIdleConnsPerHost
      <4>. QED  BY <2>3, <4>2
    <3>. QED  BY <1>4, <3>1, <3>2 DEF PutParked
  <2>. QED  BY <2>2, <2>3
<1>5. CASE /\ c \in alt /\ c \in Range(idleLRU) /\ EndPut(a)
           /\ UNCHANGED <<done, result, idleConn, idleLRU, idleConnWait, conn, dialVars, panics>>
  BY <1>1, <1>2, <1>5 DEF PutShared
<1>6. CASE /\ c \notin alt
           /\ \E i \in DOMAIN q : FirstWaiting(q, done, i) /\ tryDeliver(q[i], c)
           /\ EndPut(a)
           /\ UNCHANGED <<idleConn, idleLRU, conn, dialVars, panics>>
  <2>1. PICK i \in DOMAIN q : FirstWaiting(q, done, i) /\ tryDeliver(q[i], c)
    BY <1>6
  <2>2. q[i] \in Reqs /\ PutGiven(a, q[i])
    BY <1>2, <1>6, <2>1 DEF FirstWaiting, tryDeliver, PutGiven
  <2>. QED  BY <1>1, <1>2, <2>2
<1>7. CASE c \notin alt /\ PutIdle(a, c, done) /\ UNCHANGED <<done, result>>
  <2>1. Answers(c)
    BY <1>7 DEF Answers
  <2>. QED  BY <1>1, <1>2, <1>3, <1>4, <1>7, <2>1
<1>8. CASE /\ c \in alt /\ c \notin Range(idleLRU)
           /\ done' = done \cup Range(q)
           /\ result' = [w \in Reqs |-> IF w \in Range(q) \ done THEN c ELSE result[w]]
           /\ PutIdle(a, c, done \cup Range(q))
  <2>1. Answers(c)
    BY <1>2, <1>8 DEF Answers
  <2>. QED  BY <1>1, <1>2, <1>4, <1>8, <2>1
<1>. QED  BY <1>5, <1>6, <1>7, <1>8 DEF tryPutIdleConn

\* tryPutIdleConn passes each connection on.
LEMMA PutPassed ==
  ASSUME TypeInv, SlotInv, OneOwner, Dialled, IdleLists, Answered,
         NEW a \in Agents, tryPutIdleConn(a), NEW c \in Reqs
  PROVE  Passed(c)
<1>. DEFINE p == PutConn(a)
<1>0. TypeOK
  BY DEF TypeInv
<1>1. p \in Reqs /\ put[a] = "lock" /\ UNCHANGED <<caller, alt, doomed>> /\ Own("put", a, p)
  BY PutOutcome DEF stopVars, Own
<1>2. conn[p] # "none"
  BY <1>1 DEF Dialled
<1>3. ASSUME EndPut(a)
      PROVE  /\ put'[a] = "no"
             /\ \A b \in Agents \ {a} : put'[b] = put[b] /\ PutConn(b)' = PutConn(b)
             /\ \A x \in Reqs : caller[x] = "using" => held'[x] = held[x]
             /\ ~Own("put", a, p)'
  BY <1>1, <1>3, EndPutFacts DEF Own
<1>. HIDE DEF p
<1>4. CASE PutShared(a)
  <2>1. NoGain(c)
    BY <1>0, <1>1, <1>3, <1>4 DEF PutShared, NoGain, Gain, dialVars
  <2>. QED  BY <2>1, NoGainPassed
<1>5. ASSUME NEW z \in Reqs, PutGiven(a, z) PROVE Passed(c)
  <2>1. /\ UNCHANGED <<idleLRU, conn, dialer>> /\ EndPut(a) /\ p \notin alt
        /\ result' = [result EXCEPT ![z] = p]
    BY <1>5 DEF PutGiven, dialVars, p
  <2>2. CASE c = p
    <3>1. Gain(c, "result", z)
      BY <1>0, <1>1, <1>3, <2>1, <2>2 DEF Gain, TypeOK
    <3>2. Own("put", a, c) /\ ~Own("put", a, c)'
      BY <1>1, <1>3, <2>1, <2>2 DEF Own
    <3>. QED  BY <1>1, <2>1, <3>1, <3>2, HandOver
  <2>3. CASE c # p
    <3>1. NoGain(c)
      BY ZenonT(40), <1>0, <1>1, <1>3, <2>1, <2>3 DEF NoGain, Gain, TypeOK
    <3>. QED  BY <3>1, NoGainPassed
  <2>. QED  BY <2>2, <2>3
<1>6. CASE PutRefused(a)
  <2>1. UNCHANGED <<held, idleLRU, conn, dialer>> /\ Answers(p) /\ put' = [put EXCEPT ![a] = "close"]
    BY <1>6 DEF PutRefused, dialVars, p
  <2>2. CASE c = p /\ c \in alt
    BY <1>1, <1>2, <2>1, <2>2 DEF Passed
  <2>3. CASE ~(c = p /\ c \in alt)
    <3>1. NoGain(c)
      BY <1>0, <1>1, <2>1, <2>3 DEF NoGain, Gain, Answers, PutConn, TypeOK
    <3>. QED  BY <3>1, NoGainPassed
  <2>. QED  BY <2>2, <2>3
<1>7. CASE PutParked(a)
  <2>1. PICK d : Park(p, KeyOf[p], d)
    BY <1>7 DEF PutParked, p
  <2>2. /\ EndPut(a) /\ Answers(p) /\ p \notin Range(idleLRU)
        /\ Len(idleConn[KeyOf[p]]) < maxIdleConnsPerHost
    BY <1>7 DEF PutParked, p
  <2>3. \/ Range(idleLRU') = Range(idleLRU) \cup {p} /\ UNCHANGED <<conn, dialVars>>
        \/ \E o \in Range(idleLRU) : /\ Range(idleLRU') = (Range(idleLRU) \cup {p}) \ {o}
                                     /\ Closed(o)
    BY <1>0, <1>1, <2>1, <2>2, ParkFacts
  <2>4. /\ Range(idleLRU') \subseteq Range(idleLRU) \cup {p}
        /\ \A x \in Reqs : dialer'[x] = "deliver" => dialer[x] = "deliver"
        /\ conn'[p] = conn[p]
    BY <1>1, <2>2, <2>3 DEF Closed, dialVars
  <2>5. CASE c = p /\ c \in alt
    BY <1>1, <1>2, <2>4, <2>5 DEF Passed
  <2>6. CASE c = p /\ c \notin alt
    <3>1. Gain(c, "idle", c)
      BY <1>0, <1>1, <1>3, <2>2, <2>4, <2>6 DEF Gain, Answers
    <3>2. \A t, x : Own(t, x, c)' => Own(t, x, c) \/ (t = "idle" /\ x = c)
      BY <3>1, Gains
    <3>3. Own("put", a, c) /\ ~Own("put", a, c)'
      BY <1>1, <1>3, <2>2, <2>6 DEF Own
    <3>4. \A t, x : Own(t, x, c)' => t = "idle" /\ x = c
      BY <2>6, <3>2, <3>3 DEF OneOwner
    <3>. QED  BY <1>2, <2>4, <2>6, <3>4 DEF Passed
  <2>7. CASE c # p
    <3>1. NoGain(c)
      BY <1>0, <1>1, <1>3, <2>2, <2>4, <2>7 DEF NoGain, Gain, Answers
    <3>. QED  BY <3>1, NoGainPassed
  <2>. QED  BY <2>5, <2>6, <2>7
<1>. QED  BY <1>4, <1>5, <1>6, <1>7, PutOutcome

-----------------------------------------------------------------------------
(* The idle lists, the result channels and the internal panics.            *)

\* removeIdleConnLocked takes one connection off both lists.
LEMMA RemoveFacts ==
  ASSUME TypeOK, IdleLists, NEW c \in Reqs, RemoveIdleConn(c)
  PROVE  /\ IdleLists' /\ Range(idleLRU') = Range(idleLRU) \ {c}
         /\ \A x \in Reqs \ {c} : x \in Range(idleConn[KeyOf[x]]) => x \in Range(idleConn'[KeyOf[x]])
<1>. DEFINE k == KeyOf[c]
            p == Without(idleLRU, c)
            l == Without(idleConn[k], c)
<1>0. /\ k \in Keys /\ idleConn \in [Keys -> Seq(Reqs)] /\ idleLRU \in Seq(Reqs)
      /\ KeyOf \in [Reqs -> Keys] /\ MaxIdleConns \in Nat
  BY PoolAssumption DEF TypeOK
<1>1. idleLRU' = p /\ idleConn' = [idleConn EXCEPT ![k] = l]
  BY DEF RemoveIdleConn
<1>2. /\ p \in Seq(Reqs) /\ Distinct(p) /\ Len(p) <= Len(idleLRU)
      /\ Range(p) = Range(idleLRU) \ {c}
  BY <1>0, WithoutFacts DEF IdleLists
<1>3. /\ l \in Seq(Reqs) /\ Distinct(l) /\ Len(l) <= Len(idleConn[k])
      /\ Range(l) = Range(idleConn[k]) \ {c}
  BY <1>0, WithoutFacts DEF IdleLists
<1>. HIDE DEF p, l
<1>4. idleConn'[k] = l /\ \A kk \in Keys \ {k} : idleConn'[kk] = idleConn[kk]
  BY <1>0, <1>1
<1>5. MaxIdleConns > 0 => Len(p) <= MaxIdleConns
  <2>1. Len(p) \in Nat /\ Len(idleLRU) \in Nat
    BY <1>0, <1>2
  <2>. QED  BY <1>0, <1>2, <2>1 DEF IdleLists
<1>6. ASSUME NEW kk \in Keys
      PROVE  /\ Distinct(idleConn'[kk])
             /\ \A x \in Range(idleConn'[kk]) : KeyOf[x] = kk /\ x \in Range(p)
             /\ idleConn'[kk] # <<>> => Len(idleConn'[kk]) <= maxIdleConnsPerHost
  <2>1. CASE kk = k
    <3>1. l # <<>> => idleConn[k] # <<>>
      <4>1. l # <<>> => Range(l) # {}
        BY <1>3 DEF Range
      <4>2. idleConn[k] = <<>> => Range(idleConn[k]) = {}
        BY DEF Range
      <4>. QED  BY <1>3, <4>1, <4>2
    <3>2. Len(l) \in Nat /\ Len(idleConn[k]) \in Nat /\ maxIdleConnsPerHost \in Int
      <4>1. idleConn[k] \in Seq(Reqs)
        BY <1>0
      <4>. QED  BY <1>3, <4>1, PoolAssumption DEF maxIdleConnsPerHost
    <3>3. l # <<>> => Len(l) <= maxIdleConnsPerHost
      BY <1>0, <1>3, <3>1, <3>2 DEF IdleLists
    <3>. QED  BY <1>0, <1>2, <1>3, <1>4, <2>1, <3>3 DEF IdleLists
  <2>2. CASE kk # k
    BY <1>0, <1>2, <1>4, <2>2 DEF IdleLists
  <2>. QED  BY <2>1, <2>2
<1>7. IdleLists'
  BY <1>1, <1>2, <1>5, <1>6 DEF IdleLists, maxIdleConnsPerHost
<1>. QED  BY <1>0, <1>1, <1>2, <1>3, <1>4, <1>7

\* queueForIdleConn takes the newest usable connection off both lists, or
\* forgets the list.
LEMMA TakeFacts ==
  ASSUME TypeOK, IdleLists, NEW w \in Reqs, NEW m \in 1 .. Len(idleConn[KeyOf[w]]),
         TakeIdle(w, idleConn[KeyOf[w]], m)
  PROVE  IdleLists'
<1>. DEFINE k == KeyOf[w]
            list == idleConn[k]
            c == list[m]
            n == IF c \in alt THEN m ELSE m - 1
            p == SubSeq(list, 1, n)
<1>0. /\ k \in Keys /\ idleConn \in [Keys -> Seq(Reqs)] /\ idleLRU \in Seq(Reqs)
      /\ list \in Seq(Reqs) /\ KeyOf \in [Reqs -> Keys] /\ MaxIdleConns \in Nat
  BY PoolAssumption DEF TypeOK
<1>1. /\ idleConn' = [idleConn EXCEPT ![k] = p]
      /\ idleLRU' = IF c \in alt THEN idleLRU ELSE Without(idleLRU, c)
  BY DEF TakeIdle
<1>2. /\ Distinct(list) /\ \A x \in Range(list) : KeyOf[x] = k /\ x \in Range(idleLRU)
      /\ (list # <<>> => Len(list) <= maxIdleConnsPerHost)
      /\ Distinct(idleLRU) /\ (MaxIdleConns > 0 => Len(idleLRU) <= MaxIdleConns)
  BY <1>0 DEF IdleLists
<1>3. Len(list) \in Nat /\ DOMAIN list = 1 .. Len(list) /\ m \in Int /\ maxIdleConnsPerHost \in Int
  BY <1>0, PoolAssumption DEF maxIdleConnsPerHost
<1>. HIDE DEF list
<1>4. n \in 0 .. Len(list)
  BY <1>3 DEF list
<1>5. /\ p \in Seq(Reqs) /\ Len(p) = n /\ Distinct(p) /\ Range(p) = {list[i] : i \in 1 .. n}
  <2>. HIDE DEF n
  <2>. QED  BY <1>0, <1>2, <1>4, PrefixFacts
<1>6. /\ idleLRU' \in Seq(Reqs) /\ Distinct(idleLRU') /\ Len(idleLRU') <= Len(idleLRU)
      /\ Range(idleLRU') = IF c \in alt THEN Range(idleLRU) ELSE Range(idleLRU) \ {c}
  <2>1. CASE c \in alt
    <3>1. Len(idleLRU) \in Nat
      BY <1>0
    <3>. QED  BY <1>0, <1>1, <1>2, <2>1, <3>1
  <2>2. CASE c \notin alt
    <3>. HIDE DEF c
    <3>. QED  BY <1>0, <1>1, <1>2, <2>2, WithoutFacts
  <2>. QED  BY <2>1, <2>2
<1>7. \A x \in Range(p) : KeyOf[x] = k /\ x \in Range(idleLRU')
  <2>. SUFFICES ASSUME NEW i \in 1 .. n
                PROVE  KeyOf[list[i]] = k /\ list[i] \in Range(idleLRU')
    BY <1>5
  <2>1. i \in DOMAIN list /\ m \in DOMAIN list /\ (c \notin alt => i # m)
    BY <1>3, <1>4 DEF list
  <2>2. c \notin alt => list[i] # c
    BY <1>2, <2>1 DEF Distinct
  <2>3. list[i] \in Range(list)
    BY <2>1 DEF Range
  <2>. QED  BY <1>2, <1>6, <2>2, <2>3
<1>8. p # <<>> => Len(p) <= maxIdleConnsPerHost
  <2>1. list # <<>>
    BY <1>3, <1>4 DEF list
  <2>2. n <= Len(list) /\ n \in Int
    BY <1>3, <1>4
  <2>. HIDE DEF n, p
  <2>. QED  BY <1>2, <1>3, <1>5, <2>1, <2>2
<1>9. MaxIdleConns > 0 => Len(idleLRU') <= MaxIdleConns
  <2>1. Len(idleLRU') \in Nat /\ Len(idleLRU) \in Nat
    BY <1>0, <1>6
  <2>. QED  BY <1>0, <1>2, <1>6, <2>1
<1>. HIDE DEF p, n, c
<1>10. idleConn'[k] = p /\ \A kk \in Keys \ {k} : idleConn'[kk] = idleConn[kk]
  BY <1>0, <1>1
<1>11. ASSUME NEW kk \in Keys \ {k}, NEW x \in Range(idleConn[kk])
       PROVE  KeyOf[x] = kk /\ x \in Range(idleLRU')
  <2>1. KeyOf[x] = kk /\ x \in Range(idleLRU)
    BY DEF IdleLists
  <2>2. c \in Range(list)
    BY <1>3 DEF Range, c, list
  <2>. QED  BY <1>2, <1>6, <2>1, <2>2
<1>. QED  BY <1>5, <1>6, <1>7, <1>8, <1>9, <1>10, <1>11 DEF IdleLists, maxIdleConnsPerHost

OwnInv == OneOwner /\ Dialled /\ IdleLists /\ Answered /\ NoPanic

\* A connection stays dialled, and stays HTTP/2.
LEMMA ConnGrows ==
  ASSUME TypeInv, SlotInv, OwnInv, Next
  PROVE  alt \subseteq alt' /\ \A c \in Reqs : conn'[c] = "none" => conn[c] = "none"
<1>0. TypeOK
  BY DEF TypeInv
<1>1. ASSUME NEW x \in Reqs, Closed(x) PROVE \A c \in Reqs : conn'[c] = "none" => conn[c] = "none"
  BY <1>1 DEF Closed
<1>2. ASSUME NEW w \in Reqs, getConn(w) \/ UseConn(w) PROVE UNCHANGED <<conn, alt>>
  BY <1>2 DEF getConn, UseConn, queueForIdleConn, queueForDial, getConnResult, getConnCancel,
         readLoopDone, roundTripEnd, connVars
<1>3. ASSUME NEW w \in Reqs, dialConnFor(w)
      PROVE  alt \subseteq alt' /\ conn' \in {conn, [conn EXCEPT ![w] = "open"]}
  BY <1>3 DEF dialConnFor, dialConnForStart, dialConnOK, dialConnFail, dialConnForDeliver,
         dialConnForDec, dialConnForExit, connVars
<1>4. ASSUME NEW x \in Reqs, CloseConn(x)
      PROVE  alt' = alt /\ (UNCHANGED conn \/ closeLocked(x, done))
  BY <1>4 DEF CloseConn, persistConnClose, readLoopExit, idleTimer, closeConnIfStillIdle,
         closeIdleClose, connVars
<1>5. ASSUME NEW a \in Agents, tryPutIdleConnCheck(a) \/ putOrCloseIdleConn(a)
      PROVE  alt' = alt /\ (UNCHANGED conn \/ closeLocked(PutConn(a), done)) /\ put[a] # "no"
  BY <1>5 DEF tryPutIdleConnCheck, putOrCloseIdleConn
<1>6. ASSUME NEW a \in Agents, tryPutIdleConn(a)
      PROVE  alt' = alt /\ (UNCHANGED conn \/ \E x \in Reqs : Closed(x))
  <2>1. /\ put[a] = "lock" /\ PutConn(a) \in Reqs /\ alt' = alt
        /\ \/ PutShared(a) \/ PutRefused(a) \/ PutParked(a)
           \/ \E z \in Reqs : PutGiven(a, z)
    BY <1>6, PutOutcome DEF OwnInv
  <2>2. CASE PutParked(a)
    <3>1. PICK d : Park(PutConn(a), KeyOf[PutConn(a)], d)
      BY <2>2 DEF PutParked
    <3>2. UNCHANGED conn \/ \E o \in Range(idleLRU) : Closed(o)
      BY <1>0, <2>1, <2>2, <3>1, ParkFacts DEF PutParked, OwnInv
    <3>3. Range(idleLRU) \subseteq Reqs
      <4>1. idleLRU \in Seq(Reqs)
        BY <1>0 DEF TypeOK
      <4>. QED  BY <4>1 DEF Range
    <3>. QED  BY <2>1, <3>2, <3>3
  <2>. QED  BY <2>1, <2>2 DEF PutShared, PutRefused, PutGiven
<1>7. ASSUME CloseIdleConnections \/ closeIdleDials PROVE UNCHANGED <<conn, alt>>
  BY <1>7 DEF CloseIdleConnections, closeIdleDials, connVars
<1>8. ASSUME NEW w \in Reqs, conn' \in {conn, [conn EXCEPT ![w] = "open"]}
      PROVE  \A c \in Reqs : conn'[c] = "none" => conn[c] = "none"
  BY <1>0, <1>8 DEF TypeOK
<1>9. ASSUME NEW x \in Reqs, closeLocked(x, done) PROVE Closed(x)
  BY <1>0, <1>9, CloseFacts
<1>10. CASE \E w \in Reqs : getConn(w) \/ UseConn(w) \/ dialConnFor(w) \/ CloseConn(w)
  BY <1>1, <1>2, <1>3, <1>4, <1>8, <1>9, <1>10
<1>11. CASE \E a \in Agents : PutBack(a)
  BY <1>1, <1>5, <1>6, <1>9, <1>11, PutConnTyped DEF PutBack
<1>. QED  BY <1>7, <1>10, <1>11 DEF Next

\* Every action keeps the idle lists in order, leaves the channels of waiting
\* callers empty and reaches no internal panic.
LEMMA ListsStep ==
  ASSUME TypeInv, SlotInv, OwnInv, Next
  PROVE  IdleLists' /\ Answered' /\ NoPanic'
<1>0. TypeOK /\ IdleLists /\ Answered /\ NoPanic
  BY DEF TypeInv, OwnInv
<1>1. ASSUME UNCHANGED <<idleLRU, idleConn>> PROVE IdleLists'
  BY <1>0, <1>1 DEF IdleLists, maxIdleConnsPerHost
<1>2. ASSUME NEW x \in Reqs, closeLocked(x, done) PROVE NoPanic'
  BY <1>0, <1>2, CloseFacts DEF Closed, NoPanic
<1>3. ASSUME NEW w \in Reqs, queueForIdleConn(w) PROVE IdleLists' /\ Answered' /\ NoPanic'
  <2>. DEFINE list == idleConn[KeyOf[w]]
  <2>1. NoPanic'
    BY <1>0, <1>3 DEF queueForIdleConn, NoPanic
  <2>2. CASE UNCHANGED <<done, result, idleVars>>
    BY <1>0, <1>1, <2>1, <2>2 DEF Answered, idleVars
  <2>3. ASSUME NEW m \in 1 .. Len(list), TakeIdle(w, list, m) PROVE IdleLists' /\ Answered'
    <3>1. IdleLists'
      BY <1>0, <2>3, TakeFacts
    <3>2. Answered'
      BY <1>0, <2>3 DEF TakeIdle, Answered, TypeOK
    <3>. QED  BY <3>1, <3>2
  <2>4. ASSUME NEW old, WaitIdle(w, list, old) PROVE IdleLists' /\ Answered'
    <3>1. idleConn' = [idleConn EXCEPT ![KeyOf[w]] = <<>>] /\ UNCHANGED <<done, result, idleLRU>>
      BY <2>4 DEF WaitIdle
    <3>2. \A k \in Keys : idleConn'[k] = IF k = KeyOf[w] THEN <<>> ELSE idleConn[k]
      BY <1>0, <3>1 DEF TypeOK
    <3>3. Distinct(<<>>) /\ Range(<<>>) = {}
      BY DEF Distinct, Range
    <3>4. IdleLists'
      BY <1>0, <3>1, <3>2, <3>3 DEF IdleLists, maxIdleConnsPerHost
    <3>. QED  BY <1>0, <3>1, <3>4 DEF Answered
  <2>5. \/ UNCHANGED <<done, result, idleVars>>
        \/ \E m \in 1 .. Len(list) : TakeIdle(w, list, m)
        \/ \E old : WaitIdle(w, list, old)
    <3>1. list \in Seq(Reqs)
      BY <1>0, PoolAssumption DEF TypeOK
    <3>2. Len(list) \in Nat
      BY <3>1
    <3>. HIDE DEF list
    <3>3. \A old \in 0 .. Len(list) : \A i \in old + 1 .. Len(list) : i \in 1 .. Len(list)
      BY <3>2
    <3>4. (IF IdleConnTimeout THEN Len(list) ELSE 0) \in 0 .. Len(list)
      BY <3>2
    <3>. QED  BY <1>3, <3>2, <3>3, <3>4 DEF queueForIdleConn, list
  <2>. QED  BY <2>1, <2>2, <2>3, <2>4, <2>5
<1>4. ASSUME NEW w \in Reqs, queueForDial(w) PROVE IdleLists' /\ Answered' /\ NoPanic'
  BY <1>0, <1>1, <1>4 DEF queueForDial, idleVars, Answered, NoPanic
<1>5. ASSUME NEW w \in Reqs, getConnResult(w) \/ getConnCancel(w) \/ UseConn(w)
      PROVE  IdleLists' /\ Answered' /\ NoPanic'
  <2>1. UNCHANGED <<idleLRU, idleConn, panics>> /\ done \subseteq done'
    BY <1>5 DEF getConnResult, getConnCancel, UseConn, readLoopDone, roundTripEnd, idleVars
  <2>2. result' \in {result, [result EXCEPT ![w] = NoConn]}
    BY <1>5 DEF getConnResult, getConnCancel, UseConn, readLoopDone, roundTripEnd
  <2>3. Answered'
    BY <1>0, <2>1, <2>2 DEF Answered, TypeOK
  <2>. QED  BY <1>0, <1>1, <2>1, <2>3 DEF NoPanic
<1>6. ASSUME NEW w \in Reqs, dialConnFor(w), ~dialConnForDec(w)
      PROVE  IdleLists' /\ Answered' /\ NoPanic'
  <2>1. UNCHANGED <<idleLRU, idleConn, panics>>
    BY <1>6 DEF dialConnFor, dialConnForStart, dialConnOK, dialConnFail, dialConnForDeliver,
           dialConnForExit, idleVars
  <2>2. \/ UNCHANGED <<done, result>>
        \/ done' = done \cup {w} /\ \E v : result' = [result EXCEPT ![w] = v]
    BY <1>6 DEF dialConnFor, dialConnForStart, dialConnOK, dialConnFail, dialConnForDeliver,
           dialConnForExit, callVars, tryDeliver
  <2>3. Answered'
    BY ZenonT(40), <1>0, <2>2 DEF Answered, TypeOK
  <2>. QED  BY <1>0, <1>1, <2>1, <2>3 DEF NoPanic
<1>7. ASSUME NEW w \in Reqs, dialConnForDec(w) PROVE IdleLists' /\ Answered' /\ NoPanic'
  <2>. DEFINE dl == [dialer EXCEPT ![w] = "exit"]
  <2>1. /\ decConnsPerHost(KeyOf[w], dl, done) /\ HoldsSlot(w) /\ dl \in [Reqs -> DialStates]
        /\ UNCHANGED <<idleLRU, idleConn, done, result>>
    BY <1>0, <1>7 DEF dialConnForDec, HoldsSlot, TypeOK, DialStates, callVars, idleVars
  <2>. HIDE DEF dl
  <2>2. panics' = panics
    BY <1>0, <2>1, DecFacts
  <2>. QED  BY <1>0, <1>1, <2>1, <2>2 DEF Answered, NoPanic
<1>8. ASSUME NEW c \in Reqs, CloseConn(c) PROVE IdleLists' /\ Answered' /\ NoPanic'
  <2>1. /\ UNCHANGED <<done, result>> /\ (UNCHANGED panics \/ closeLocked(c, done))
        /\ (UNCHANGED <<idleLRU, idleConn>> \/ RemoveIdleConn(c))
    BY <1>8 DEF CloseConn, persistConnClose, readLoopExit, idleTimer, closeConnIfStillIdle,
           closeIdleClose, callVars, idleVars
  <2>2. NoPanic'
    BY <1>0, <1>2, <2>1 DEF NoPanic
  <2>3. IdleLists'
    BY <1>0, <1>1, <2>1, RemoveFacts
  <2>. QED  BY <1>0, <2>1, <2>2, <2>3 DEF Answered
<1>9. ASSUME NEW a \in Agents, tryPutIdleConnCheck(a) \/ putOrCloseIdleConn(a)
      PROVE  IdleLists' /\ Answered' /\ NoPanic'
  <2>1. /\ UNCHANGED <<done, result, idleLRU, idleConn>> /\ put[a] # "no"
        /\ (UNCHANGED panics \/ closeLocked(PutConn(a), done))
    BY <1>9 DEF tryPutIdleConnCheck, putOrCloseIdleConn, callVars, idleVars
  <2>2. NoPanic'
    BY <1>0, <1>2, <2>1, PutConnTyped DEF NoPanic
  <2>. QED  BY <1>0, <1>1, <2>1, <2>2 DEF Answered
<1>10. ASSUME NEW a \in Agents, tryPutIdleConn(a) PROVE IdleLists' /\ Answered' /\ NoPanic'
  <2>1. /\ PutConn(a) \in Reqs
        /\ \/ PutShared(a) \/ PutRefused(a) \/ PutParked(a)
           \/ \E z \in Reqs : PutGiven(a, z)
    BY <1>10, PutOutcome DEF OwnInv
  <2>2. ASSUME Answers(PutConn(a)) PROVE Answered'
    BY <1>0, <2>2 DEF Answers, Answered
  <2>3. CASE PutShared(a)
    BY <1>0, <1>1, <2>3 DEF PutShared, Answered, NoPanic
  <2>4. CASE PutRefused(a)
    BY <1>0, <1>1, <2>2, <2>4 DEF PutRefused, NoPanic
  <2>5. CASE PutParked(a)
    <3>1. PICK d : Park(PutConn(a), KeyOf[PutConn(a)], d)
      BY <2>5 DEF PutParked
    <3>2. IdleLists' /\ panics' = panics
      BY <1>0, <2>1, <2>5, <3>1, ParkFacts DEF PutParked
    <3>. QED  BY <1>0, <2>2, <2>5, <3>2 DEF PutParked, NoPanic
  <2>6. ASSUME NEW z \in Reqs, PutGiven(a, z) PROVE IdleLists' /\ Answered' /\ NoPanic'
    <3>1. Answered'
      BY <1>0, <2>6 DEF PutGiven, Answered, TypeOK
    <3>. QED  BY <1>0, <1>1, <2>6, <3>1 DEF PutGiven, NoPanic
  <2>. QED  BY <2>1, <2>3, <2>4, <2>5, <2>6
<1>11. ASSUME CloseIdleConnections PROVE IdleLists' /\ Answered' /\ NoPanic'
  <2>1. /\ idleConn' = [k \in Keys |-> <<>>] /\ idleLRU' = <<>> /\ UNCHANGED <<done, result, panics>>
    BY <1>11 DEF CloseIdleConnections, callVars
  <2>2. Distinct(<<>>) /\ Range(<<>>) = {} /\ Len(<<>>) = 0
    BY DEF Distinct, Range
  <2>3. IdleLists'
    BY <2>1, <2>2, PoolAssumption DEF IdleLists
  <2>. QED  BY <1>0, <2>1, <2>3 DEF Answered, NoPanic
<1>12. ASSUME closeIdleDials PROVE IdleLists' /\ Answered' /\ NoPanic'
  BY <1>0, <1>1, <1>12 DEF closeIdleDials, callVars, idleVars, Answered, NoPanic
<1>. QED
  BY <1>3, <1>4, <1>5, <1>6, <1>7, <1>8, <1>9, <1>10, <1>11, <1>12
     DEF Next, getConn, PutBack

\* Every action keeps OwnInv.
LEMMA OwnInvStep == TypeInv /\ SlotInv /\ OwnInv /\ [Next]_vars => OwnInv'
<1>. SUFFICES ASSUME TypeInv, SlotInv, OwnInv, [Next]_vars PROVE OwnInv'
  OBVIOUS
<1>1. CASE Next
  <2>1. IdleLists' /\ Answered' /\ NoPanic'
    BY <1>1, ListsStep
  <2>2. \A c \in Reqs : Passed(c)
    BY <1>1, SimplePassed, PutPassed DEF OwnInv
  <2>3. OneOwner' /\ Dialled'
    BY <1>1, <2>2, ConnGrows, PassedStep DEF OwnInv
  <2>. QED  BY <2>1, <2>3 DEF OwnInv
<1>2. CASE UNCHANGED vars
  <2>1. \A c \in Reqs : Passed(c)
    <3>1. \A c \in Reqs : NoGain(c)
      BY <1>2 DEF vars, callVars, dialVars, idleVars, connVars, stopVars, NoGain, Gain, PutConn
    <3>. QED  BY <3>1, NoGainPassed
  <2>2. OneOwner' /\ Dialled'
    BY <1>2, <2>1, PassedStep DEF OwnInv, vars, connVars
  <2>. QED  BY <1>2, <2>2 DEF OwnInv, IdleLists, maxIdleConnsPerHost, Answered, NoPanic, vars, callVars, idleVars
<1>. QED  BY <1>1, <1>2

\* A new Transport satisfies OwnInv: nothing is dialled.
LEMMA OwnInvInit == Init => OwnInv
<1>. SUFFICES ASSUME Init PROVE OwnInv
  OBVIOUS
<1>1. \A c \in Reqs : \A t, x : ~Own(t, x, c)
  BY PoolAssumption DEF Init, Own, Agents, Range
<1>2. Distinct(<<>>) /\ Range(<<>>) = {} /\ Len(<<>>) = 0
  BY DEF Distinct, Range
<1>3. IdleLists
  BY <1>2, PoolAssumption DEF Init, IdleLists
<1>. QED  BY <1>1, <1>3 DEF OwnInv, OneOwner, Dialled, Answered, NoPanic, Init

-----------------------------------------------------------------------------
(* What follows.                                                           *)

\* Owners(c) lists exactly the pairs of Own.
LEMMA OwnersOwn ==
  ASSUME NEW c
  PROVE  /\ \A o \in Owners(c) : \E t, x : o = <<t, x>> /\ Own(t, x, c)
         /\ \A t, x : Own(t, x, c) => <<t, x>> \in Owners(c)
  BY DEF Owners, Own

\* At most one owner is at most one element of Owners.
LEMMA OneOwnerCard == OneOwner => ExclusiveOwner
<1>. SUFFICES ASSUME OneOwner, NEW c \in Reqs \ alt PROVE Cardinality(Owners(c)) <= 1
  BY DEF ExclusiveOwner
<1>1. CASE Owners(c) = {}
  BY <1>1, FS_EmptySet
<1>2. CASE Owners(c) # {}
  <2>1. PICK o : o \in Owners(c)
    BY <1>2
  <2>2. \A p \in Owners(c) : p = o
    BY <2>1, OwnersOwn DEF OneOwner
  <2>3. Owners(c) = {o}
    BY <2>1, <2>2
  <2>4. Cardinality({o}) = 1
    BY FS_Singleton
  <2>. QED  BY <2>3, <2>4
<1>. QED  BY <1>1, <1>2

\* The pool's invariants hold in every behaviour.
LEMMA PoolInvariants == Spec => [](TypeInv /\ SlotInv /\ OwnInv)
<1>1. Init => TypeInv /\ SlotInv /\ OwnInv
  BY TypeInvInit, SlotInvInit, OwnInvInit
<1>2. TypeInv /\ SlotInv /\ OwnInv /\ [Next]_vars => (TypeInv /\ SlotInv /\ OwnInv)'
  BY TypeInvStep, SlotInvStep, OwnInvStep
<1>. QED  BY <1>1, <1>2, PTL DEF Spec

\* Whatever the number of calls, hosts and limits, an HTTP/1 connection is
\* never in two hands: the dial, a result channel, a request, an agent that
\* returns it, the idle lists and CloseIdleConnections exclude each other.
THEOREM OneHand == Spec => []ExclusiveOwner
<1>1. TypeInv /\ SlotInv /\ OwnInv => ExclusiveOwner
  BY OneOwnerCard DEF OwnInv
<1>. QED  BY <1>1, PoolInvariants, PTL

\* The idle timeout never closes an HTTP/1 connection that a request has or is
\* about to receive: what closeConnIfStillIdle closes is in the LRU list, and
\* then the list is its only owner.
THEOREM TimeoutSpares == Spec => IdleTimeoutSparesUsed
<1>. DEFINE Spares == \A c \in expiring \ expiring' :
              c \notin alt /\ conn[c] = "open" /\ conn'[c] = "closed" =>
                  \A w \in Reqs : /\ result[w] # c
                                  /\ ~(caller[w] = "using" /\ held[w] = c)
<1>1. ASSUME TypeInv, SlotInv, OwnInv, [Next]_vars PROVE [Spares]_vars
  <2>. SUFFICES ASSUME Next, NEW c \in expiring \ expiring', c \notin alt, conn[c] = "open",
                       conn'[c] = "closed", NEW w \in Reqs
                PROVE  result[w] # c /\ ~(caller[w] = "using" /\ held[w] = c)
    BY <1>1
  <2>1. c \in Reqs \ alt
    BY <1>1 DEF TypeInv, TypeOK
  <2>2. closeConnIfStillIdle(c)
    <3>1. \A x \in Reqs : ~getConn(x) /\ ~dialConnFor(x) /\ ~UseConn(x)
      BY DEF getConn, queueForIdleConn, TakeIdle, WaitIdle, queueForDial, getConnResult, getConnCancel,
             dialConnFor, dialConnForStart, dialConnOK, dialConnFail, dialConnForDeliver,
             dialConnForDec, dialConnForExit, UseConn, readLoopDone, roundTripEnd, stopVars
    <3>2. ~CloseIdleConnections /\ ~closeIdleDials
      BY DEF CloseIdleConnections, closeIdleDials
    <3>3. \A a \in Agents : ~PutBack(a)
      BY DEF PutBack, tryPutIdleConnCheck, tryPutIdleConn, putOrCloseIdleConn, stopVars
    <3>4. ASSUME NEW x \in Reqs, CloseConn(x) PROVE closeConnIfStillIdle(x) /\ x = c
      BY <3>4 DEF CloseConn, persistConnClose, readLoopExit, idleTimer, closeConnIfStillIdle,
             closeIdleClose, stopVars
    <3>. QED  BY <3>1, <3>2, <3>3, <3>4 DEF Next
  <2>3. Own("idle", c, c)
    BY <2>2 DEF closeConnIfStillIdle, Own
  <2>4. ~Own("result", w, c) /\ ~Own("using", w, c)
    BY <1>1, <2>1, <2>3 DEF OwnInv, OneOwner
  <2>. QED  BY <2>4 DEF Own
<1>2. [][Spares]_vars <=> IdleTimeoutSparesUsed
  BY DEF IdleTimeoutSparesUsed
<1>. QED  BY <1>1, <1>2, PoolInvariants, PTL DEF Spec

-----------------------------------------------------------------------------
(* Running dials can be found.                                             *)

\* Every action keeps DialsTracked: cleanFrontCanceled drops finished dials only.
LEMMA TrackedStep ==
  ASSUME TypeInv, SlotInv, OwnInv, DialsTracked, [Next]_vars
  PROVE  DialsTracked'
<1>0. TypeOK
  BY DEF TypeInv
<1>1. ASSUME UNCHANGED <<dialer, dialsInProgress>> PROVE DialsTracked'
  BY <1>1 DEF DialsTracked
<1>2. ASSUME NEW x, Closed(x) PROVE DialsTracked'
  BY <1>2 DEF Closed, DialsTracked
<1>3. ASSUME NEW w \in Reqs, NEW v, UNCHANGED dialsInProgress, dialer' = [dialer EXCEPT ![w] = v],
             v \in {"none", "queued", "end"} \/ dialer[w] \in {"start", "dialing", "deliver", "dec", "exit"}
      PROVE  DialsTracked'
  <2>1. dialer'[w] = v /\ \A x \in Reqs \ {w} : dialer'[x] = dialer[x]
    BY <1>0, <1>3 DEF TypeOK
  <2>. QED  BY <1>3, <2>1 DEF DialsTracked
<1>4. ASSUME NEW w \in Reqs, startDialConnForLocked(w, dialer) PROVE DialsTracked'
  <2>1. /\ dialer' = [dialer EXCEPT ![w] = "start"] /\ w \in Range(dialsInProgress')
        /\ \A x \in Range(dialsInProgress) : dialer[x] # "end" => x \in Range(dialsInProgress')
    BY <1>0, <1>4, StartFacts
  <2>2. \A x \in Reqs \ {w} : dialer'[x] = dialer[x]
    BY <1>0, <2>1 DEF TypeOK
  <2>. QED  BY <2>1, <2>2 DEF DialsTracked
<1>5. ASSUME NEW x \in Reqs, closeLocked(x, done) PROVE DialsTracked'
  BY <1>0, <1>2, <1>5, CloseFacts
<1>6. ASSUME NEW w \in Reqs, getConn(w) \/ UseConn(w) PROVE DialsTracked'
  <2>1. CASE queueForDial(w)
    BY <1>3, <1>4, <2>1 DEF queueForDial
  <2>2. CASE ~queueForDial(w)
    BY <1>1, <1>6, <2>2 DEF getConn, UseConn, queueForIdleConn, getConnResult, getConnCancel,
           readLoopDone, roundTripEnd, dialVars, slotVars
  <2>. QED  BY <2>1, <2>2
<1>7. ASSUME NEW w \in Reqs, dialConnFor(w), ~dialConnForDec(w) PROVE DialsTracked'
  <2>1. /\ UNCHANGED dialsInProgress /\ dialer[w] \in {"start", "dialing", "deliver", "dec", "exit"}
        /\ \E v : dialer' = [dialer EXCEPT ![w] = v]
    BY <1>7 DEF dialConnFor, dialConnForStart, dialConnOK, dialConnFail, dialConnForDeliver,
           dialConnForExit, slotVars
  <2>. QED  BY <1>3, <2>1
<1>8. ASSUME NEW w \in Reqs, dialConnForDec(w) PROVE DialsTracked'
  <2>. DEFINE dl == [dialer EXCEPT ![w] = "exit"]
  <2>1. /\ decConnsPerHost(KeyOf[w], dl, done) /\ HoldsSlot(w) /\ dl \in [Reqs -> DialStates]
        /\ dialer[w] = "dec"
    BY <1>0, <1>8 DEF dialConnForDec, HoldsSlot, TypeOK, DialStates
  <2>2. dl[w] = "exit" /\ \A x \in Reqs \ {w} : dl[x] = dialer[x]
    BY <1>0 DEF TypeOK
  <2>. HIDE DEF dl
  <2>3. /\ \A x \in Reqs : \/ dialer'[x] = dl[x]
                           \/ /\ dialer[x] = "queued" /\ dialer'[x] = "start"
                              /\ x \in Range(dialsInProgress')
        /\ \A x \in Range(dialsInProgress) : dl[x] # "end" => x \in Range(dialsInProgress')
    BY <1>0, <2>1, DecFacts
  <2>. QED  BY <2>1, <2>2, <2>3 DEF DialsTracked
<1>9. ASSUME NEW c \in Reqs, CloseConn(c) PROVE DialsTracked'
  <2>1. UNCHANGED <<dialer, dialsInProgress>> \/ closeLocked(c, done)
    BY <1>9 DEF CloseConn, persistConnClose, readLoopExit, idleTimer, closeConnIfStillIdle,
           closeIdleClose, dialVars, slotVars
  <2>. QED  BY <1>1, <1>5, <2>1
<1>10. ASSUME NEW a \in Agents, tryPutIdleConnCheck(a) \/ putOrCloseIdleConn(a) PROVE DialsTracked'
  <2>1. (UNCHANGED <<dialer, dialsInProgress>> \/ closeLocked(PutConn(a), done)) /\ put[a] # "no"
    BY <1>10 DEF tryPutIdleConnCheck, putOrCloseIdleConn, dialVars, slotVars
  <2>. QED  BY <1>1, <1>5, <2>1, PutConnTyped
<1>11. ASSUME NEW a \in Agents, tryPutIdleConn(a) PROVE DialsTracked'
  <2>1. /\ PutConn(a) \in Reqs
        /\ \/ PutShared(a) \/ PutRefused(a) \/ PutParked(a)
           \/ \E z \in Reqs : PutGiven(a, z)
    BY <1>11, PutOutcome DEF OwnInv
  <2>2. CASE PutParked(a)
    <3>1. PICK d : Park(PutConn(a), KeyOf[PutConn(a)], d)
      BY <2>2 DEF PutParked
    <3>2. UNCHANGED <<conn, dialVars>> \/ \E o : Closed(o)
      BY <1>0, <2>1, <2>2, <3>1, ParkFacts DEF PutParked, OwnInv
    <3>. QED  BY <1>1, <1>2, <3>2 DEF dialVars, slotVars
  <2>. QED  BY <1>1, <2>1, <2>2 DEF PutShared, PutRefused, PutGiven, dialVars, slotVars
<1>12. ASSUME CloseIdleConnections \/ closeIdleDials \/ UNCHANGED vars PROVE DialsTracked'
  BY <1>1, <1>12 DEF CloseIdleConnections, closeIdleDials, vars, dialVars, slotVars
<1>. QED  BY <1>6, <1>7, <1>8, <1>9, <1>10, <1>11, <1>12 DEF Next, PutBack

\* Every running dial is on dialsInProgress, where CloseIdleConnections finds it.
THEOREM DialsFound == Spec => []DialsTracked
<1>1. Init => DialsTracked
  BY DEF Init, DialsTracked
<1>2. TypeInv /\ SlotInv /\ OwnInv /\ DialsTracked /\ [Next]_vars => DialsTracked'
  BY TrackedStep
<1>. QED  BY <1>1, <1>2, PoolInvariants, PTL DEF Spec

-----------------------------------------------------------------------------
(* Waiting callers and idle connections of a host exclude each other.      *)

\* A step that fills no empty idle list and adds no waiter beside a full one.
LEMMA WantedKept ==
  ASSUME NoIdleWhileWanted, done \subseteq done',
         \A k \in Keys :
            \/ idleConn'[k] = <<>>
            \/ idleConnWait'[k] = <<>>
            \/ /\ Range(idleConnWait'[k]) \subseteq Range(idleConnWait[k])
               /\ idleConn[k] = <<>> => idleConn'[k] = <<>>
  PROVE  NoIdleWhileWanted'
<1>1. Range(<<>>) = {}
  BY DEF Range
<1>. QED  BY <1>1 DEF NoIdleWhileWanted

\* Taking a connection off an empty list leaves it empty.
LEMMA WithoutEmpty == \A c : Without(<<>>, c) = <<>>
  BY DEF Without, Range

\* Every action keeps NoIdleWhileWanted.
LEMMA WantedStep ==
  ASSUME TypeInv, SlotInv, OwnInv, NoIdleWhileWanted, [Next]_vars
  PROVE  NoIdleWhileWanted'
<1>0. TypeOK
  BY DEF TypeInv
<1>1. ASSUME done \subseteq done', UNCHANGED <<idleConn, idleConnWait>> PROVE NoIdleWhileWanted'
  BY <1>1 DEF NoIdleWhileWanted
<1>2. ASSUME NEW x \in Reqs, UNCHANGED <<done, idleConnWait>>, RemoveIdleConn(x)
      PROVE  NoIdleWhileWanted'
  BY <1>0, <1>2, WithoutEmpty, WantedKept DEF RemoveIdleConn, TypeOK
<1>3. ASSUME NEW w \in Reqs, queueForIdleConn(w) PROVE NoIdleWhileWanted'
  <2>. DEFINE list == idleConn[KeyOf[w]]
  <2>1. KeyOf[w] \in Keys /\ list \in Seq(Reqs)
    BY <1>0, PoolAssumption DEF TypeOK
  <2>2. CASE UNCHANGED <<done, result, idleVars>>
    BY <1>1, <2>2 DEF idleVars
  <2>3. ASSUME NEW m, m \in 1 .. Len(list), TakeIdle(w, list, m) PROVE NoIdleWhileWanted'
    <3>1. list # <<>>
      BY <2>1, <2>3
    <3>2. /\ done \subseteq done' /\ idleConnWait' = idleConnWait
          /\ \A k \in Keys \ {KeyOf[w]} : idleConn'[k] = idleConn[k]
      BY <1>0, <2>3 DEF TakeIdle, TypeOK
    <3>. QED  BY <3>1, <3>2, WantedKept
  <2>4. ASSUME NEW old, WaitIdle(w, list, old) PROVE NoIdleWhileWanted'
    <3>1. /\ done' = done /\ idleConn'[KeyOf[w]] = <<>>
          /\ \A k \in Keys \ {KeyOf[w]} : idleConn'[k] = idleConn[k] /\ idleConnWait'[k] = idleConnWait[k]
      BY <1>0, <2>1, <2>4 DEF WaitIdle, TypeOK
    <3>. QED  BY <3>1, WantedKept
  <2>5. \/ UNCHANGED <<done, result, idleVars>>
        \/ \E m \in 1 .. Len(list) : TakeIdle(w, list, m)
        \/ \E old : WaitIdle(w, list, old)
    <3>2. Len(list) \in Nat
      BY <2>1
    <3>. HIDE DEF list
    <3>3. \A old \in 0 .. Len(list) : \A i \in old + 1 .. Len(list) : i \in 1 .. Len(list)
      BY <3>2
    <3>4. (IF IdleConnTimeout THEN Len(list) ELSE 0) \in 0 .. Len(list)
      BY <3>2
    <3>. QED  BY <1>3, <3>2, <3>3, <3>4 DEF queueForIdleConn, list
  <2>. QED  BY <2>2, <2>3, <2>4, <2>5
<1>4. ASSUME NEW w \in Reqs, getConn(w) \/ UseConn(w) \/ dialConnFor(w), ~queueForIdleConn(w)
      PROVE  NoIdleWhileWanted'
  <2>1. UNCHANGED <<idleConn, idleConnWait>>
    BY <1>4 DEF getConn, UseConn, dialConnFor, queueForDial, getConnResult, getConnCancel, readLoopDone,
           roundTripEnd, dialConnForStart, dialConnOK, dialConnFail, dialConnForDeliver,
           dialConnForDec, dialConnForExit, idleVars
  <2>2. done \subseteq done'
    BY <1>4 DEF getConn, UseConn, dialConnFor, queueForDial, getConnResult, getConnCancel, readLoopDone,
           roundTripEnd, dialConnForStart, dialConnOK, dialConnFail, dialConnForDeliver,
           dialConnForDec, dialConnForExit, callVars, tryDeliver
  <2>. QED  BY <1>1, <2>1, <2>2
<1>5. ASSUME NEW c \in Reqs, CloseConn(c) PROVE NoIdleWhileWanted'
  <2>1. UNCHANGED <<done, idleConnWait>> /\ (UNCHANGED idleConn \/ RemoveIdleConn(c))
    BY <1>5 DEF CloseConn, persistConnClose, readLoopExit, idleTimer, closeConnIfStillIdle,
           closeIdleClose, callVars, idleVars
  <2>. QED  BY <1>1, <1>2, <2>1
<1>6. ASSUME NEW a \in Agents, tryPutIdleConnCheck(a) \/ putOrCloseIdleConn(a)
      PROVE  NoIdleWhileWanted'
  BY <1>1, <1>6 DEF tryPutIdleConnCheck, putOrCloseIdleConn, callVars, idleVars
<1>7. ASSUME NEW a \in Agents, tryPutIdleConn(a) PROVE NoIdleWhileWanted'
  <2>. DEFINE c == PutConn(a)
              k == KeyOf[c]
              q == idleConnWait[k]
  <2>1. c \in Reqs /\ k \in Keys /\ q \in Seq(Reqs) /\ done \subseteq done'
    <3>1. c \in Reqs
      BY <1>7, PutConnTyped DEF tryPutIdleConn
    <3>2. k \in Keys /\ q \in Seq(Reqs)
      BY <1>0, <3>1, PoolAssumption DEF TypeOK
    <3>3. done \subseteq done'
      BY <1>7 DEF tryPutIdleConn, tryDeliver
    <3>. QED  BY <3>1, <3>2, <3>3
  <2>2. ASSUME NEW d, PutIdle(a, c, d), idleConnWait' = [idleConnWait EXCEPT ![k] = <<>>]
        PROVE  NoIdleWhileWanted'
    <3>1. idleConnWait'[k] = <<>> /\ \A kk \in Keys \ {k} : idleConnWait'[kk] = idleConnWait[kk]
      BY <1>0, <2>1, <2>2 DEF TypeOK
    <3>2. \A kk \in Keys \ {k} : idleConn[kk] = <<>> => idleConn'[kk] = <<>>
      <4>1. CASE UNCHANGED idleConn
        BY <4>1
      <4>2. CASE Park(c, k, d)
        <5>. DEFINE list == [idleConn EXCEPT ![k] = Append(@, c)]
        <5>1. \A kk \in Keys \ {k} : list[kk] = idleConn[kk]
          BY <1>0 DEF TypeOK
        <5>2. DOMAIN list = Keys
          BY <1>0 DEF TypeOK
        <5>3. idleConn' = list \/ \E o : idleConn' = [list EXCEPT ![KeyOf[o]] = Without(@, o)]
          BY <4>2 DEF Park
        <5>. HIDE DEF list
        <5>. QED  BY <5>1, <5>2, <5>3, WithoutEmpty
      <4>. QED  BY <2>2, <4>1, <4>2 DEF PutIdle
    <3>. QED  BY <2>1, <3>1, <3>2, WantedKept
  <2>3. ASSUME NEW i \in DOMAIN q, idleConnWait' = [idleConnWait EXCEPT ![k] = SubSeq(q, i + 1, Len(q))],
               UNCHANGED idleConn
        PROVE  NoIdleWhileWanted'
    <3>. DEFINE p == SubSeq(q, i + 1, Len(q))
    <3>1. i \in 0 .. Len(q) /\ Len(q) \in Nat /\ DOMAIN q = 1 .. Len(q)
      BY <2>1
    <3>2. /\ p \in Seq(Reqs) /\ Len(p) = Len(q) - i
          /\ \A j \in 1 .. Len(q) - i : p[j] = q[i + j]
      BY <2>1, <3>1, SuffixFacts
    <3>. HIDE DEF p, q
    <3>3. \A j \in 1 .. Len(q) - i : i + j \in DOMAIN q
      BY <3>1
    <3>4. Range(p) \subseteq Range(q)
      BY <3>1, <3>2, <3>3 DEF Range
    <3>5. idleConnWait'[k] = p /\ \A kk \in Keys \ {k} : idleConnWait'[kk] = idleConnWait[kk]
      BY <1>0, <2>1, <2>3 DEF TypeOK, p
    <3>. QED  BY <2>1, <2>3, <3>4, <3>5, WantedKept DEF q
  <2>. QED  BY <1>1, <1>7, <2>1, <2>2, <2>3 DEF tryPutIdleConn
<1>8. ASSUME CloseIdleConnections PROVE NoIdleWhileWanted'
  BY <1>8 DEF CloseIdleConnections, NoIdleWhileWanted
<1>9. ASSUME closeIdleDials \/ UNCHANGED vars PROVE NoIdleWhileWanted'
  BY <1>1, <1>9 DEF closeIdleDials, vars, callVars, idleVars
<1>. QED  BY <1>3, <1>4, <1>5, <1>6, <1>7, <1>8, <1>9 DEF Next, PutBack

\* While a caller waits for an idle connection of a host, the host keeps none.
THEOREM WaitersFirst == Spec => []NoIdleWhileWanted
<1>1. Init => NoIdleWhileWanted
  BY DEF Init, NoIdleWhileWanted
<1>2. TypeInv /\ SlotInv /\ OwnInv /\ NoIdleWhileWanted /\ [Next]_vars => NoIdleWhileWanted'
  BY WantedStep
<1>. QED  BY <1>1, <1>2, PoolInvariants, PTL DEF Spec

-----------------------------------------------------------------------------
(* No connection is lost.                                                  *)

\* A call that did not look for an idle connection yet is not waiting for one
\* and was not answered.
Unstarted ==
    \A w \in Reqs : caller[w] = "start" =>
        w \notin done /\ \A k \in Keys : w \notin Range(idleConnWait[k])

\* Between its calls CloseIdleConnections has closed all it took off the lists.
Closer == (closer = "no" => doomed = {}) /\ closeCalls \in 0 .. CloseIdleCalls

\* Without an idle timeout every open HTTP/1 connection of the LRU list is on
\* the idle list of its host, where CloseIdleConnections takes it from.
OpenListed ==
    ~IdleConnTimeout =>
        \A c \in Range(idleLRU) \ alt : conn[c] = "open" => c \in Range(idleConn[KeyOf[c]])

Owned(c) == \E t, x : Own(t, x, c)

\* NoOrphan, in the configurations it is claimed for.
OpenOwned ==
    ~IdleConnTimeout \/ CloseIdleCalls = 0 =>
        \A c \in Reqs \ alt : conn[c] = "open" => Owned(c)

LeakInv == Unstarted /\ Closer /\ OpenListed /\ OpenOwned

\* A step in which only z, as r, can stop being an owner of c.
Lose(c, r, z) ==
    /\ dialer[c] = "deliver" => dialer'[c] = "deliver" \/ (r = "dial" /\ z = c)
    /\ \A x \in Reqs : result[x] = c => result'[x] = c \/ (r = "result" /\ z = x)
    /\ \A x \in Reqs : caller[x] = "using" /\ held[x] = c =>
                           (caller'[x] = "using" /\ held'[x] = c) \/ (r = "using" /\ z = x)
    /\ \A x \in Agents : put[x] # "no" /\ PutConn(x) = c =>
                             (put'[x] # "no" /\ PutConn(x)' = c) \/ (r = "put" /\ z = x)
    /\ c \in Range(idleLRU) => c \in Range(idleLRU') \/ (r = "idle" /\ z = c)
    /\ c \in doomed => c \in doomed' \/ (r = "doomed" /\ z = c)

NoLoss(c) == Lose(c, "nobody", "nobody")

\* A connection loses an owner only where one of the pool's tables loses it.
LEMMA Loses ==
  ASSUME NEW c \in Reqs, NEW r, NEW z, Lose(c, r, z)
  PROVE  \A t, x : Own(t, x, c) => Own(t, x, c)' \/ (t = r /\ x = z)
<1>. USE DEF Lose
<1>. SUFFICES ASSUME NEW t, NEW x, Own(t, x, c) PROVE Own(t, x, c)' \/ (t = r /\ x = z)
  OBVIOUS
<1>1. CASE t = "dial" /\ x = c /\ dialer[c] = "deliver"
  BY <1>1 DEF Own
<1>2. CASE t = "result" /\ x \in Reqs /\ result[x] = c
  BY <1>2 DEF Own
<1>3. CASE t = "using" /\ x \in Reqs /\ caller[x] = "using" /\ held[x] = c
  BY <1>3 DEF Own
<1>4. CASE t = "put" /\ x \in Agents /\ put[x] # "no" /\ PutConn(x) = c
  BY <1>4 DEF Own
<1>5. CASE t = "idle" /\ x = c /\ c \in Range(idleLRU)
  BY <1>5 DEF Own
<1>6. CASE t = "doomed" /\ x = c /\ c \in doomed
  BY <1>6 DEF Own
<1>. QED  BY <1>1, <1>2, <1>3, <1>4, <1>5, <1>6 DEF Own

\* A step after which c is still owned if it is open and HTTP/1.
Safe(c) == conn'[c] = "open" /\ c \notin alt' => Owned(c)' \/ (conn[c] = "open" /\ ~Owned(c))

\* A step in which c loses no owner, or is opened or closed, is safe.
LEMMA NoLossSafe ==
  ASSUME NEW c \in Reqs, NoLoss(c), conn'[c] = "open" => conn[c] = "open"
  PROVE  Safe(c)
<1>1. \A t, x : Own(t, x, c) => Own(t, x, c)' \/ (t = "nobody" /\ x = "nobody")
  BY Loses DEF NoLoss
<1>2. ~Own("nobody", "nobody", c)
  BY DEF Own
<1>3. Owned(c) => Owned(c)'
  BY <1>1, <1>2 DEF Owned
<1>. QED  BY <1>3 DEF Safe

\* Safe steps keep OpenOwned.
LEMMA SafeStep ==
  ASSUME OpenOwned, alt \subseteq alt',
         ~IdleConnTimeout \/ CloseIdleCalls = 0 => \A c \in Reqs : Safe(c)
  PROVE  OpenOwned'
<1>. SUFFICES ASSUME ~IdleConnTimeout \/ CloseIdleCalls = 0, NEW c \in Reqs \ alt', conn'[c] = "open"
              PROVE  Owned(c)'
  BY DEF OpenOwned
<1>. QED  BY DEF OpenOwned, Safe

\* A connection that is handed over, or whose last owner goes when it is closed,
\* is safe.
LEMMA OwnedSafe ==
  ASSUME NEW c, NEW t, NEW x, Own(t, x, c)'
  PROVE  Safe(c)
  BY DEF Safe, Owned

\* Every action leaves each open HTTP/1 connection with an owner, if it had one.
LEMMA AllSafe ==
  ASSUME TypeInv, SlotInv, OwnInv, LeakInv, Next,
         ~IdleConnTimeout \/ CloseIdleCalls = 0, NEW c \in Reqs
  PROVE  Safe(c)
<1>0. TypeOK /\ OneOwner /\ Dialled /\ IdleLists /\ Answered /\ NoConn \notin Reqs
  BY PoolAssumption DEF TypeInv, OwnInv
<1>1. ASSUME NEW w \in Reqs, queueForIdleConn(w) PROVE Safe(c)
  <2>. DEFINE list == idleConn[KeyOf[w]]
  <2>1. KeyOf[w] \in Keys /\ list \in Seq(Reqs) /\ idleLRU \in Seq(Reqs)
    BY <1>0, PoolAssumption DEF TypeOK
  <2>2. UNCHANGED <<held, dialer, conn, alt, put, doomed>> /\ caller[w] = "start"
    BY <1>1 DEF queueForIdleConn, dialVars, connVars
  <2>3. CASE UNCHANGED <<result, idleLRU>> /\ caller' = [caller EXCEPT ![w] = "queueForDial"]
    <3>1. NoLoss(c)
      BY <1>0, <2>2, <2>3 DEF NoLoss, Lose, PutConn, TypeOK
    <3>. QED  BY <2>2, <3>1, NoLossSafe
  <2>4. ASSUME NEW m \in 1 .. Len(list), TakeIdle(w, list, m) PROVE Safe(c)
    <3>. DEFINE p == list[m]
    <3>1. p \in Reqs
      BY <2>1
    <3>2. /\ caller' = [caller EXCEPT ![w] = "select"]
          /\ result' = [result EXCEPT ![w] = p]
          /\ idleLRU' = IF p \in alt THEN idleLRU ELSE Without(idleLRU, p)
      BY <2>4 DEF TakeIdle
    <3>3. Range(Without(idleLRU, p)) = Range(idleLRU) \ {p}
      BY <1>0, <2>1, WithoutFacts DEF IdleLists
    <3>4. result[w] = NoConn
      BY <1>0, <2>2 DEF LeakInv, Unstarted, Answered
    <3>. HIDE DEF p
    <3>5. CASE c = p
      <4>1. Own("result", w, c)'
        BY <1>0, <3>2, <3>5 DEF Own, TypeOK
      <4>. QED  BY <4>1, OwnedSafe
    <3>6. CASE c # p
      <4>1. NoLoss(c)
        BY <1>0, <2>2, <3>2, <3>3, <3>4, <3>6 DEF NoLoss, Lose, PutConn, TypeOK
      <4>. QED  BY <2>2, <4>1, NoLossSafe
    <3>. QED  BY <3>5, <3>6
  <2>. QED  BY <1>1, <2>3, <2>4 DEF queueForIdleConn, WaitIdle, idleVars
<1>2. ASSUME NEW w \in Reqs, queueForDial(w) PROVE Safe(c)
  <2>1. /\ UNCHANGED <<result, held, put, idleLRU, doomed, conn>>
        /\ caller[w] = "queueForDial" /\ caller' = [caller EXCEPT ![w] = "select"]
    BY <1>2 DEF queueForDial, idleVars, stopVars, connVars
  <2>2. PICK v \in {"start", "queued"} : dialer' = [dialer EXCEPT ![w] = v]
    BY <1>2 DEF queueForDial, startDialConnForLocked
  <2>3. dialer[w] = "none"
    BY <2>1 DEF SlotInv, DialStage
  <2>4. NoLoss(c)
    BY <1>0, <2>1, <2>2, <2>3 DEF NoLoss, Lose, PutConn, TypeOK
  <2>. QED  BY <2>1, <2>4, NoLossSafe
<1>3. ASSUME NEW w \in Reqs, getConnResult(w) PROVE Safe(c)
  <2>1. /\ UNCHANGED <<dialer, put, idleLRU, doomed, conn, alt>> /\ result' = [result EXCEPT ![w] = NoConn]
        /\ caller[w] = "select"
    BY <1>3 DEF getConnResult, idleVars, stopVars, dialVars, connVars
  <2>2. put[<<"cancel", w>>] = "no"
    BY <2>1 DEF TypeInv, HeldTyped
  <2>3. CASE result[w] = DialErr /\ caller' = [caller EXCEPT ![w] = "returned"] /\ UNCHANGED held
    <3>1. NoLoss(c)
      BY <1>0, <2>1, <2>2, <2>3, PoolAssumption DEF NoLoss, Lose, PutConn, TypeOK
    <3>. QED  BY <2>1, <3>1, NoLossSafe
  <2>4. CASE /\ result[w] # DialErr /\ caller' = [caller EXCEPT ![w] = "using"]
             /\ held' = [held EXCEPT ![w] = result[w]]
    <3>1. \A a \in Agents : put[a] # "no" => put'[a] # "no" /\ PutConn(a)' = PutConn(a)
      BY <1>0, <2>1, <2>2, <2>4, Agent DEF TypeOK
    <3>2. CASE c = result[w]
      <4>1. Own("using", w, c)'
        BY <1>0, <2>4, <3>2 DEF Own, TypeOK
      <4>. QED  BY <4>1, OwnedSafe
    <3>3. CASE c # result[w]
      <4>1. NoLoss(c)
        BY <1>0, <2>1, <2>4, <3>1, <3>3 DEF NoLoss, Lose, TypeOK
      <4>. QED  BY <2>1, <4>1, NoLossSafe
    <3>. QED  BY <3>2, <3>3
  <2>. QED  BY <1>3, <2>3, <2>4 DEF getConnResult
<1>4. ASSUME NEW w \in Reqs, getConnCancel(w) PROVE Safe(c)
  <2>1. /\ UNCHANGED <<dialer, idleLRU, doomed, conn, alt>> /\ result' = [result EXCEPT ![w] = NoConn]
        /\ caller[w] = "select" /\ caller' = [caller EXCEPT ![w] = "returned"]
    BY <1>4 DEF getConnCancel, idleVars, stopVars, dialVars, connVars
  <2>2. put[<<"cancel", w>>] = "no" /\ <<"cancel", w>> \in Agents
    BY <2>1 DEF TypeInv, HeldTyped, Agents
  <2>3. CASE result[w] \notin Reqs /\ UNCHANGED <<held, put>>
    <3>1. NoLoss(c)
      BY <1>0, <2>1, <2>3 DEF NoLoss, Lose, PutConn, TypeOK
    <3>. QED  BY <2>1, <3>1, NoLossSafe
  <2>4. CASE /\ result[w] \in Reqs /\ held' = [held EXCEPT ![w] = result[w]]
             /\ put' = [put EXCEPT ![<<"cancel", w>>] = "check"]
    <3>1. \A a \in Agents : put[a] # "no" => put'[a] # "no" /\ PutConn(a)' = PutConn(a)
      BY <1>0, <2>1, <2>2, <2>4, Agent DEF TypeOK
    <3>2. CASE c = result[w]
      <4>1. PutConn(<<"cancel", w>>)' = c /\ put'[<<"cancel", w>>] = "check"
        BY <1>0, <2>2, <2>4, <3>2 DEF PutConn, TypeOK
      <4>2. Own("put", <<"cancel", w>>, c)'
        BY <2>2, <4>1 DEF Own
      <4>. QED  BY <4>2, OwnedSafe
    <3>3. CASE c # result[w]
      <4>1. NoLoss(c)
        BY <1>0, <2>1, <2>4, <3>1, <3>3 DEF NoLoss, Lose, TypeOK
      <4>. QED  BY <2>1, <4>1, NoLossSafe
    <3>. QED  BY <3>2, <3>3
  <2>. QED  BY <1>4, <2>3, <2>4 DEF getConnCancel
<1>5. ASSUME NEW w \in Reqs, dialConnOK(w) PROVE Safe(c)
  <2>1. /\ UNCHANGED <<caller, held, result, put, idleLRU, doomed>>
        /\ dialer' = [dialer EXCEPT ![w] = "deliver"] /\ conn' = [conn EXCEPT ![w] = "open"]
        /\ dialer[w] = "dialing"
    BY <1>5 DEF dialConnOK, callVars, idleVars, stopVars
  <2>2. CASE c = w
    <3>1. Own("dial", c, c)'
      BY <1>0, <2>1, <2>2 DEF Own, TypeOK
    <3>. QED  BY <3>1, OwnedSafe
  <2>3. CASE c # w
    <3>1. NoLoss(c) /\ conn'[c] = conn[c]
      BY <1>0, <2>1, <2>3 DEF NoLoss, Lose, PutConn, TypeOK
    <3>. QED  BY <3>1, NoLossSafe
  <2>. QED  BY <2>2, <2>3
<1>6. ASSUME NEW w \in Reqs, dialConnForStart(w) \/ dialConnForExit(w) PROVE Safe(c)
  <2>1. UNCHANGED <<caller, held, result, put, idleLRU, doomed, conn>> /\ dialer[w] \in {"start", "exit"}
    BY <1>6 DEF dialConnForStart, dialConnForExit, callVars, idleVars, stopVars, connVars
  <2>2. PICK v \in {"dec", "dialing", "end"} : dialer' = [dialer EXCEPT ![w] = v]
    BY <1>6 DEF dialConnForStart, dialConnForExit
  <2>3. NoLoss(c)
    BY <1>0, <2>1, <2>2 DEF NoLoss, Lose, PutConn, TypeOK
  <2>. QED  BY <2>1, <2>3, NoLossSafe
<1>7. ASSUME NEW w \in Reqs, dialConnFail(w) PROVE Safe(c)
  <2>1. /\ UNCHANGED <<caller, held, put, idleLRU, doomed, conn>> /\ dialer' = [dialer EXCEPT ![w] = "dec"]
        /\ dialer[w] = "dialing"
    BY <1>7 DEF dialConnFail, idleVars, stopVars, connVars
  <2>2. result' = result \/ (result[w] = NoConn /\ result' = [result EXCEPT ![w] = DialErr])
    BY <1>0, <1>7 DEF dialConnFail, tryDeliver, Answered
  <2>3. NoLoss(c)
    BY <1>0, <2>1, <2>2 DEF NoLoss, Lose, PutConn, TypeOK
  <2>. QED  BY <2>1, <2>3, NoLossSafe
<1>8. ASSUME NEW w \in Reqs, dialConnForDeliver(w) PROVE Safe(c)
  <2>. DEFINE b == <<"dialConnFor", w>>
  <2>1. /\ UNCHANGED <<caller, held, idleLRU, doomed, conn, alt>>
        /\ dialer' = [dialer EXCEPT ![w] = "exit"] /\ dialer[w] = "deliver"
        /\ result' = IF w \in done THEN result ELSE [result EXCEPT ![w] = w]
        /\ put' = IF w \in done \/ w \in alt THEN [put EXCEPT ![b] = "check"] ELSE put
    BY <1>8 DEF dialConnForDeliver, tryDeliver, idleVars, stopVars, connVars
  <2>2. /\ \A a \in Agents : PutConn(a)' = PutConn(a)
        /\ b \in Agents /\ PutConn(b)' = w
    BY <2>1 DEF PutConn, Agents
  <2>3. CASE c # w
    <3>1. NoLoss(c)
      BY <1>0, <2>1, <2>2, <2>3 DEF NoLoss, Lose, Answered, TypeOK
    <3>. QED  BY <2>1, <3>1, NoLossSafe
  <2>4. CASE c = w /\ w \in done
    <3>1. Own("put", b, c)'
      BY <1>0, <2>1, <2>2, <2>4 DEF Own, TypeOK
    <3>. QED  BY <3>1, OwnedSafe
  <2>5. CASE c = w /\ w \notin done
    <3>1. Own("result", w, c)'
      BY <1>0, <2>1, <2>5 DEF Own, TypeOK
    <3>. QED  BY <3>1, OwnedSafe
  <2>. QED  BY <2>3, <2>4, <2>5
<1>9. ASSUME NEW w \in Reqs, dialConnForDec(w) PROVE Safe(c)
  <2>. DEFINE dl == [dialer EXCEPT ![w] = "exit"]
  <2>1. UNCHANGED <<caller, held, result, put, idleLRU, doomed, conn>> /\ dialer[w] = "dec"
    BY <1>9 DEF dialConnForDec, callVars, idleVars, stopVars, connVars
  <2>2. dl \in [Reqs -> DialStates] /\ \A x \in Reqs : dl[x] = "deliver" <=> dialer[x] = "deliver"
    BY <1>0, <2>1 DEF TypeOK, DialStates
  <2>3. decConnsPerHost(KeyOf[w], dl, done) /\ HoldsSlot(w)
    BY <1>9 DEF dialConnForDec, HoldsSlot
  <2>. HIDE DEF dl
  <2>4. dialer[c] = "deliver" => dialer'[c] = "deliver"
    BY <1>0, <2>2, <2>3, DecFacts
  <2>5. NoLoss(c)
    BY <2>1, <2>4 DEF NoLoss, Lose, PutConn
  <2>. QED  BY <2>1, <2>5, NoLossSafe
<1>10. ASSUME NEW a \in Agents, tryPutIdleConnCheck(a) PROVE Safe(c)
  <2>1. UNCHANGED <<caller, held, result, dialer, idleLRU, doomed, conn>>
    BY <1>10 DEF tryPutIdleConnCheck, callVars, dialVars, idleVars, stopVars
  <2>2. PICK v \in {"close", "lock"} : put' = [put EXCEPT ![a] = v]
    BY <1>10 DEF tryPutIdleConnCheck
  <2>3. NoLoss(c)
    BY <1>0, <2>1, <2>2 DEF NoLoss, Lose, PutConn, TypeOK
  <2>. QED  BY <2>1, <2>3, NoLossSafe
<1>11. ASSUME NEW x \in Reqs, Closed(x)
       PROVE  /\ conn'[x] # "open"
              /\ conn'[c] = "open" => conn[c] = "open"
              /\ dialer[c] = "deliver" => dialer'[c] = "deliver"
  BY <1>11 DEF Closed
<1>12. ASSUME NEW a \in Agents, putOrCloseIdleConn(a) PROVE Safe(c)
  <2>1. UNCHANGED <<caller, result, idleLRU, doomed>> /\ put[a] # "no" /\ EndPut(a)
    BY <1>12 DEF putOrCloseIdleConn, idleVars, stopVars
  <2>2. PutConn(a) \in Reqs /\ closeLocked(PutConn(a), done)
    BY <1>12, <2>1, PutConnTyped DEF putOrCloseIdleConn
  <2>3. Closed(PutConn(a))
    BY <1>0, <2>2, CloseFacts
  <2>4. CASE c = PutConn(a)
    BY <1>11, <2>2, <2>3, <2>4 DEF Safe
  <2>5. CASE c # PutConn(a)
    <3>1. NoLoss(c)
      BY <1>11, <2>1, <2>2, <2>3, <2>5, EndPutFacts DEF NoLoss, Lose
    <3>. QED  BY <1>11, <2>2, <2>3, <3>1, NoLossSafe
  <2>. QED  BY <2>4, <2>5
<1>13. ASSUME NEW w \in Reqs, readLoopDone(w) PROVE Safe(c)
  <2>0. PICK h \in Reqs : h = held[w]
    BY <1>13 DEF readLoopDone, TypeInv, HeldTyped
  <2>. DEFINE b == <<"readLoop", h>>
  <2>1. /\ UNCHANGED <<result, dialer, idleLRU, doomed, conn, alt>> /\ caller[w] = "using"
        /\ caller' = [caller EXCEPT ![w] = "returned"] /\ held' = [held EXCEPT ![w] = NoConn]
        /\ put' = [put EXCEPT ![b] = "check"]
    BY <1>13, <2>0 DEF readLoopDone, dialVars, idleVars, stopVars, connVars
  <2>2. put[<<"cancel", w>>] = "no" /\ b \in Agents /\ PutConn(b)' = h
    BY <2>1 DEF TypeInv, HeldTyped, Agents, PutConn
  <2>. HIDE DEF b
  <2>3. \A a \in Agents : put[a] # "no" => put'[a] # "no"
    BY <1>0, <2>1, <2>2 DEF TypeOK
  <2>4. \A a \in Agents : put[a] # "no" => PutConn(a)' = PutConn(a)
    BY <1>0, <2>1, <2>2, Agent DEF TypeOK
  <2>5. CASE c = h
    <3>1. Own("put", b, c)'
      BY <1>0, <2>1, <2>2, <2>5 DEF Own, TypeOK
    <3>. QED  BY <3>1, OwnedSafe
  <2>6. CASE c # h
    <3>1. NoLoss(c)
      BY <1>0, <2>0, <2>1, <2>3, <2>4, <2>6 DEF NoLoss, Lose, TypeOK
    <3>. QED  BY <2>1, <3>1, NoLossSafe
  <2>. QED  BY <2>5, <2>6
<1>14. ASSUME NEW w \in Reqs, roundTripEnd(w) PROVE Safe(c)
  <2>1. /\ UNCHANGED <<result, dialer, idleLRU, doomed, put, conn, alt>> /\ caller[w] = "using"
        /\ caller' = [caller EXCEPT ![w] = "returned"] /\ held' = [held EXCEPT ![w] = NoConn]
        /\ held[w] \in alt \/ conn[held[w]] = "closed"
    BY <1>14 DEF roundTripEnd, dialVars, idleVars, stopVars, connVars
  <2>2. put[<<"cancel", w>>] = "no"
    BY <2>1 DEF TypeInv, HeldTyped
  <2>3. \A a \in Agents : put[a] # "no" => put'[a] # "no" /\ PutConn(a)' = PutConn(a)
    BY <1>0, <2>1, <2>2, Agent DEF TypeOK
  <2>4. CASE c = held[w]
    BY <2>1, <2>4 DEF Safe
  <2>5. CASE c # held[w]
    <3>1. NoLoss(c)
      BY <1>0, <2>1, <2>3, <2>5 DEF NoLoss, Lose, TypeOK
    <3>. QED  BY <2>1, <3>1, NoLossSafe
  <2>. QED  BY <2>4, <2>5
<1>15. ASSUME NEW x \in Reqs, persistConnClose(x) \/ closeIdleClose(x) PROVE Safe(c)
  <2>1. /\ UNCHANGED <<caller, held, result, idleLRU, put>> /\ doomed \subseteq doomed' \cup {x}
        /\ closeLocked(x, done)
    BY <1>15 DEF persistConnClose, closeIdleClose, callVars, idleVars, stopVars
  <2>2. Closed(x)
    BY <1>0, <2>1, CloseFacts
  <2>3. CASE c = x
    BY <1>11, <2>2, <2>3 DEF Safe
  <2>4. CASE c # x
    <3>1. NoLoss(c)
      BY <1>11, <2>1, <2>2, <2>4 DEF NoLoss, Lose, PutConn
    <3>. QED  BY <1>11, <2>2, <3>1, NoLossSafe
  <2>. QED  BY <2>3, <2>4
<1>16. ASSUME NEW x \in Reqs, readLoopExit(x) \/ idleTimer(x) PROVE Safe(c)
  <2>1. UNCHANGED <<caller, held, result, dialer, put, doomed, conn>>
    BY <1>16 DEF readLoopExit, idleTimer, callVars, dialVars, stopVars, connVars
  <2>2. CASE idleTimer(x)
    <3>1. NoLoss(c)
      BY <2>1, <2>2 DEF idleTimer, idleVars, NoLoss, Lose, PutConn
    <3>. QED  BY <2>1, <3>1, NoLossSafe
  <2>3. CASE readLoopExit(x)
    <3>1. Range(idleLRU') = Range(idleLRU) \ {x} /\ conn[x] = "closed"
      BY <1>0, <2>3, RemoveFacts DEF readLoopExit
    <3>2. CASE c = x
      BY <2>1, <3>1, <3>2 DEF Safe
    <3>3. CASE c # x
      <4>1. NoLoss(c)
        BY <2>1, <3>1, <3>3 DEF NoLoss, Lose, PutConn
      <4>. QED  BY <2>1, <4>1, NoLossSafe
    <3>. QED  BY <3>2, <3>3
  <2>. QED  BY <1>16, <2>2, <2>3
<1>17. ASSUME NEW x \in Reqs, closeConnIfStillIdle(x) PROVE Safe(c)
  <2>1. UNCHANGED <<caller, held, result, put, doomed>>
    BY <1>17 DEF closeConnIfStillIdle, callVars
  <2>2. CASE UNCHANGED <<idleConn, idleLRU, conn, dialVars, panics>>
    <3>1. NoLoss(c)
      BY <2>1, <2>2 DEF NoLoss, Lose, PutConn, dialVars
    <3>. QED  BY <2>2, <3>1, NoLossSafe
  <2>3. CASE RemoveIdleConn(x) /\ closeLocked(x, done)
    <3>1. Range(idleLRU') = Range(idleLRU) \ {x} /\ Closed(x)
      BY <1>0, <2>3, RemoveFacts, CloseFacts
    <3>2. CASE c = x
      BY <1>11, <3>1, <3>2 DEF Safe
    <3>3. CASE c # x
      <4>1. NoLoss(c)
        BY <1>11, <2>1, <3>1, <3>3 DEF NoLoss, Lose, PutConn
      <4>. QED  BY <1>11, <3>1, <4>1, NoLossSafe
    <3>. QED  BY <3>2, <3>3
  <2>. QED  BY <1>17, <2>2, <2>3 DEF closeConnIfStillIdle
<1>18. ASSUME CloseIdleConnections PROVE Safe(c)
  <2>1. /\ UNCHANGED <<caller, held, result, dialer, put, conn, alt>> /\ idleLRU' = <<>>
        /\ doomed' = UNION {Range(idleConn[k]) : k \in Keys} /\ closer = "no" /\ closeCalls > 0
    BY <1>18 DEF CloseIdleConnections, callVars, dialVars, connVars
  <2>2. doomed = {} /\ ~IdleConnTimeout
    BY <2>1, PoolAssumption DEF LeakInv, Closer
  <2>3. CASE c \in Range(idleLRU)
    <3>1. SUFFICES ASSUME conn[c] = "open", c \notin alt PROVE Safe(c)
      BY <2>1 DEF Safe
    <3>2. c \in Range(idleConn[KeyOf[c]]) /\ KeyOf[c] \in Keys
      BY <2>2, <2>3, <3>1, PoolAssumption DEF LeakInv, OpenListed
    <3>3. Own("doomed", c, c)'
      BY <2>1, <3>2 DEF Own
    <3>. QED  BY <3>3, OwnedSafe
  <2>4. CASE c \notin Range(idleLRU)
    <3>1. NoLoss(c)
      BY <2>1, <2>2, <2>4 DEF NoLoss, Lose, PutConn
    <3>. QED  BY <2>1, <3>1, NoLossSafe
  <2>. QED  BY <2>3, <2>4
<1>19. ASSUME closeIdleDials PROVE Safe(c)
  <2>1. NoLoss(c) /\ conn' = conn
    BY <1>19 DEF closeIdleDials, callVars, dialVars, idleVars, connVars, NoLoss, Lose, PutConn
  <2>. QED  BY <2>1, NoLossSafe
<1>20. ASSUME NEW a \in Agents, tryPutIdleConn(a) PROVE Safe(c)
  <2>. DEFINE p == PutConn(a)
  <2>1. /\ p \in Reqs /\ put[a] = "lock" /\ UNCHANGED <<caller, alt, doomed>>
        /\ \/ PutShared(a) \/ PutRefused(a) \/ PutParked(a)
           \/ \E z \in Reqs : PutGiven(a, z)
    BY <1>0, <1>20, PutOutcome DEF stopVars
  <2>2. ASSUME EndPut(a)
        PROVE  /\ put'[a] = "no"
               /\ \A b \in Agents \ {a} : put'[b] = put[b] /\ PutConn(b)' = PutConn(b)
               /\ \A x \in Reqs : caller[x] = "using" => held'[x] = held[x]
    BY <2>1, <2>2, EndPutFacts
  <2>3. ASSUME NEW x \in Reqs, Answers(p), result[x] = c PROVE result'[x] = c
    BY <1>0, <2>3 DEF Answers, Answered
  <2>4. CASE PutShared(a)
    <3>1. EndPut(a) /\ p \in alt /\ UNCHANGED <<result, idleLRU, conn, dialer>>
      BY <2>4 DEF PutShared, dialVars
    <3>2. CASE c = p
      BY <2>1, <3>1, <3>2 DEF Safe
    <3>3. CASE c # p
      <4>1. NoLoss(c)
        BY <2>1, <2>2, <3>1, <3>3 DEF NoLoss, Lose
      <4>. QED  BY <3>1, <4>1, NoLossSafe
    <3>. QED  BY <3>2, <3>3
  <2>5. CASE PutRefused(a)
    <3>1. UNCHANGED <<held, idleLRU, conn, dialer>> /\ Answers(p) /\ put' = [put EXCEPT ![a] = "close"]
      BY <2>5 DEF PutRefused, dialVars
    <3>2. NoLoss(c)
      BY <1>0, <2>1, <2>3, <3>1, ZenonT(40) DEF NoLoss, Lose, PutConn, TypeOK
    <3>. QED  BY <3>1, <3>2, NoLossSafe
  <2>6. ASSUME NEW z \in Reqs, PutGiven(a, z) PROVE Safe(c)
    <3>1. /\ UNCHANGED <<idleLRU, conn, dialer>> /\ EndPut(a) /\ z \notin done
          /\ result' = [result EXCEPT ![z] = p]
      BY <2>6 DEF PutGiven, dialVars
    <3>2. CASE c = p
      <4>1. Own("result", z, c)'
        BY <1>0, <3>1, <3>2 DEF Own, TypeOK
      <4>. QED  BY <4>1, OwnedSafe
    <3>3. CASE c # p
      <4>1. NoLoss(c)
        BY ZenonT(40), <1>0, <2>1, <2>2, <3>1, <3>3 DEF NoLoss, Lose, Answered, TypeOK
      <4>. QED  BY <3>1, <4>1, NoLossSafe
    <3>. QED  BY <3>2, <3>3
  <2>7. CASE PutParked(a)
    <3>1. PICK d : Park(p, KeyOf[p], d)
      BY <2>7 DEF PutParked
    <3>2. /\ EndPut(a) /\ Answers(p) /\ p \notin Range(idleLRU)
          /\ Len(idleConn[KeyOf[p]]) < maxIdleConnsPerHost
      BY <2>7 DEF PutParked
    <3>. HIDE DEF p
    <3>3. \/ Range(idleLRU') = Range(idleLRU) \cup {p} /\ UNCHANGED <<conn, dialVars>>
          \/ \E o \in Range(idleLRU) : /\ Range(idleLRU') = (Range(idleLRU) \cup {p}) \ {o}
                                       /\ Closed(o)
      BY <1>0, <2>1, <3>1, <3>2, ParkFacts
    <3>4. Range(idleLRU) \subseteq Reqs
      <4>1. idleLRU \in Seq(Reqs)
        BY <1>0 DEF TypeOK
      <4>. QED  BY <4>1 DEF Range
    <3>5. /\ \A x \in Range(idleLRU) \cup {p} : x \in Range(idleLRU') \/ conn'[x] # "open"
          /\ p \in Range(idleLRU')
          /\ dialer[c] = "deliver" => dialer'[c] = "deliver"
          /\ conn'[c] = "open" => conn[c] = "open"
      BY <1>11, <3>2, <3>3, <3>4 DEF dialVars
    <3>6. CASE c = p
      <4>1. Own("idle", c, c)'
        BY <3>5, <3>6 DEF Own
      <4>. QED  BY <4>1, OwnedSafe
    <3>7. CASE c # p /\ conn'[c] = "open"
      <4>1. NoLoss(c)
        BY <2>1, <2>2, <2>3, <3>2, <3>5, <3>7 DEF NoLoss, Lose, p
      <4>. QED  BY <3>5, <4>1, NoLossSafe
    <3>. QED  BY <3>6, <3>7 DEF Safe
  <2>. QED  BY <2>1, <2>4, <2>5, <2>6, <2>7
<1>. QED
  BY <1>1, <1>2, <1>3, <1>4, <1>5, <1>6, <1>7, <1>8, <1>9, <1>10, <1>12, <1>13, <1>14,
     <1>15, <1>16, <1>17, <1>18, <1>19, <1>20
     DEF Next, getConn, dialConnFor, CloseConn, PutBack, UseConn

\* Every action keeps OpenListed: queueForIdleConn forgets only connections
\* that are closed, as long as none is too old.
LEMMA OpenListedStep ==
  ASSUME TypeInv, SlotInv, OwnInv, OpenListed, Next
  PROVE  OpenListed'
<1>. SUFFICES ASSUME ~IdleConnTimeout, NEW c \in Range(idleLRU') \ alt', conn'[c] = "open"
              PROVE  c \in Range(idleConn'[KeyOf[c]])
  BY DEF OpenListed
<1>0. TypeOK /\ OneOwner /\ Dialled /\ IdleLists /\ Answered /\ alt \subseteq alt'
  BY ConnGrows DEF TypeInv, OwnInv
<1>1. c \in Reqs \ alt /\ KeyOf[c] \in Keys
  <2>1. idleLRU' \in Seq(Reqs)
    BY TypeInvStep DEF TypeInv, TypeOK
  <2>. QED  BY <1>0, <2>1, PoolAssumption DEF Range
<1>2. ASSUME c \in Range(idleLRU), conn[c] = "open" PROVE c \in Range(idleConn[KeyOf[c]])
  BY <1>1, <1>2 DEF OpenListed
<1>3. ASSUME UNCHANGED <<idleLRU, idleConn>>, conn[c] = "open"
      PROVE  c \in Range(idleConn'[KeyOf[c]])
  BY <1>2, <1>3
<1>4. ASSUME NEW x \in Reqs, closeLocked(x, done) PROVE conn[c] = "open"
  BY <1>0, <1>1, <1>4, CloseFacts DEF Closed
<1>5. ASSUME NEW w \in Reqs, queueForIdleConn(w) PROVE c \in Range(idleConn'[KeyOf[c]])
  <2>. DEFINE list == idleConn[KeyOf[w]]
  <2>1. KeyOf[w] \in Keys /\ list \in Seq(Reqs) /\ idleLRU \in Seq(Reqs)
    <3>1. KeyOf[w] \in Keys
      BY PoolAssumption
    <3>2. idleConn \in [Keys -> Seq(Reqs)] /\ idleLRU \in Seq(Reqs)
      BY <1>0 DEF TypeOK
    <3>. QED  BY <3>1, <3>2
  <2>2. UNCHANGED <<conn, alt>>
    BY <1>5 DEF queueForIdleConn, connVars
  <2>3. Len(list) \in Nat /\ DOMAIN list = 1 .. Len(list)
    BY <2>1
  <2>4. \/ UNCHANGED <<idleConn, idleLRU>>
        \/ \E m \in 1 .. Len(list) : /\ \A i \in 1 .. Len(list) : conn[list[i]] = "open" => i <= m
                                     /\ TakeIdle(w, list, m)
        \/ /\ \A i \in 1 .. Len(list) : conn[list[i]] # "open"
           /\ \E old : WaitIdle(w, list, old)
    <3>. HIDE DEF list
    <3>1. 0 + 1 .. Len(list) = 1 .. Len(list)
      OBVIOUS
    <3>2. \/ UNCHANGED <<idleConn, idleLRU>>
          \/ LET usable == {i \in 0 + 1 .. Len(list) : conn[list[i]] = "open"}
             IN  \/ \E m \in usable : /\ \A i \in usable : i <= m
                                      /\ TakeIdle(w, list, m)
                 \/ /\ usable = {}
                    /\ WaitIdle(w, list, 0)
      <4>1. \A old \in 0 .. (IF IdleConnTimeout THEN Len(list) ELSE 0) : old = 0
        OBVIOUS
      <4>. QED  BY <1>5, <4>1 DEF queueForIdleConn, idleVars, list
    <3>. QED  BY <3>1, <3>2
  <2>5. CASE UNCHANGED <<idleConn, idleLRU>>
    BY <1>3, <2>2, <2>5
  <2>6. ASSUME NEW m \in 1 .. Len(list), \A i \in 1 .. Len(list) : conn[list[i]] = "open" => i <= m,
               TakeIdle(w, list, m)
        PROVE  c \in Range(idleConn'[KeyOf[c]])
    <3>. DEFINE p == list[m]
                n == IF p \in alt THEN m ELSE m - 1
                s == SubSeq(list, 1, n)
    <3>1. /\ idleConn' = [idleConn EXCEPT ![KeyOf[w]] = s]
          /\ idleLRU' = IF p \in alt THEN idleLRU ELSE Without(idleLRU, p)
      BY <2>6 DEF TakeIdle
    <3>2. Range(Without(idleLRU, p)) = Range(idleLRU) \ {p}
      <4>. HIDE DEF p
      <4>. QED  BY <1>0, <2>1, WithoutFacts DEF IdleLists
    <3>3. c \in Range(idleLRU) /\ (p \notin alt => c # p) /\ conn[c] = "open"
      BY <2>2, <3>1, <3>2
    <3>4. c \in Range(idleConn[KeyOf[c]])
      BY <1>2, <3>3
    <3>5. CASE KeyOf[c] # KeyOf[w]
      BY <1>0, <1>1, <3>1, <3>4, <3>5 DEF TypeOK
    <3>6. CASE KeyOf[c] = KeyOf[w]
      <4>1. PICK i \in 1 .. Len(list) : c = list[i]
        BY <2>3, <3>4, <3>6 DEF Range
      <4>2. i <= m /\ (i = m => c = p)
        BY <2>6, <3>3, <4>1
      <4>3. i \in 1 .. n /\ n \in 0 .. Len(list)
        BY <1>1, <2>3, <3>3, <4>2
      <4>. HIDE DEF n, p, list
      <4>4. Range(s) = {list[j] : j \in 1 .. n}
        BY <2>1, <4>3, PrefixFacts
      <4>5. c \in Range(s)
        BY <4>1, <4>3, <4>4
      <4>. QED  BY <1>0, <2>1, <3>1, <3>6, <4>5 DEF TypeOK
    <3>. QED  BY <3>5, <3>6
  <2>7. ASSUME NEW old, WaitIdle(w, list, old), \A i \in 1 .. Len(list) : conn[list[i]] # "open"
        PROVE  c \in Range(idleConn'[KeyOf[c]])
    <3>1. idleConn' = [idleConn EXCEPT ![KeyOf[w]] = <<>>] /\ idleLRU' = idleLRU
      BY <2>7 DEF WaitIdle
    <3>2. c \in Range(idleConn[KeyOf[c]])
      BY <1>2, <2>2, <3>1
    <3>3. KeyOf[c] # KeyOf[w]
      BY <2>2, <2>3, <2>7, <3>2 DEF Range
    <3>. QED  BY <1>0, <1>1, <3>1, <3>2, <3>3 DEF TypeOK
  <2>. QED  BY <2>4, <2>5, <2>6, <2>7
<1>6. ASSUME NEW w \in Reqs, getConn(w) \/ UseConn(w) \/ dialConnFor(w), ~queueForIdleConn(w), ~dialConnOK(w)
      PROVE  c \in Range(idleConn'[KeyOf[c]])
  <2>1. UNCHANGED <<idleConn, idleLRU, conn>>
    BY <1>6 DEF getConn, UseConn, dialConnFor, queueForDial, getConnResult, getConnCancel, readLoopDone,
           roundTripEnd, dialConnForStart, dialConnFail, dialConnForDeliver, dialConnForDec,
           dialConnForExit, idleVars, connVars
  <2>. QED  BY <1>3, <2>1
<1>7. ASSUME NEW w \in Reqs, dialConnOK(w) PROVE c \in Range(idleConn'[KeyOf[c]])
  <2>1. UNCHANGED <<idleConn, idleLRU>> /\ conn' = [conn EXCEPT ![w] = "open"]
    BY <1>7 DEF dialConnOK, idleVars
  <2>2. Own("idle", c, c)
    BY <2>1 DEF Own
  <2>3. conn[c] # "none" /\ conn[w] = "none"
    BY <1>0, <1>1, <1>7, <2>2 DEF Dialled, dialConnOK, SlotInv, DialStage
  <2>4. conn[c] = "open"
    BY <1>0, <1>1, <2>1, <2>3 DEF TypeOK
  <2>. QED  BY <1>3, <2>1, <2>4
<1>8. ASSUME NEW x \in Reqs, CloseConn(x) PROVE c \in Range(idleConn'[KeyOf[c]])
  <2>1. /\ UNCHANGED <<idleConn, idleLRU>> \/ RemoveIdleConn(x)
        /\ UNCHANGED conn \/ closeLocked(x, done)
    BY <1>8 DEF CloseConn, persistConnClose, readLoopExit, idleTimer, closeConnIfStillIdle,
           closeIdleClose, idleVars, connVars
  <2>2. conn[c] = "open"
    BY <1>4, <2>1
  <2>3. CASE RemoveIdleConn(x)
    <3>1. /\ Range(idleLRU') = Range(idleLRU) \ {x}
          /\ \A y \in Reqs \ {x} : y \in Range(idleConn[KeyOf[y]]) => y \in Range(idleConn'[KeyOf[y]])
      BY <1>0, <2>3, RemoveFacts
    <3>. QED  BY <1>1, <1>2, <2>2, <3>1
  <2>. QED  BY <1>3, <2>1, <2>2, <2>3
<1>9. ASSUME NEW a \in Agents, tryPutIdleConnCheck(a) \/ putOrCloseIdleConn(a)
      PROVE  c \in Range(idleConn'[KeyOf[c]])
  <2>1. /\ UNCHANGED <<idleConn, idleLRU>> /\ put[a] # "no"
        /\ UNCHANGED conn \/ closeLocked(PutConn(a), done)
    BY <1>9 DEF tryPutIdleConnCheck, putOrCloseIdleConn, idleVars
  <2>2. conn[c] = "open"
    BY <1>4, <2>1, PutConnTyped
  <2>. QED  BY <1>3, <2>1, <2>2
<1>10. ASSUME NEW a \in Agents, tryPutIdleConn(a) PROVE c \in Range(idleConn'[KeyOf[c]])
  <2>. DEFINE p == PutConn(a)
  <2>1. /\ p \in Reqs
        /\ \/ PutShared(a) \/ PutRefused(a) \/ PutParked(a)
           \/ \E z \in Reqs : PutGiven(a, z)
    BY <1>0, <1>10, PutOutcome
  <2>2. CASE PutParked(a)
    <3>1. PICK d : Park(p, KeyOf[p], d)
      BY <2>2 DEF PutParked
    <3>2. p \notin Range(idleLRU) /\ Len(idleConn[KeyOf[p]]) < maxIdleConnsPerHost
      BY <2>2 DEF PutParked
    <3>. HIDE DEF p
    <3>3. /\ \A x \in Reqs : (x = p \/ x \in Range(idleConn[KeyOf[x]])) /\ x \in Range(idleLRU') =>
                x \in Range(idleConn'[KeyOf[x]])
          /\ \/ Range(idleLRU') = Range(idleLRU) \cup {p} /\ UNCHANGED <<conn, dialVars>>
             \/ \E o \in Range(idleLRU) : /\ Range(idleLRU') = (Range(idleLRU) \cup {p}) \ {o}
                                          /\ Closed(o)
      BY <1>0, <2>1, <3>1, <3>2, ParkFacts
    <3>4. (c \in Range(idleLRU) \/ c = p) /\ conn[c] = "open"
      BY <1>1, <3>3 DEF Closed
    <3>. QED  BY <1>1, <1>2, <3>3, <3>4
  <2>3. CASE PutShared(a) \/ PutRefused(a) \/ \E z \in Reqs : PutGiven(a, z)
    BY <1>3, <2>3 DEF PutShared, PutRefused, PutGiven
  <2>. QED  BY <2>1, <2>2, <2>3
<1>11. ASSUME CloseIdleConnections PROVE FALSE
  BY <1>11 DEF CloseIdleConnections, Range
<1>12. ASSUME closeIdleDials PROVE c \in Range(idleConn'[KeyOf[c]])
  BY <1>3, <1>12 DEF closeIdleDials, idleVars, connVars
<1>. QED  BY <1>5, <1>6, <1>7, <1>8, <1>9, <1>10, <1>11, <1>12 DEF Next, PutBack

\* What keeps Unstarted: a call that has not started was not started before, and
\* is not put on a waiting queue or answered by the step.
LEMMA StartKept ==
  ASSUME Unstarted,
         \A w \in Reqs : caller'[w] = "start" =>
            /\ caller[w] = "start"
            /\ w \in done' => w \in done
            /\ \A k \in Keys : w \in Range(idleConnWait'[k]) => w \in Range(idleConnWait[k])
  PROVE  Unstarted'
  BY DEF Unstarted

\* Every action keeps Unstarted.
LEMMA UnstartedStep ==
  ASSUME TypeInv, SlotInv, Unstarted, Next
  PROVE  Unstarted'
<1>0. TypeOK /\ DialStage
  BY DEF TypeInv, SlotInv
<1>1. ASSUME NEW w \in Reqs, queueForIdleConn(w) PROVE Unstarted'
  <2>. DEFINE k == KeyOf[w]
              q == idleConnWait[k]
  <2>1. k \in Keys /\ q \in Seq(Reqs)
    BY <1>0, PoolAssumption DEF TypeOK
  <2>2. /\ \A x \in Reqs : caller'[x] = "start" => caller[x] = "start" /\ x # w
        /\ done' \subseteq done \cup {w}
        /\ \/ idleConnWait' = idleConnWait
           \/ \E n \in CleanFront(q, done) : idleConnWait' = [idleConnWait EXCEPT ![k] = CleanPush(q, n, w)]
    <3>1. caller' = [caller EXCEPT ![w] = "queueForDial"] \/ caller' = [caller EXCEPT ![w] = "select"]
      BY <1>1 DEF queueForIdleConn, TakeIdle, WaitIdle
    <3>2. \A x \in Reqs : caller'[x] = "start" => caller[x] = "start" /\ x # w
      <4>1. caller \in [Reqs -> {"start", "queueForDial", "select", "using", "returned"}]
        BY <1>0 DEF TypeOK
      <4>. QED  BY <3>1, <4>1
    <3>3. done' \subseteq done \cup {w}
      BY <1>1 DEF queueForIdleConn, TakeIdle, WaitIdle
    <3>4. \/ idleConnWait' = idleConnWait
          \/ \E n \in CleanFront(q, done) : idleConnWait' = [idleConnWait EXCEPT ![k] = CleanPush(@, n, w)]
      BY <1>1 DEF queueForIdleConn, TakeIdle, WaitIdle, idleVars
    <3>. QED  BY <3>2, <3>3, <3>4
  <2>3. ASSUME NEW n \in CleanFront(q, done), idleConnWait' = [idleConnWait EXCEPT ![k] = CleanPush(q, n, w)]
        PROVE  \A kk \in Keys : Range(idleConnWait'[kk]) \subseteq Range(idleConnWait[kk]) \cup {w}
    <3>1. Range(CleanPush(q, n, w)) \subseteq Range(q) \cup {w}
      <4>. HIDE DEF q
      <4>1. n \in 0 .. Len(q) /\ Len(q) \in Nat /\ DOMAIN q = 1 .. Len(q)
        BY <2>1, <2>3 DEF CleanFront
      <4>. DEFINE p == SubSeq(q, n + 1, Len(q))
      <4>2. /\ p \in Seq(Reqs) /\ Len(p) = Len(q) - n
            /\ \A j \in 1 .. Len(q) - n : p[j] = q[n + j]
        BY <2>1, <4>1, SuffixFacts
      <4>3. Range(Append(p, w)) = Range(p) \cup {w}
        BY <4>2, AppendFacts
      <4>. HIDE DEF p
      <4>4. \A j \in 1 .. Len(q) - n : n + j \in DOMAIN q
        BY <4>1
      <4>5. Range(p) \subseteq Range(q)
        BY <4>1, <4>2, <4>4 DEF Range
      <4>. QED  BY <4>3, <4>5 DEF CleanPush, p
    <3>2. DOMAIN idleConnWait = Keys
      BY <1>0 DEF TypeOK
    <3>. QED  BY <2>1, <2>3, <3>1, <3>2
  <2>. QED  BY <2>2, <2>3, StartKept
<1>2. ASSUME NEW w \in Reqs, getConn(w) \/ UseConn(w) \/ dialConnFor(w), ~queueForIdleConn(w)
      PROVE  Unstarted'
  <2>1. UNCHANGED idleConnWait
    BY <1>2 DEF getConn, UseConn, dialConnFor, queueForDial, getConnResult, getConnCancel, readLoopDone,
           roundTripEnd, dialConnForStart, dialConnOK, dialConnFail, dialConnForDeliver,
           dialConnForDec, dialConnForExit, idleVars
  <2>2. \/ caller' = caller
        \/ caller[w] # "start" /\ \E v \in {"select", "using", "returned"} : caller' = [caller EXCEPT ![w] = v]
    BY <1>2 DEF getConn, UseConn, dialConnFor, queueForDial, getConnResult, getConnCancel, readLoopDone,
           roundTripEnd, dialConnForStart, dialConnOK, dialConnFail, dialConnForDeliver,
           dialConnForDec, dialConnForExit, callVars
  <2>3. done' \subseteq done \cup {w}
    BY <1>2 DEF getConn, UseConn, dialConnFor, queueForDial, getConnResult, getConnCancel, readLoopDone,
           roundTripEnd, dialConnForStart, dialConnOK, dialConnFail, dialConnForDeliver,
           dialConnForDec, dialConnForExit, callVars, tryDeliver
  <2>4. caller[w] # "start"
    <3>1. caller[w] # "start" \/ dialer[w] # "none"
      BY <1>2 DEF getConn, UseConn, dialConnFor, queueForDial, getConnResult, getConnCancel, readLoopDone,
             roundTripEnd, dialConnForStart, dialConnOK, dialConnFail, dialConnForDeliver,
             dialConnForDec, dialConnForExit
    <3>. QED  BY <1>0, <3>1 DEF DialStage
  <2>5. \A x \in Reqs : caller'[x] = "start" => caller[x] = "start" /\ x # w
    <3>1. caller \in [Reqs -> {"start", "queueForDial", "select", "using", "returned"}]
      BY <1>0 DEF TypeOK
    <3>. QED  BY <2>2, <2>4, <3>1
  <2>. QED  BY <2>1, <2>3, <2>5, StartKept
<1>3. ASSUME NEW c \in Reqs, CloseConn(c) PROVE Unstarted'
  <2>1. UNCHANGED <<caller, done, idleConnWait>>
    BY <1>3 DEF CloseConn, persistConnClose, readLoopExit, idleTimer, closeConnIfStillIdle,
           closeIdleClose, callVars, idleVars
  <2>. QED  BY <2>1, StartKept
<1>4. ASSUME NEW a \in Agents, tryPutIdleConnCheck(a) \/ putOrCloseIdleConn(a) PROVE Unstarted'
  <2>1. UNCHANGED <<caller, done, idleConnWait>>
    BY <1>4 DEF tryPutIdleConnCheck, putOrCloseIdleConn, callVars, idleVars
  <2>. QED  BY <2>1, StartKept
<1>5. ASSUME NEW a \in Agents, tryPutIdleConn(a) PROVE Unstarted'
  <2>. DEFINE k == KeyOf[PutConn(a)]
              q == idleConnWait[k]
  <2>1. k \in Keys /\ q \in Seq(Reqs) /\ caller' = caller
    <3>1. PutConn(a) \in Reqs
      BY <1>5, PutConnTyped DEF tryPutIdleConn
    <3>2. k \in Keys
      BY <3>1, PoolAssumption
    <3>3. q \in Seq(Reqs)
      BY <1>0, <3>2 DEF TypeOK
    <3>. QED  BY <1>5, <3>2, <3>3 DEF tryPutIdleConn
  <2>2. done' \subseteq done \cup Range(q)
    BY <1>5 DEF tryPutIdleConn, tryDeliver, Range
  <2>3. \/ idleConnWait' = idleConnWait
        \/ idleConnWait' = [idleConnWait EXCEPT ![k] = <<>>]
        \/ \E i \in DOMAIN q : idleConnWait' = [idleConnWait EXCEPT ![k] = SubSeq(q, i + 1, Len(q))]
    BY <1>5 DEF tryPutIdleConn
  <2>4. ASSUME NEW i \in DOMAIN q PROVE Range(SubSeq(q, i + 1, Len(q))) \subseteq Range(q)
    <3>. DEFINE p == SubSeq(q, i + 1, Len(q))
    <3>1. i \in 0 .. Len(q) /\ Len(q) \in Nat /\ DOMAIN q = 1 .. Len(q)
      BY <2>1
    <3>2. /\ p \in Seq(Reqs) /\ Len(p) = Len(q) - i
          /\ \A j \in 1 .. Len(q) - i : p[j] = q[i + j]
      BY <2>1, <3>1, SuffixFacts
    <3>. HIDE DEF p, q
    <3>3. \A j \in 1 .. Len(q) - i : i + j \in DOMAIN q
      BY <3>1
    <3>4. Range(p) \subseteq Range(q)
      BY <3>1, <3>2, <3>3 DEF Range
    <3>. QED  BY <3>4 DEF p
  <2>5. Range(<<>>) = {} /\ DOMAIN idleConnWait = Keys
    <3>1. Range(<<>>) = {}
      BY DEF Range
    <3>2. DOMAIN idleConnWait = Keys
      BY <1>0 DEF TypeOK
    <3>. QED  BY <3>1, <3>2
  <2>. HIDE DEF q
  <2>6. \A kk \in Keys : Range(idleConnWait'[kk]) \subseteq Range(idleConnWait[kk])
    <3>1. idleConnWait' = idleConnWait \/ \E p : idleConnWait' = [idleConnWait EXCEPT ![k] = p] /\ Range(p) \subseteq Range(q)
      BY <2>3, <2>4, <2>5
    <3>. QED  BY <2>1, <2>5, <3>1 DEF q
  <2>7. \A x \in Reqs : caller[x] = "start" => x \notin Range(q)
    BY <2>1 DEF Unstarted, q
  <2>. QED  BY <2>1, <2>2, <2>6, <2>7, StartKept
<1>6. ASSUME CloseIdleConnections \/ closeIdleDials PROVE Unstarted'
  BY <1>6, StartKept DEF CloseIdleConnections, closeIdleDials, callVars, idleVars
<1>. QED  BY <1>1, <1>2, <1>3, <1>4, <1>5, <1>6 DEF Next, PutBack

\* Every action keeps Closer.
LEMMA CloserStep ==
  ASSUME TypeInv, Closer, Next
  PROVE  Closer'
<1>1. ASSUME UNCHANGED <<closer, closeCalls>>, doomed' \subseteq doomed PROVE Closer'
  BY <1>1 DEF Closer
<1>2. ASSUME NEW w \in Reqs, getConn(w) \/ UseConn(w) \/ dialConnFor(w) PROVE Closer'
  <2>1. UNCHANGED <<closer, closeCalls, doomed>>
    BY <1>2 DEF getConn, UseConn, dialConnFor, queueForIdleConn, queueForDial, getConnResult, getConnCancel,
           readLoopDone, roundTripEnd, dialConnForStart, dialConnOK, dialConnFail, dialConnForDeliver,
           dialConnForDec, dialConnForExit, stopVars
  <2>. QED  BY <1>1, <2>1
<1>3. ASSUME NEW c \in Reqs, CloseConn(c) PROVE Closer'
  <2>1. UNCHANGED <<closer, closeCalls>> /\ doomed' \subseteq doomed
    BY <1>3 DEF CloseConn, persistConnClose, readLoopExit, idleTimer, closeConnIfStillIdle,
           closeIdleClose, stopVars
  <2>. QED  BY <1>1, <2>1
<1>4. ASSUME NEW a \in Agents, PutBack(a) PROVE Closer'
  <2>1. UNCHANGED <<closer, closeCalls, doomed>>
    BY <1>4 DEF PutBack, tryPutIdleConnCheck, tryPutIdleConn, putOrCloseIdleConn, stopVars
  <2>. QED  BY <1>1, <2>1
<1>5. ASSUME CloseIdleConnections PROVE Closer'
  BY <1>5, PoolAssumption DEF CloseIdleConnections, Closer
<1>6. ASSUME closeIdleDials PROVE Closer'
  BY <1>6 DEF closeIdleDials, Closer
<1>. QED  BY <1>2, <1>3, <1>4, <1>5, <1>6 DEF Next

\* LeakInv is inductive, relative to the other invariants of the pool.
LEMMA LeakInvStep == TypeInv /\ SlotInv /\ OwnInv /\ LeakInv /\ [Next]_vars => LeakInv'
<1>. SUFFICES ASSUME TypeInv, SlotInv, OwnInv, LeakInv, [Next]_vars PROVE LeakInv'
  OBVIOUS
<1>0. Unstarted /\ Closer /\ OpenListed /\ OpenOwned
  BY DEF LeakInv
<1>1. CASE Next
  <2>1. Unstarted' /\ Closer'
    BY <1>0, <1>1, UnstartedStep, CloserStep
  <2>2. OpenListed'
    BY <1>0, <1>1, OpenListedStep
  <2>3. ~IdleConnTimeout \/ CloseIdleCalls = 0 => \A c \in Reqs : Safe(c)
    BY <1>1, AllSafe
  <2>4. OpenOwned'
    BY <1>0, <1>1, <2>3, ConnGrows, SafeStep
  <2>. QED  BY <2>1, <2>2, <2>4 DEF LeakInv
<1>2. CASE UNCHANGED vars
  <2>1. UNCHANGED <<caller, done, idleConnWait, closer, doomed, closeCalls, idleLRU, idleConn, alt, conn>>
    BY <1>2 DEF vars, callVars, idleVars, connVars, stopVars
  <2>2. Unstarted' /\ Closer' /\ OpenListed'
    BY <1>0, <2>1 DEF Unstarted, Closer, OpenListed
  <2>3. \A c \in Reqs : NoLoss(c)
    BY <1>2 DEF vars, callVars, dialVars, idleVars, connVars, stopVars, NoLoss, Lose, PutConn
  <2>4. \A c \in Reqs : Safe(c)
    BY <2>1, <2>3, NoLossSafe
  <2>5. OpenOwned'
    BY <1>0, <2>1, <2>4, SafeStep
  <2>. QED  BY <2>2, <2>5 DEF LeakInv
<1>. QED  BY <1>1, <1>2

\* A new Transport satisfies LeakInv: nothing is open.
LEMMA LeakInvInit == Init => LeakInv
<1>. SUFFICES ASSUME Init PROVE LeakInv
  OBVIOUS
<1>1. Range(<<>>) = {}
  BY DEF Range
<1>2. Unstarted
  BY <1>1 DEF Init, Unstarted
<1>3. Closer
  BY PoolAssumption DEF Init, Closer
<1>4. OpenListed
  BY <1>1 DEF Init, OpenListed
<1>5. OpenOwned
  BY DEF Init, OpenOwned
<1>. QED  BY <1>2, <1>3, <1>4, <1>5 DEF LeakInv

\* A list without duplicates has as many entries as members.
LEMMA DistinctCard ==
  ASSUME NEW q \in Seq(Reqs), Distinct(q)
  PROVE  Cardinality(Range(q)) = Len(q)
<1>1. Len(q) \in Nat /\ DOMAIN q = 1 .. Len(q)
  OBVIOUS
<1>2. q \in Surjection(1 .. Len(q), Range(q))
  BY <1>1 DEF Surjection, Range
<1>3. q \in Injection(1 .. Len(q), Range(q))
  BY <1>1, <1>2 DEF Surjection, Injection, IsInjective, Distinct
<1>4. IsFiniteSet(1 .. Len(q)) /\ Cardinality(1 .. Len(q)) = Len(q)
  BY <1>1, FS_Interval
<1>. QED  BY <1>2, <1>3, <1>4, FS_Surjection

\* The invariants of the pool imply what is claimed of eviction and reuse.
LEMMA InvEvictionSafe ==
  ASSUME TypeInv, OwnInv, LeakInv
  PROVE  EvictionSafe
<1>1. IdleIndexed
  <2>1. ASSUME NEW k \in Keys PROVE Cardinality(Range(idleConn[k])) = Len(idleConn[k])
    <3>1. idleConn[k] \in Seq(Reqs)
      BY DEF TypeInv, TypeOK
    <3>. QED  BY <3>1, DistinctCard DEF OwnInv, IdleLists
  <2>. QED  BY <2>1 DEF OwnInv, IdleLists, IdleIndexed
<1>2. ASSUME ~IdleConnTimeout \/ CloseIdleCalls = 0 PROVE NoOrphan
  <2>1. \A c \in Reqs \ alt : conn[c] = "open" => Owned(c)
    BY <1>2 DEF LeakInv, OpenOwned
  <2>2. ASSUME NEW c, Owned(c) PROVE Owners(c) # {}
    BY <2>2, OwnersOwn DEF Owned
  <2>. QED  BY <2>1, <2>2 DEF NoOrphan
<1>. QED  BY <1>1, <1>2 DEF EvictionSafe, OwnInv

\* Eviction, removal, reuse and return of idle connections in any order, with
\* any limits: the internal panics are not reached, the idle lists agree and
\* respect their limits, and no open HTTP/1 connection is lost, unless both the
\* idle timeout and CloseIdleConnections are in use.
THEOREM EvictionHolds == Spec => []EvictionSafe
<1>1. Init => LeakInv
  BY LeakInvInit
<1>2. TypeInv /\ SlotInv /\ OwnInv /\ LeakInv /\ [Next]_vars => LeakInv'
  BY LeakInvStep
<1>3. TypeInv /\ OwnInv /\ LeakInv => EvictionSafe
  BY InvEvictionSafe
<1>. QED  BY <1>1, <1>2, <1>3, PoolInvariants, PTL DEF Spec

=============================================================================
