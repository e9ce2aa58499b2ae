--------------------------- MODULE ExchangeAnswers --------------------------
(***************************************************************************)
(* Proof that Transport.roundTrip, over HTTP/1 connections that are used   *)
(* again, retried on and closed under it, implements RoundTripper: who     *)
(* gets a response gets that of its own request, and a request that must   *)
(* not be repeated reaches the server at most once.  From the same         *)
(* invariant: when it has returned, the request body is closed, or a write *)
(* loop has it to close.                                                   *)
(***************************************************************************)
EXTENDS ExchangeProofs

-----------------------------------------------------------------------------
(* Whose response is on the wire.                                          *)

\* The last request that was sent on the connection.
Latest(k) == IF k.writech # NoReq THEN k.writech ELSE k.wr

\* The head of a request is on its way to the server.
HasHead(n) == \E i \in 1 .. Len(n.up) : n.up[i].part = "head"

\* There is nothing to read, or a 408 nobody asked for.
Quiet(d) == d = <<>> \/ d = <<Gone>>

\* y may follow x in what the server sends.
DownFollows(x, y) ==
    /\ x.code \in HintCodes => y.code \in HintCodes \cup FinalCodes
    /\ x.code \in FinalCodes /\ x.body => y.code = "body"
    /\ (x.code \in FinalCodes /\ ~x.body) \/ x.code = "body" => y = Gone
    /\ x # Gone

\* What the server sends comes in this order.
InOrder(d) == \A i \in 1 .. Len(d) - 1 : DownFollows(d[i], d[i + 1])

\* What the server sends belongs to l, the last request, on which it has acted;
\* w is whether something of l was written.
Belongs(h, l, w, n) ==
    /\ \A i \in 1 .. Len(n.down) : n.down[i] # Gone => n.down[i].of = l /\ w
    /\ (\E i \in 1 .. Len(n.down) : n.down[i] # Gone) \/ (n.fin = "no" /\ n.owed # <<>>)
          => h[l] > 0

\* The messages to the client end with the end of a response.
Ended(d) ==
    d # <<>> => LET m == d[Len(d)] IN m.code = "body" \/ (m.code \in FinalCodes /\ ~m.body)

\* Where the server is with the last request, while it reads.
Serving(l, w, n) ==
    n.fin = "no" =>
        /\ \A i \in 1 .. Len(n.down) : n.down[i] # Gone
        /\ HasHead(n) => w /\ n.owed = <<>> /\ n.down = <<>>
        /\ \A i, j \in 1 .. Len(n.up) : n.up[i].part = "head" /\ n.up[j].part = "head"
              => i = j /\ n.up[i].of = l
        /\ n.owed # <<>> =>
              /\ n.owed = <<l>> /\ w
              /\ \A i \in 1 .. Len(n.down) : n.down[i].code \in HintCodes
        /\ n.owed = <<>> => Ended(n.down)

\* The wire, as seen from the last request.
Wire(h, l, w, n) == InOrder(n.down) /\ Belongs(h, l, w, n) /\ Serving(l, w, n)

\* Nothing is owed by the server or on its way to it.
Answered(n) == n.fin = "no" => n.owed = <<>> /\ ~HasHead(n)

\* The rest of a response comes next, or will not come.
BodyNext(n) == IF n.down = <<>> THEN n.fin # "no" ELSE n.down[1].code = "body"

\* The response is read to its end, and the connection may be used again.
Finishing == {"recycle", "put", "putLocked"}

\* The read loop and the wire agree on whose turn it is.
Turn(k, n) ==
    /\ k.reqch # NoReq => Latest(k) = k.reqch
    /\ ~Resting(k) => Latest(k) = k.rc
    /\ k.reqch # NoReq \/ k.rl = "response" => n.down = <<>> \/ n.down[1].code # "body"
    /\ k.rl \in Finishing \/ k.idle => Quiet(n.down)
    /\ k.rl \in Finishing \cup {"bodyWait"} \/ k.idle => Answered(n)
    /\ k.rl = "deliver" /\ ~Recycled(k) /\ k.resp # ErrResp => Answered(n)
    /\ k.rl \in Finishing \cup {"bodyWait", "deliver"} /\ ~Recycled(k) /\ k.resp # ErrResp
          => k.wrote \/ n.fin # "no"
    /\ k.rl = "deliver" /\ k.resp.body => BodyNext(n)
    /\ k.rl = "bodyWait" /\ k.waitForBodyRead = "none" => BodyNext(n)
    /\ k.rl = "bodyWait" /\ k.waitForBodyRead = "EOF" => Quiet(n.down)
    /\ k.rl \notin {"bodyWait"} \cup Ending => k.waitForBodyRead = "none"

\* The response the read loop has is that of its request.
Own(h, k) ==
    k.rl \in {"deliver", "bodyWait"} \cup Finishing /\ k.resp # ErrResp =>
        \/ k.resp = Gone
        \/ k.resp \in Final(k.rc) /\ h[k.rc] > 0

\* A connection at both ends.
WireAt(h, k, n) == Wire(h, Latest(k), k.wrote, n) /\ Turn(k, n) /\ Own(h, k)

\* The read loop waits for the user of r's response, or has ended.
Held(k, r, b) ==
    /\ ~k.idle /\ k.reqch = NoReq
    /\ \/ /\ k.rl = "bodyWait" /\ k.rc = r
          /\ k.waitForBodyRead = IF b = "open" THEN "none" ELSE "early"
       \/ k.rl \in Ending

\* Nobody has taken the connection and not yet used it.
Unclaimed(c) == \A r \in Reqs : ~Pre(c, r)

\* A user at work on a response body keeps the connection from the others.
Using(r) ==
    req[r].respBody \in {"open", "failed"} =>
        /\ req[r].pc = "done" /\ Unclaimed(req[r].conn)
        /\ Held(conn[req[r].conn], r, req[r].respBody)

\* The connections, and who may use them.
WireInv ==
    /\ \A c \in Conns :
          /\ WireAt(handled, conn[c], net[c])
          /\ \A r \in Reqs : Pre(c, r) => Quiet(net[c].down) /\ Answered(net[c])
    /\ \A r \in Reqs : Using(r)

-----------------------------------------------------------------------------
(* The callers.                                                            *)

\* Where persistConn.roundTrip waits, its request is the last one sent, or its
\* response is about to be delivered.
Waiting(r) ==
    LET k == conn[req[r].conn] IN
    /\ req[r].pc = "select" =>
          /\ \/ Latest(k) = r /\ (k.reqch = r \/ (~Resting(k) /\ k.rc = r))
             \/ Recycled(k) /\ k.rc = r
          /\ req[r].writeErrCh = "err" => Latest(k) = r /\ k.werr = "err" /\ k.wl \in {"close", "done"}
    /\ req[r].pc = "map" =>
          /\ Latest(k) = r /\ Unclaimed(req[r].conn) /\ req[r].err # "nothingWritten"
          /\ isBroken(k) \/ (~k.idle /\ k.rl \in Ending)

\* The caller whose response body is read has returned.
Returned(c) ==
    LET k == conn[c] IN
    k.rl = "bodyWait" \/ (k.rl \in Finishing /\ k.resp.body) =>
        ~(req[k.rc].conn = c /\ req[k.rc].pc \in {"select", "map"})

\* Every caller waits for its own request.
CallInv ==
    /\ \A r \in Reqs : Waiting(r)
    /\ \A c \in Conns : Returned(c)

-----------------------------------------------------------------------------
(* What the server still gets to see.                                      *)

\* The head of a request waits to be written, or to be read by the server.
Fresh(k, n) ==
    \/ k.writech # NoReq /\ k.wl # "done"
    \/ k.wl \in {"head", "body"} /\ ~k.wrote
    \/ n.fin = "no" /\ HasHead(n)

\* The server may still begin to act on r because of what c holds.
Token(c, r) == Latest(conn[c]) = r /\ Fresh(conn[c], net[c])

\* Nothing of r has been written, or nothing of its last attempt.
Unseen(r) ==
    \/ req[r].pc \in {"start", "loop", "enter", "send"}
    \/ req[r].pc = "failed" /\ req[r].err = "nothingWritten"
    \/ /\ req[r].pc \in {"select", "map"}
       /\ Latest(conn[req[r].conn]) = r /\ ~conn[req[r].conn].wrote

\* The last attempt may have written something of r, or may still.
Exposed(q) == q.pc \in {"select", "map", "done"} \/ (q.pc = "failed" /\ q.err # "nothingWritten")

\* r has no answer before its call returns, and a request that must not be
\* repeated reaches the server once.
Once(r) ==
    /\ req[r].pc = "cached" => handled[r] > 0
    /\ req[r].pc # "done" => req[r].answer = "none"
    /\ ~isReplayable(r) =>
          /\ Unseen(r) => handled[r] = 0
          /\ \A c \in Conns : Token(c, r) =>
                handled[r] = 0 /\ req[r].conn = c /\ Exposed(req[r])

\* What the server gets to see of every request.
OnceInv == \A r \in Reqs : Once(r)

-----------------------------------------------------------------------------
(* Reading.                                                                *)

\* Nothing follows a 408, and only a 408 the end of a response.
LEMMA EndsThere ==
  ASSUME NEW d \in Seq(Message), d # <<>>, InOrder(d)
  PROVE  /\ d[1] = Gone => Tail(d) = <<>>
         /\ d[1].code = "body" \/ (d[1].code \in FinalCodes /\ ~d[1].body) => Quiet(Tail(d))
<1>. DEFINE e == Tail(d)
<1>1. /\ Len(d) \in Nat /\ Len(d) > 0 /\ e \in Seq(Message) /\ Len(e) = Len(d) - 1
      /\ \A i \in 1 .. Len(d) - 1 : e[i] = d[i + 1]
      /\ e = <<>> <=> Len(d) = 1
  BY TailFacts
<1>. HIDE DEF e
<1>2. ASSUME d[1] = Gone PROVE e = <<>>
  BY <1>1, <1>2 DEF InOrder, DownFollows
<1>3. ASSUME d[1].code = "body" \/ (d[1].code \in FinalCodes /\ ~d[1].body) PROVE Quiet(e)
  <2>1. CASE Len(d) = 1
    BY <1>1, <2>1 DEF Quiet
  <2>2. CASE Len(d) # 1
    <3>1. 1 \in 1 .. Len(d) - 1 /\ 1 + 1 = 2
      BY <1>1, <2>2
    <3>2. d[2] = Gone
      BY <1>3, <3>1 DEF InOrder, DownFollows
    <3>3. ~(2 \in 1 .. Len(d) - 1)
      BY <3>2 DEF InOrder, DownFollows
    <3>4. Len(d) = 2
      BY <1>1, <2>2, <3>3
    <3>5. Len(e) = 1 /\ e[1] = Gone
      BY <1>1, <3>1, <3>2, <3>4
    <3>6. e = <<Gone>>
      <4>1. <<Gone>> \in Seq(Message) /\ Len(<<Gone>>) = 1 /\ <<Gone>>[1] = Gone
        BY MessageFacts
      <4>2. \A i \in 1 .. Len(e) : e[i] = <<Gone>>[i]
        BY <3>5, <4>1
      <4>. QED  BY <1>1, <3>5, <4>1, <4>2, SeqEqual
    <3>. QED  BY <3>6 DEF Quiet
  <2>. QED  BY <2>1, <2>2
<1>. QED  BY <1>2, <1>3 DEF e

\* One message was read.
Popped(n, nn) == n.down # <<>> /\ nn = [n EXCEPT !.down = Tail(@)]

\* ... which leaves the wire in order.
LEMMA TailWire ==
  ASSUME NEW h, NEW l, NEW w, NEW n \in NetType, Wire(h, l, w, n), NEW nn, Popped(n, nn)
  PROVE  /\ Wire(h, l, w, nn)
         /\ Answered(nn) <=> Answered(n)
         /\ n.down[1].code \in FinalCodes \cup {"body"} => Answered(n)
         /\ nn.down # <<>> => DownFollows(n.down[1], nn.down[1])
<1>. DEFINE d == n.down
            e == nn.down
<1>1. d \in Seq(Message)
  BY DEF NetType
<1>2. d # <<>> /\ e = Tail(d) /\ nn.up = n.up /\ nn.fin = n.fin /\ nn.owed = n.owed
  BY DEF NetType, Popped
<1>3. /\ Len(d) \in Nat /\ Len(d) > 0 /\ e \in Seq(Message) /\ Len(e) = Len(d) - 1
      /\ \A i \in 1 .. Len(d) - 1 : e[i] = d[i + 1]
      /\ e = <<>> <=> Len(d) = 1
  BY <1>1, <1>2, TailFacts
<1>. HIDE DEF d, e
<1>4. InOrder(d) /\ Belongs(h, l, w, n) /\ Serving(l, w, n)
  BY DEF Wire, d
<1>5. \A i \in 1 .. Len(e) : i + 1 \in 1 .. Len(d) /\ e[i] = d[i + 1]
  BY <1>3
<1>6. InOrder(e)
  <2>. SUFFICES ASSUME NEW i \in 1 .. Len(e) - 1 PROVE DownFollows(e[i], e[i + 1])
    BY DEF InOrder
  <2>1. i + 1 \in 1 .. Len(d) - 1 /\ i \in 1 .. Len(e) /\ i + 1 \in 1 .. Len(e)
    BY <1>3
  <2>2. DownFollows(d[i + 1], d[(i + 1) + 1]) /\ e[i] = d[i + 1] /\ e[i + 1] = d[(i + 1) + 1]
    BY <2>1, <1>4, <1>5 DEF InOrder
  <2>. QED  BY <2>2
<1>7. Belongs(h, l, w, nn)
  BY <1>2, <1>4, <1>5 DEF Belongs, d, e
<1>8. e # <<>> => e[Len(e)] = d[Len(d)] /\ d # <<>>
  <2>. SUFFICES ASSUME e # <<>> PROVE e[Len(e)] = d[Len(d)] /\ d # <<>>
    OBVIOUS
  <2>1. Len(e) \in 1 .. Len(e) /\ Len(e) + 1 = Len(d)
    BY <1>3
  <2>. QED  BY <2>1, <1>5 DEF d
<1>9. Ended(d) => Ended(e)
  BY <1>8 DEF Ended
<1>10. HasHead(nn) <=> HasHead(n)
  BY <1>2 DEF HasHead
<1>11. Serving(l, w, nn)
  <2>. SUFFICES ASSUME n.fin = "no" PROVE Serving(l, w, nn)
    BY <1>2 DEF Serving
  <2>1. (\A i \in 1 .. Len(e) : e[i] # Gone) /\ ~HasHead(nn)
    BY <1>2, <1>4, <1>5, <1>10 DEF Serving, d
  <2>2. n.owed # <<>> => \A i \in 1 .. Len(e) : e[i].code \in HintCodes
    BY <1>4, <1>5 DEF Serving, d
  <2>3. n.owed = <<>> => Ended(e)
    BY <1>4, <1>9 DEF Serving, d
  <2>4. n.owed # <<>> => n.owed = <<l>> /\ w
    BY <1>4 DEF Serving
  <2>5. \A i, j \in 1 .. Len(n.up) : n.up[i].part = "head" /\ n.up[j].part = "head"
              => i = j /\ n.up[i].of = l
    BY <1>4 DEF Serving
  <2>. QED  BY <1>2, <2>1, <2>2, <2>3, <2>4, <2>5 DEF Serving, e
<1>12. d[1].code \in FinalCodes \cup {"body"} => Answered(n)
  <2>1. 1 \in 1 .. Len(d)
    BY <1>3
  <2>2. d[1].code \in FinalCodes \cup {"body"} => d[1].code \notin HintCodes
    BY DEF FinalCodes, HintCodes
  <2>. QED  BY <1>4, <2>1, <2>2 DEF Serving, Answered, d
<1>13. e # <<>> => DownFollows(d[1], e[1])
  <2>. SUFFICES ASSUME e # <<>> PROVE DownFollows(d[1], e[1])
    OBVIOUS
  <2>1. 1 \in 1 .. Len(e) /\ 1 \in 1 .. Len(d) - 1
    BY <1>3
  <2>. QED  BY <2>1, <1>4, <1>5 DEF InOrder
<1>. QED  BY <1>2, <1>6, <1>7, <1>10, <1>11, <1>12, <1>13 DEF Wire, Answered, d, e

-----------------------------------------------------------------------------
(* Steps at large.                                                         *)

\* What the server has acted on, it has acted on.
Grows == handled' \in [Reqs -> Nat] /\ \A r \in Reqs : handled[r] > 0 => handled'[r] > 0

\* A connection at which nothing happens.
LEMMA WireGrows ==
  ASSUME Inv1, NEW c \in Conns, WireAt(handled, conn[c], net[c]), Grows
  PROVE  WireAt(handled', conn[c], net[c])
<1>. DEFINE k == conn[c]
            n == net[c]
            l == Latest(k)
<1>1. k \in ConnType /\ Good(k) /\ n \in NetType /\ n.down \in Seq(Message) /\ n.owed \in Seq(Reqs)
  BY AtConn DEF NetType
<1>2. /\ InOrder(n.down) /\ Belongs(handled, l, k.wrote, n) /\ Serving(l, k.wrote, n)
      /\ Turn(k, n) /\ Own(handled, k)
  BY DEF WireAt, Wire
<1>. HIDE DEF l
<1>3. (\E i \in 1 .. Len(n.down) : n.down[i] # Gone) => l \in Reqs
  <2>. SUFFICES ASSUME NEW i \in 1 .. Len(n.down), n.down[i] # Gone PROVE l \in Reqs
    OBVIOUS
  <2>1. n.down[i] \in Message
    BY <1>1
  <2>. QED  BY <1>2, <2>1, MessageFacts DEF Belongs
<1>4. n.fin = "no" /\ n.owed # <<>> => l \in Reqs
  <2>. SUFFICES ASSUME n.fin = "no", n.owed # <<>> PROVE l \in Reqs
    OBVIOUS
  <2>1. <<l>> \in Seq(Reqs)
    BY <1>1, <1>2 DEF Serving
  <2>. QED  BY <2>1, TailFacts
<1>5. Belongs(handled', l, k.wrote, n)
  BY <1>2, <1>3, <1>4 DEF Belongs, Grows
<1>6. Own(handled', k)
  <2>1. ASSUME k.resp \in Final(k.rc), k.rl \in {"deliver", "bodyWait"} \cup Finishing, k.resp # ErrResp
        PROVE  k.rc \in Reqs
    <3>1. k.resp \in Message /\ k.resp.of = k.rc /\ k.resp.code \in FinalCodes
      BY <1>1, <2>1 DEF Good, Reading, Finishing, Final
    <3>2. k.resp # Gone
      BY <3>1 DEF Gone, Response, FinalCodes
    <3>. QED  BY <3>1, <3>2, MessageFacts
  <2>. QED  BY <1>2, <2>1 DEF Own, Grows
<1>. QED  BY <1>2, <1>5, <1>6 DEF WireAt, Wire, l

\* A user at work on a response body is not disturbed.
Users ==
    \A r \in Reqs : req'[r].respBody \in {"open", "failed"} =>
        req'[r].respBody = req[r].respBody /\ req'[r].pc = req[r].pc

\* The read loop stays with the user of the body, or ends.
Keeps(k, kk) ==
    k.rl \in Ending \/ (k.rl = "bodyWait" /\ k.waitForBodyRead # "EOF") =>
        /\ kk.idle => k.idle
        /\ k.reqch = NoReq => kk.reqch = NoReq
        /\ \/ kk.rl \in Ending
           \/ /\ kk.rl = k.rl /\ kk.rc = k.rc
              /\ kk.waitForBodyRead = k.waitForBodyRead

\* ... so the user keeps the connection.
LEMMA KeepsHeld ==
  ASSUME NEW k, NEW kk, Keeps(k, kk), NEW r, NEW b, Held(k, r, b) PROVE Held(kk, r, b)
BY DEF Keeps, Held, Ending

\* ... so what it does to the connection holds on.
LEMMA UsingStep ==
  ASSUME Inv1, \A r \in Reqs : Using(r), NEW c \in Conns, OnlyAt(c), Calm, Users,
         Keeps(conn[c], conn'[c])
  PROVE  \A r \in Reqs : Using(r)'
<1>. SUFFICES ASSUME NEW r \in Reqs, req'[r].respBody \in {"open", "failed"} PROVE Using(r)'
  BY DEF Using
<1>1. /\ req'[r].respBody = req[r].respBody /\ req'[r].pc = req[r].pc /\ req'[r].conn = req[r].conn
  BY DEF Users, Calm
<1>2. /\ req[r].pc = "done" /\ Unclaimed(req[r].conn)
      /\ Held(conn[req[r].conn], r, req[r].respBody)
  BY <1>1 DEF Using
<1>3. req[r].conn \in Conns
  BY <1>1, AtReq DEF Placed
<1>4. Unclaimed(req[r].conn)'
  <2>1. \A s \in Reqs : Pre(req[r].conn, s)' => Pre(req[r].conn, s)
    BY <1>1, <1>3 DEF Calm, Pre
  <2>. QED  BY <1>2, <2>1 DEF Unclaimed
<1>5. Held(conn'[req[r].conn], r, req[r].respBody)
  <2>1. CASE req[r].conn = c
    BY <1>2, <2>1, KeepsHeld
  <2>2. CASE req[r].conn # c
    BY <1>2, <1>3, <2>2 DEF OnlyAt
  <2>. QED  BY <2>1, <2>2
<1>. QED  BY <1>1, <1>2, <1>4, <1>5 DEF Using, Held

\* A step at one connection that takes it from nobody.
LEMMA WireStep ==
  ASSUME Inv1, WireInv, NEW c \in Conns, OnlyAt(c), Calm, Grows,
         WireAt(handled', conn'[c], net'[c]),
         Fit(conn[c]) /\ Quiet(net[c].down) /\ Answered(net[c])
            => Quiet(net'[c].down) /\ Answered(net'[c]),
         \A r \in Reqs : Using(r)'
  PROVE  WireInv'
<1>1. ASSUME NEW d \in Conns PROVE WireAt(handled', conn'[d], net'[d])
  <2>1. CASE d = c
    BY <2>1
  <2>2. CASE d # c
    <3>1. WireAt(handled, conn[d], net[d]) /\ conn'[d] = conn[d] /\ net'[d] = net[d]
      BY <2>2 DEF WireInv, OnlyAt
    <3>. QED  BY <3>1, WireGrows
  <2>. QED  BY <2>1, <2>2
<1>2. ASSUME NEW d \in Conns, NEW r \in Reqs, Pre(d, r)'
      PROVE  Quiet(net'[d].down) /\ Answered(net'[d])
  <2>1. Pre(d, r)
    BY <1>2 DEF Calm, Pre
  <2>2. Quiet(net[d].down) /\ Answered(net[d]) /\ Fit(conn[d])
    BY <2>1 DEF WireInv, Inv1, LaneInv, Claim
  <2>. QED  BY <2>2 DEF OnlyAt
<1>3. \A d \in Conns : WireAt(handled, conn[d], net[d])'
  BY <1>1 DEF WireAt, Wire, Turn, Own, Resting, Recycled
<1>4. \A d \in Conns : \A r \in Reqs : Pre(d, r)' => Quiet(net[d].down)' /\ Answered(net[d])'
  BY <1>2 DEF Quiet, Answered
<1>. QED  BY <1>3, <1>4 DEF WireInv

\* A step that neither sends nor reads.
LEMMA ReaderStep ==
  ASSUME Inv1, WireInv, NEW c \in Conns, OnlyAt(c), Calm, Users, net'[c] = net[c], handled' = handled,
         Latest(conn'[c]) = Latest(conn[c]), conn'[c].wrote = conn[c].wrote,
         Turn(conn'[c], net[c]), Own(handled, conn'[c]), Keeps(conn[c], conn'[c])
  PROVE  WireInv'
<1>1. Wire(handled, Latest(conn[c]), conn[c].wrote, net[c]) /\ \A r \in Reqs : Using(r)
  BY DEF WireInv, WireAt
<1>2. WireAt(handled', conn'[c], net'[c])
  BY <1>1 DEF WireAt
<1>3. \A r \in Reqs : Using(r)'
  BY <1>1, UsingStep
<1>4. Grows
  BY DEF Grows, Inv1, TypeOK
<1>. QED  BY <1>2, <1>3, <1>4, WireStep

\* A step that concerns no connection.
LEMMA NoWireStep ==
  ASSUME Inv1, WireInv, conn' = conn, net' = net, Calm, Users, Grows
  PROVE  WireInv'
<1>1. ASSUME NEW r \in Reqs, req'[r].respBody \in {"open", "failed"} PROVE Using(r)'
  <2>1. /\ req'[r].respBody = req[r].respBody /\ req'[r].pc = req[r].pc /\ req'[r].conn = req[r].conn
    BY <1>1 DEF Users, Calm
  <2>2. /\ req[r].pc = "done" /\ Unclaimed(req[r].conn)
        /\ Held(conn[req[r].conn], r, req[r].respBody)
    BY <1>1, <2>1 DEF Using, WireInv
  <2>3. req[r].conn \in Conns
    BY <1>1, <2>1, AtReq DEF Placed
  <2>4. \A s \in Reqs : Pre(req[r].conn, s)' => Pre(req[r].conn, s)
    BY <2>1, <2>3 DEF Calm, Pre
  <2>5. Unclaimed(req[r].conn)'
    BY <2>2, <2>4 DEF Unclaimed
  <2>. QED  BY <2>1, <2>2, <2>5 DEF Using, Held
<1>2. \A r \in Reqs : Using(r)'
  BY <1>1 DEF Using
<1>3. ASSUME NEW d \in Conns PROVE WireAt(handled, conn[d], net[d])'
  <2>1. WireAt(handled', conn[d], net[d])
    BY WireGrows DEF WireInv
  <2>. QED  BY <2>1 DEF WireAt, Wire, Turn, Own, Resting, Recycled
<1>4. ASSUME NEW d \in Conns, NEW r \in Reqs, Pre(d, r)' PROVE Quiet(net[d].down)' /\ Answered(net[d])'
  <2>1. Pre(d, r)
    BY <1>4 DEF Calm, Pre
  <2>. QED  BY <2>1 DEF WireInv, Quiet, Answered
<1>. QED  BY <1>2, <1>3, <1>4 DEF WireInv

\* The read loop is where it was.
SameReader(k, kk) ==
    /\ kk.rl = k.rl /\ kk.rc = k.rc /\ kk.reqch = k.reqch /\ kk.resp = k.resp /\ kk.alive = k.alive
    /\ kk.waitForBodyRead = k.waitForBodyRead
    /\ kk.idle => k.idle

\* The read loop is at its end.
EndsReading(k, kk) ==
    kk.rl \in Ending /\ kk.reqch = k.reqch /\ (kk.idle => k.idle)

\* Most steps do one of the two, and write nothing.
LEMMA PassiveStep ==
  ASSUME Inv1, WireInv, NEW c \in Conns, OnlyAt(c), Calm, Users, net'[c] = net[c], handled' = handled,
         Latest(conn'[c]) = Latest(conn[c]), conn'[c].wrote = conn[c].wrote,
         SameReader(conn[c], conn'[c]) \/ EndsReading(conn[c], conn'[c])
  PROVE  WireInv'
<1>. DEFINE k == conn[c]
            kk == conn'[c]
<1>1. Turn(k, net[c]) /\ Own(handled, k)
  BY DEF WireInv, WireAt
<1>. HIDE DEF k, kk
<1>2. CASE SameReader(k, kk)
  <2>1. Recycled(kk) = Recycled(k) /\ Resting(kk) = Resting(k)
    BY <1>2 DEF SameReader, Recycled, Resting
  <2>2. Turn(kk, net[c])
    BY <1>1, <1>2, <2>1 DEF SameReader, Turn, k, kk
  <2>3. Own(handled, kk)
    BY <1>1, <1>2 DEF SameReader, Own
  <2>4. Keeps(k, kk)
    BY <1>2 DEF SameReader, Keeps
  <2>. QED  BY <2>2, <2>3, <2>4, ReaderStep DEF k, kk
<1>3. CASE EndsReading(k, kk)
  <2>1. Turn(kk, net[c])
    BY <1>1, <1>3 DEF EndsReading, Turn, Resting, Ending, Finishing, k, kk
  <2>2. Own(handled, kk)
    BY <1>3 DEF EndsReading, Own, Ending, Finishing
  <2>3. Keeps(k, kk)
    BY <1>3 DEF EndsReading, Keeps
  <2>. QED  BY <2>1, <2>2, <2>3, ReaderStep DEF k, kk
<1>. QED  BY <1>2, <1>3 DEF k, kk

-----------------------------------------------------------------------------
(* What the steps of the read loop do.                                     *)

\* The writer's side of a connection is as it was.
SameWriter(k, kk) ==
    /\ kk.writech = k.writech /\ kk.wl = k.wl /\ kk.wr = k.wr /\ kk.wrote = k.wrote
    /\ kk.werr = k.werr /\ kk.open = k.open
    /\ isBroken(k) => isBroken(kk)

\* Nobody's call goes on, and no response body is opened.
Untouched ==
    \A r \in Reqs :
        /\ req'[r].pc = req[r].pc /\ req'[r].conn = req[r].conn /\ req'[r].err = req[r].err
        /\ req'[r].answer = req[r].answer /\ req'[r].writeErrCh = req[r].writeErrCh
        /\ req'[r].respBody \in {"open", "failed"} => req'[r].respBody = req[r].respBody

\* A step of the read loop of c that reads nothing.
LoopAt(c) ==
    /\ OnlyAt(c) /\ net' = net /\ handled' = handled /\ env' = env
    /\ SameWriter(conn[c], conn'[c]) /\ Untouched

\* No caller moves.
LEMMA UntouchedReq == ASSUME req' = req PROVE Untouched
BY DEF Untouched

\* ... and no user of a response.
LEMMA UntouchedUsers == ASSUME Untouched PROVE Users
BY DEF Untouched, Users

\* The last request is the same for as long as the writer's side is.
LEMMA WriterLatest ==
  ASSUME NEW k, NEW kk, SameWriter(k, kk) PROVE Latest(kk) = Latest(k) /\ kk.wrote = k.wrote
BY DEF SameWriter, Latest

\* Peek.
LEMMA PeekDoes ==
  ASSUME Inv1, NEW c \in Conns, readLoopPeek(c)
  PROVE  LET k == conn[c]
             kk == conn'[c]
         IN
         /\ LoopAt(c) /\ k.rl = "peek" /\ kk.rl = "peeked" /\ kk.rc = NoReq /\ kk.resp = NoResp
         /\ kk.reqch = k.reqch /\ kk.idle = k.idle /\ kk.waitForBodyRead = k.waitForBodyRead
<1>. DEFINE k == conn[c]
            kk == conn'[c]
<1>1. k \in ConnType /\ conn \in [Conns -> ConnType] /\ k.rl = "peek"
  BY AtConn DEF Inv1, TypeOK, readLoopPeek
<1>2. OnlyAt(c) /\ net' = net /\ handled' = handled /\ env' = env /\ Untouched
  BY <1>1, UntouchedReq DEF readLoopPeek, OnlyAt
<1>3. /\ kk.writech = k.writech /\ kk.wl = k.wl /\ kk.wr = k.wr /\ kk.wrote = k.wrote
      /\ kk.werr = k.werr /\ kk.open = k.open /\ kk.closed = k.closed
      /\ kk.rl = "peeked" /\ kk.rc = NoReq /\ kk.resp = NoResp
      /\ kk.reqch = k.reqch /\ kk.idle = k.idle /\ kk.waitForBodyRead = k.waitForBodyRead
  BY <1>1 DEF readLoopPeek, ConnType
<1>. QED  BY <1>1, <1>2, <1>3 DEF LoopAt, SameWriter, isBroken

\* The end of a connection nobody asked for a response, or the start of one.
LEMMA ExpectDoes ==
  ASSUME Inv1, NEW c \in Conns, readLoopExpect(c)
  PROVE  LET k == conn[c]
             kk == conn'[c]
         IN
         /\ LoopAt(c) /\ k.rl = "peeked" /\ kk.idle = k.idle
         /\ kk.waitForBodyRead = k.waitForBodyRead
         /\ \/ /\ k.numExpectedResponses = 0 /\ kk.rl = "exit" /\ isBroken(kk)
               /\ kk.reqch = k.reqch /\ kk.rc = k.rc
            \/ /\ k.reqch # NoReq /\ kk.reqch = NoReq /\ kk.rc = k.reqch
               /\ kk.rl = "response" \/ (kk.rl = "deliver" /\ kk.resp = ErrResp)
<1>. DEFINE k == conn[c]
            kk == conn'[c]
<1>1. k \in ConnType /\ conn \in [Conns -> ConnType] /\ k.rl = "peeked"
  BY AtConn DEF Inv1, TypeOK, readLoopExpect
<1>2. OnlyAt(c) /\ net' = net /\ handled' = handled /\ env' = env /\ Untouched
  BY <1>1, UntouchedReq DEF readLoopExpect, OnlyAt
<1>3. CASE /\ k.numExpectedResponses = 0
           /\ conn' = [conn EXCEPT ![c] = [readLoopPeekFailLocked(@, net[c].down) EXCEPT !.rl = "exit"]]
  <2>1. conn'[c] = [readLoopPeekFailLocked(k, net[c].down) EXCEPT !.rl = "exit"]
    BY <1>1, <1>3
  <2>2. PICK reason : readLoopPeekFailLocked(k, net[c].down) = closeLocked(k, reason)
                      /\ reason \in CloseReasons
    BY DEF readLoopPeekFailLocked, CloseReasons
  <2>3. /\ kk.writech = k.writech /\ kk.wl = k.wl /\ kk.wr = k.wr /\ kk.wrote = k.wrote
        /\ kk.werr = k.werr /\ kk.open = k.open /\ isBroken(kk)
        /\ kk.rl = "exit" /\ kk.rc = k.rc /\ kk.idle = k.idle /\ kk.reqch = k.reqch
        /\ kk.waitForBodyRead = k.waitForBodyRead
    BY <1>1, <2>1, <2>2 DEF ConnType, closeLocked, isBroken, CloseReasons
  <2>. QED  BY <1>1, <1>2, <1>3, <2>3 DEF LoopAt, SameWriter
<1>4. CASE /\ k.reqch # NoReq
           /\ conn' = [conn EXCEPT
                 ![c].rc = k.reqch, ![c].reqch = NoReq, ![c].num1xx = 0,
                 ![c].rl = IF k.peek = "nil" THEN "response" ELSE "deliver",
                 ![c].resp = IF k.peek = "nil" THEN NoResp ELSE ErrResp,
                 ![c].closeErr = IF k.peek = "nil" THEN @ ELSE "readFromServer",
                 ![c].peek = IF @ = "nil" THEN @ ELSE "readFromServer"]
  <2>1. /\ kk.writech = k.writech /\ kk.wl = k.wl /\ kk.wr = k.wr /\ kk.wrote = k.wrote
        /\ kk.werr = k.werr /\ kk.open = k.open /\ kk.closed = k.closed
        /\ kk.rl = "response" \/ (kk.rl = "deliver" /\ kk.resp = ErrResp)
        /\ kk.rc = k.reqch /\ kk.idle = k.idle /\ kk.reqch = NoReq
        /\ kk.waitForBodyRead = k.waitForBodyRead
    BY ZenonT(40), <1>1, <1>4 DEF ConnType
  <2>. QED  BY <1>1, <1>2, <1>4, <2>1 DEF LoopAt, SameWriter, isBroken
<1>. QED  BY <1>3, <1>4 DEF readLoopExpect

\* A response that cannot be read.
LEMMA ReadFailsDoes ==
  ASSUME Inv1, NEW c \in Conns, readResponseFails(c)
  PROVE  LET k == conn[c]
             kk == conn'[c]
         IN
         /\ LoopAt(c) /\ k.rl = "response" /\ kk.rl = "deliver" /\ kk.resp = ErrResp /\ kk.rc = k.rc
         /\ kk.reqch = k.reqch /\ kk.idle = k.idle /\ kk.waitForBodyRead = k.waitForBodyRead
<1>. DEFINE k == conn[c]
            kk == conn'[c]
<1>1. k \in ConnType /\ conn \in [Conns -> ConnType] /\ k.rl = "response"
  BY AtConn DEF Inv1, TypeOK, readResponseFails
<1>2. OnlyAt(c) /\ net' = net /\ handled' = handled /\ env' = env /\ Untouched
  BY <1>1, UntouchedReq DEF readResponseFails, OnlyAt
<1>3. /\ kk.writech = k.writech /\ kk.wl = k.wl /\ kk.wr = k.wr /\ kk.wrote = k.wrote
      /\ kk.werr = k.werr /\ kk.open = k.open /\ kk.closed = k.closed
      /\ kk.rl = "deliver" /\ kk.rc = k.rc /\ kk.resp = ErrResp
      /\ kk.reqch = k.reqch /\ kk.idle = k.idle /\ kk.waitForBodyRead = k.waitForBodyRead
  BY <1>1 DEF readResponseFails, ConnType
<1>. QED  BY <1>1, <1>2, <1>3 DEF LoopAt, SameWriter, isBroken

\* The loop's way to its end.
LEMMA EndDoes ==
  ASSUME Inv1, NEW c \in Conns,
         readLoopCallerGone(c) \/ readLoopExit(c) \/ readLoopClose(c) \/ removeIdleConn(c)
  PROVE  LET k == conn[c]
             kk == conn'[c]
         IN
         /\ LoopAt(c) /\ kk.rl \in Ending /\ kk.reqch = k.reqch /\ kk.rc = k.rc
         /\ kk.idle => k.idle
         /\ \/ k.rl \in Ending
            \/ k.rl = "deliver" /\ ~(req[k.rc].conn = c /\ req[k.rc].pc \in {"select", "map"})
<1>. DEFINE k == conn[c]
            kk == conn'[c]
<1>1. k \in ConnType /\ conn \in [Conns -> ConnType]
  BY AtConn DEF Inv1, TypeOK
<1>2. OnlyAt(c) /\ net' = net /\ handled' = handled /\ env' = env
  BY <1>1 DEF readLoopCallerGone, readLoopExit, readLoopClose, removeIdleConn, OnlyAt
<1>3. Untouched
  <2>1. CASE readLoopExit(c)
    <3>1. req \in [Reqs -> ReqType]
      BY DEF Inv1, TypeOK
    <3>2. CASE k.rc = NoReq
      BY <2>1, <3>2, UntouchedReq DEF readLoopExit
    <3>3. CASE k.rc # NoReq
      <4>. DEFINE q == req[k.rc]
                  b == IF q.respBody \in {"EOFWait", "earlyWait"} THEN "done" ELSE q.respBody
                  x == IF q.ctx = "live" /\ k.resp # ErrResp THEN "done" ELSE q.ctx
      <4>1. req' = [req EXCEPT ![k.rc].respBody = b, ![k.rc].ctx = x]
        BY <2>1, <3>3 DEF readLoopExit
      <4>2. b \in {"open", "failed"} => b = q.respBody
        OBVIOUS
      <4>. HIDE DEF b, x
      <4>. QED  BY <3>1, <4>1, <4>2 DEF Untouched, ReqType
    <3>. QED  BY <3>2, <3>3
  <2>2. CASE readLoopCallerGone(c) \/ readLoopClose(c) \/ removeIdleConn(c)
    BY <2>2, UntouchedReq DEF readLoopCallerGone, readLoopClose, removeIdleConn
  <2>. QED  BY <2>1, <2>2
<1>4. /\ SameWriter(k, kk) /\ kk.rl \in Ending /\ kk.reqch = k.reqch /\ kk.rc = k.rc /\ (kk.idle => k.idle)
  <2>1. CASE readLoopCallerGone(c)
    BY <1>1, <2>1 DEF readLoopCallerGone, ConnType, SameWriter, Ending, isBroken
  <2>2. CASE readLoopExit(c)
    BY <1>1, <2>2 DEF readLoopExit, ConnType, SameWriter, Ending, isBroken
  <2>3. CASE readLoopClose(c)
    BY <1>1, <2>3 DEF readLoopClose, closeLocked, ConnType, SameWriter, Ending, isBroken, EndReasons
  <2>4. CASE removeIdleConn(c)
    BY <1>1, <2>4 DEF removeIdleConn, ConnType, SameWriter, Ending, isBroken
  <2>. QED  BY <2>1, <2>2, <2>3, <2>4
<1>5. \/ k.rl \in Ending
      \/ k.rl = "deliver" /\ ~(req[k.rc].conn = c /\ req[k.rc].pc \in {"select", "map"})
  BY DEF readLoopCallerGone, readLoopExit, readLoopClose, removeIdleConn, Ending
<1>. QED  BY <1>2, <1>3, <1>4, <1>5 DEF LoopAt

\* An idle connection is closed.
LEMMA CloseIdleDoes ==
  ASSUME Inv1, NEW c \in Conns, closeConnIfStillIdle(c)
  PROVE  LET k == conn[c]
             kk == conn'[c]
         IN
         LoopAt(c) /\ SameReader(k, kk) /\ isBroken(kk) /\ kk.writeErrCh = k.writeErrCh
<1>. DEFINE k == conn[c]
            kk == conn'[c]
<1>1. k \in ConnType /\ conn \in [Conns -> ConnType]
  BY AtConn DEF Inv1, TypeOK
<1>2. OnlyAt(c) /\ net' = net /\ handled' = handled /\ env' = env /\ Untouched
  BY <1>1, UntouchedReq DEF closeConnIfStillIdle, OnlyAt
<1>3. SameWriter(k, kk) /\ SameReader(k, kk) /\ isBroken(kk) /\ kk.writeErrCh = k.writeErrCh
  BY <1>1 DEF closeConnIfStillIdle, closeLocked, ConnType, SameWriter, SameReader, isBroken
<1>. QED  BY <1>2, <1>3 DEF LoopAt

\* The select behind a response with a body.
LEMMA BodyWaitDoes ==
  ASSUME Inv1, NEW c \in Conns, readLoopBodyWait(c)
  PROVE  LET k == conn[c]
             kk == conn'[c]
         IN
         /\ LoopAt(c) /\ k.rl = "bodyWait" /\ kk.reqch = k.reqch /\ kk.rc = k.rc /\ kk.idle = k.idle
         /\ \/ /\ k.waitForBodyRead = "EOF" /\ kk.waitForBodyRead = "none"
               /\ kk.rl = "recycle" /\ kk.resp = k.resp
            \/ kk.rl = "exit"
<1>. DEFINE k == conn[c]
            kk == conn'[c]
<1>1. k \in ConnType /\ conn \in [Conns -> ConnType] /\ k.rl = "bodyWait"
  BY AtConn DEF Inv1, TypeOK, readLoopBodyWait
<1>2. OnlyAt(c) /\ net' = net /\ handled' = handled /\ env' = env /\ Untouched
  BY <1>1, UntouchedReq DEF readLoopBodyWait, OnlyAt
<1>3. CASE /\ k.waitForBodyRead = "EOF"
           /\ conn' = [conn EXCEPT ![c].rl = "recycle", ![c].waitForBodyRead = "none"]
  <2>1. /\ kk.writech = k.writech /\ kk.wl = k.wl /\ kk.wr = k.wr /\ kk.wrote = k.wrote
        /\ kk.werr = k.werr /\ kk.open = k.open /\ kk.closed = k.closed
        /\ kk.reqch = k.reqch /\ kk.rc = k.rc /\ kk.idle = k.idle
        /\ kk.waitForBodyRead = "none" /\ kk.rl = "recycle" /\ kk.resp = k.resp
    BY <1>1, <1>3 DEF ConnType
  <2>. QED  BY <1>1, <1>2, <1>3, <2>1 DEF LoopAt, SameWriter, isBroken
<1>4. CASE conn' = [conn EXCEPT ![c].rl = "exit", ![c].alive = FALSE]
  <2>1. /\ kk.writech = k.writech /\ kk.wl = k.wl /\ kk.wr = k.wr /\ kk.wrote = k.wrote
        /\ kk.werr = k.werr /\ kk.open = k.open /\ kk.closed = k.closed
        /\ kk.reqch = k.reqch /\ kk.rc = k.rc /\ kk.idle = k.idle /\ kk.rl = "exit"
    BY <1>1, <1>4 DEF ConnType
  <2>. QED  BY <1>1, <1>2, <2>1 DEF LoopAt, SameWriter, isBroken
<1>5. CASE conn' = [conn EXCEPT ![c] = [cancelRequest(@) EXCEPT !.rl = "exit", !.alive = FALSE]]
  <2>. DEFINE kj == cancelRequest(k)
  <2>1. kk = [kj EXCEPT !.rl = "exit", !.alive = FALSE]
    BY <1>1, <1>5
  <2>2. kj \in ConnType /\ SameWriter(k, kj) /\ kj.reqch = k.reqch /\ kj.rc = k.rc /\ kj.idle = k.idle
    BY <1>1 DEF SameWriter, ConnType, isBroken, cancelRequest, closeLocked, Closings, CloseReasons
  <2>. HIDE DEF kj
  <2>3. SameWriter(k, kk) /\ kk.reqch = k.reqch /\ kk.rc = k.rc /\ kk.idle = k.idle /\ kk.rl = "exit"
    BY <2>1, <2>2 DEF SameWriter, ConnType, isBroken
  <2>. QED  BY <1>1, <1>2, <2>3 DEF LoopAt
<1>. QED  BY <1>3, <1>4, <1>5 DEF readLoopBodyWait

\* AfterRecycle, by its fields.
LEMMA AfterRecycleDoes ==
  ASSUME Inv1, NEW c \in Conns, NEW k \in ConnType, k.rc \in Reqs, k.resp.body \in BOOLEAN,
         NEW alive \in BOOLEAN, AfterRecycle(c, k, alive)
  PROVE  LET kk == conn'[c] IN
         /\ \A d \in Conns : d # c => conn'[d] = conn[d]
         /\ Untouched
         /\ SameWriter(k, kk) /\ kk.reqch = k.reqch /\ kk.rc = k.rc /\ kk.idle = k.idle
         /\ kk.resp = k.resp /\ kk.waitForBodyRead = k.waitForBodyRead /\ kk.alive = alive
         /\ kk.writeErrCh = k.writeErrCh
         /\ kk.rl = IF k.resp.body THEN IF alive THEN "peek" ELSE "exit" ELSE "deliver"
<1>. DEFINE kk == conn'[c]
            x == IF k.resp.body THEN IF alive THEN "peek" ELSE "exit" ELSE "deliver"
<1>0. conn \in [Conns -> ConnType] /\ req \in [Reqs -> ReqType]
  BY DEF Inv1, TypeOK
<1>1. conn' = [conn EXCEPT ![c] = Onward(k, alive)]
  BY AfterRecycleFacts
<1>2. kk = [k EXCEPT !.alive = alive, !.rl = x] /\ \A d \in Conns : d # c => conn'[d] = conn[d]
  BY <1>0, <1>1 DEF Onward
<1>. HIDE DEF x
<1>3. /\ SameWriter(k, kk) /\ kk.reqch = k.reqch /\ kk.rc = k.rc /\ kk.idle = k.idle
      /\ kk.resp = k.resp /\ kk.waitForBodyRead = k.waitForBodyRead /\ kk.alive = alive
      /\ kk.writeErrCh = k.writeErrCh /\ kk.rl = x
  BY <1>2 DEF ConnType, SameWriter, isBroken
<1>4. Untouched
  <2>1. CASE k.resp.body
    <3>. DEFINE y == IF req[k.rc].ctx = "live" THEN "done" ELSE req[k.rc].ctx
    <3>1. req' = [req EXCEPT ![k.rc].respBody = "done", ![k.rc].ctx = y]
      BY <2>1 DEF AfterRecycle
    <3>. HIDE DEF y
    <3>. QED  BY <1>0, <3>1 DEF Untouched, ReqType
  <2>2. CASE ~k.resp.body
    BY <2>2, UntouchedReq DEF AfterRecycle
  <2>. QED  BY <2>1, <2>2
<1>. QED  BY <1>2, <1>3, <1>4 DEF x

\* From the end of a response to the pool.
LEMMA RecycleDoes ==
  ASSUME Inv1, NEW c \in Conns, wroteRequest(c) \/ tryPutIdleConnCheck(c) \/ tryPutIdleConn(c)
  PROVE  LET k == conn[c]
             kk == conn'[c]
         IN
         /\ LoopAt(c) /\ k.rl \in Finishing /\ kk.reqch = k.reqch /\ kk.rc = k.rc
         /\ kk.resp = k.resp /\ kk.waitForBodyRead = k.waitForBodyRead
         /\ \/ kk.rl \in {"put", "putLocked"} /\ kk.idle = k.idle
            \/ /\ kk.rl = IF k.resp.body THEN "exit" ELSE "deliver"
               /\ kk.alive = FALSE /\ kk.idle = k.idle
            \/ /\ kk.rl = IF k.resp.body THEN "peek" ELSE "deliver"
               /\ kk.alive = TRUE /\ kk.idle = TRUE
<1>. DEFINE k == conn[c]
            kk == conn'[c]
<1>1. k \in ConnType /\ Good(k) /\ k.rl \in Finishing /\ conn \in [Conns -> ConnType]
  BY AtConn DEF Inv1, TypeOK, wroteRequest, tryPutIdleConnCheck, tryPutIdleConn, Finishing
<1>2. k.rc \in Reqs /\ k.resp.body \in BOOLEAN
  BY <1>1, MessageFacts DEF Finishing, Good, OneUse, Resting, Recycled, ConnType, Ending, Reading, MaybeReq
<1>3. net' = net /\ handled' = handled /\ env' = env
  BY DEF wroteRequest, tryPutIdleConnCheck, tryPutIdleConn
<1>4. ASSUME NEW kj \in ConnType, SameWriter(k, kj), kj.reqch = k.reqch, kj.rc = k.rc, kj.resp = k.resp,
             kj.waitForBodyRead = k.waitForBodyRead, NEW alive \in BOOLEAN, kj.idle = k.idle \/ alive,
             alive => kj.idle = TRUE, AfterRecycle(c, kj, alive)
      PROVE  /\ LoopAt(c) /\ kk.reqch = k.reqch /\ kk.rc = k.rc
             /\ kk.resp = k.resp /\ kk.waitForBodyRead = k.waitForBodyRead
             /\ \/ /\ kk.rl = IF k.resp.body THEN "exit" ELSE "deliver"
                   /\ kk.alive = FALSE /\ kk.idle = k.idle
                \/ /\ kk.rl = IF k.resp.body THEN "peek" ELSE "deliver"
                   /\ kk.alive = TRUE /\ kk.idle = TRUE
  <2>1. /\ \A d \in Conns : d # c => conn'[d] = conn[d]
        /\ Untouched
        /\ SameWriter(kj, kk) /\ kk.reqch = kj.reqch /\ kk.rc = kj.rc /\ kk.idle = kj.idle
        /\ kk.resp = kj.resp /\ kk.waitForBodyRead = kj.waitForBodyRead /\ kk.alive = alive
        /\ kk.rl = IF kj.resp.body THEN IF alive THEN "peek" ELSE "exit" ELSE "deliver"
    BY <1>2, <1>4, AfterRecycleDoes
  <2>2. SameWriter(k, kk)
    BY <1>4, <2>1 DEF SameWriter
  <2>. QED  BY <1>3, <1>4, <2>1, <2>2 DEF LoopAt, OnlyAt
<1>5. SameWriter(k, k)
  BY DEF SameWriter
<1>6. CASE AfterRecycle(c, k, FALSE)
  BY <1>1, <1>4, <1>5, <1>6
<1>7. CASE AfterRecycle(c, [k EXCEPT !.writeErrCh = "none"], FALSE)
  <2>. DEFINE kj == [k EXCEPT !.writeErrCh = "none"]
  <2>1. /\ kj \in ConnType /\ SameWriter(k, kj) /\ kj.rc = k.rc /\ kj.resp = k.resp /\ kj.reqch = k.reqch
        /\ kj.waitForBodyRead = k.waitForBodyRead /\ kj.idle = k.idle
    BY <1>1 DEF SameWriter, ConnType, WriteErrs, isBroken
  <2>. QED  BY <1>1, <1>4, <1>7, <2>1
<1>8. CASE AfterRecycle(c, [k EXCEPT !.idle = TRUE], TRUE)
  <2>. DEFINE kj == [k EXCEPT !.idle = TRUE]
  <2>1. /\ kj \in ConnType /\ SameWriter(k, kj) /\ kj.rc = k.rc /\ kj.resp = k.resp /\ kj.reqch = k.reqch
        /\ kj.waitForBodyRead = k.waitForBodyRead /\ kj.idle = TRUE
    BY <1>1 DEF SameWriter, ConnType, isBroken
  <2>. QED  BY <1>1, <1>4, <1>8, <2>1
<1>9. CASE AfterRecycle(c, [k EXCEPT !.closeErr = "pool"], FALSE)
  <2>. DEFINE kj == [k EXCEPT !.closeErr = "pool"]
  <2>1. /\ kj \in ConnType /\ SameWriter(k, kj) /\ kj.rc = k.rc /\ kj.resp = k.resp /\ kj.reqch = k.reqch
        /\ kj.waitForBodyRead = k.waitForBodyRead /\ kj.idle = k.idle
    BY <1>1 DEF SameWriter, ConnType, EndReasons, isBroken
  <2>. QED  BY <1>1, <1>4, <1>9, <2>1
<1>10. CASE /\ \/ conn' = [conn EXCEPT ![c].writeErrCh = "none", ![c].rl = "put"]
               \/ conn' = [conn EXCEPT ![c].reused = TRUE, ![c].rl = "putLocked"]
            /\ req' = req
  <2>1. /\ kk.writech = k.writech /\ kk.wl = k.wl /\ kk.wr = k.wr /\ kk.wrote = k.wrote
        /\ kk.werr = k.werr /\ kk.open = k.open /\ kk.closed = k.closed
        /\ kk.reqch = k.reqch /\ kk.rc = k.rc /\ kk.idle = k.idle /\ kk.resp = k.resp
        /\ kk.waitForBodyRead = k.waitForBodyRead /\ kk.rl \in {"put", "putLocked"}
    BY <1>1, <1>10 DEF ConnType
  <2>2. OnlyAt(c)
    BY <1>1, <1>3, <1>10 DEF OnlyAt
  <2>. QED  BY <1>1, <1>3, <1>10, <2>1, <2>2, UntouchedReq DEF LoopAt, SameWriter, isBroken
<1>. QED  BY <1>6, <1>7, <1>8, <1>9, <1>10 DEF wroteRequest, tryPutIdleConnCheck, tryPutIdleConn

-----------------------------------------------------------------------------
(* Whose response it is, under the steps of the read loop.                 *)

\* Peek reads nothing.
LEMMA PeekWire ==
  ASSUME Inv1, WireInv, NEW c \in Conns, readLoopPeek(c), Calm PROVE WireInv'
<1>. DEFINE k == conn[c]
            kk == conn'[c]
<1>1. /\ LoopAt(c) /\ k.rl = "peek" /\ kk.rl = "peeked"
      /\ kk.reqch = k.reqch /\ kk.idle = k.idle /\ kk.waitForBodyRead = k.waitForBodyRead
  BY PeekDoes
<1>2. Turn(k, net[c]) /\ Latest(kk) = Latest(k) /\ kk.wrote = k.wrote
  BY <1>1, WriterLatest DEF WireInv, WireAt, LoopAt
<1>. HIDE DEF k, kk
<1>3. Turn(kk, net[c])
  BY <1>1, <1>2 DEF Turn, Resting, Finishing, Ending
<1>4. Own(handled, kk)
  BY <1>1 DEF Own, Finishing
<1>5. Keeps(k, kk)
  BY <1>1 DEF Keeps, Ending
<1>. QED  BY <1>1, <1>2, <1>3, <1>4, <1>5, ReaderStep, UntouchedUsers DEF LoopAt, k, kk

\* The request fetched is the last one sent.
LEMMA ExpectWire ==
  ASSUME Inv1, WireInv, NEW c \in Conns, readLoopExpect(c), Calm PROVE WireInv'
<1>. DEFINE k == conn[c]
            kk == conn'[c]
<1>1. /\ LoopAt(c) /\ k.rl = "peeked" /\ kk.idle = k.idle
      /\ kk.waitForBodyRead = k.waitForBodyRead
      /\ \/ /\ kk.rl = "exit" /\ kk.reqch = k.reqch
         \/ /\ k.reqch # NoReq /\ kk.reqch = NoReq /\ kk.rc = k.reqch
            /\ kk.rl = "response" \/ (kk.rl = "deliver" /\ kk.resp = ErrResp)
  BY ExpectDoes
<1>2. Turn(k, net[c]) /\ Latest(kk) = Latest(k) /\ kk.wrote = k.wrote /\ Good(k)
  BY <1>1, WriterLatest, AtConn DEF WireInv, WireAt, LoopAt
<1>. HIDE DEF k, kk
<1>3. CASE kk.rl = "exit" /\ kk.reqch = k.reqch
  <2>1. EndsReading(k, kk)
    BY <1>1, <1>3 DEF EndsReading, Ending
  <2>. QED  BY <1>1, <1>2, <2>1, PassiveStep, UntouchedUsers DEF LoopAt, k, kk
<1>4. CASE /\ k.reqch # NoReq /\ kk.reqch = NoReq /\ kk.rc = k.reqch
           /\ kk.rl = "response" \/ (kk.rl = "deliver" /\ kk.resp = ErrResp)
  <2>1. ~k.idle /\ ErrResp.body = FALSE
    BY <1>2, <1>4 DEF Good, OneUse, ErrResp, Response
  <2>2. Turn(kk, net[c])
    BY <1>1, <1>2, <1>4, <2>1 DEF Turn, Resting, Finishing, Ending
  <2>3. Own(handled, kk)
    BY <1>1, <1>4 DEF Own, Finishing
  <2>4. Keeps(k, kk)
    BY <1>1 DEF Keeps, Ending
  <2>. QED  BY <1>1, <1>2, <2>2, <2>3, <2>4, ReaderStep, UntouchedUsers DEF LoopAt, k, kk
<1>. QED  BY <1>1, <1>3, <1>4

\* A response that cannot be read is answered with an error.
LEMMA ReadFailsWire ==
  ASSUME Inv1, WireInv, NEW c \in Conns, readResponseFails(c), Calm PROVE WireInv'
<1>. DEFINE k == conn[c]
            kk == conn'[c]
<1>1. /\ LoopAt(c) /\ k.rl = "response" /\ kk.rl = "deliver" /\ kk.resp = ErrResp /\ kk.rc = k.rc
      /\ kk.reqch = k.reqch /\ kk.idle = k.idle /\ kk.waitForBodyRead = k.waitForBodyRead
  BY ReadFailsDoes
<1>2. Turn(k, net[c]) /\ Latest(kk) = Latest(k) /\ kk.wrote = k.wrote /\ ErrResp.body = FALSE
  BY <1>1, WriterLatest DEF WireInv, WireAt, LoopAt, ErrResp, Response
<1>. HIDE DEF k, kk
<1>3. Turn(kk, net[c])
  BY <1>1, <1>2 DEF Turn, Resting, Recycled, Finishing, Ending
<1>4. Own(handled, kk)
  BY <1>1 DEF Own
<1>5. Keeps(k, kk)
  BY <1>1 DEF Keeps, Ending
<1>. QED  BY <1>1, <1>2, <1>3, <1>4, <1>5, ReaderStep, UntouchedUsers DEF LoopAt, k, kk

\* The end of the loop, and the closing of idle connections.
LEMMA EndWire ==
  ASSUME Inv1, WireInv, NEW c \in Conns, Calm,
         \/ readLoopCallerGone(c) \/ readLoopExit(c) \/ readLoopClose(c) \/ removeIdleConn(c)
         \/ closeConnIfStillIdle(c)
  PROVE  WireInv'
<1>1. LoopAt(c) /\ (SameReader(conn[c], conn'[c]) \/ EndsReading(conn[c], conn'[c]))
  BY EndDoes, CloseIdleDoes DEF EndsReading
<1>2. Latest(conn'[c]) = Latest(conn[c]) /\ conn'[c].wrote = conn[c].wrote
  BY <1>1, WriterLatest DEF LoopAt
<1>. QED  BY <1>1, <1>2, PassiveStep, UntouchedUsers DEF LoopAt

\* The response body was read to its end, or the loop ends.
LEMMA BodyWaitWire ==
  ASSUME Inv1, WireInv, NEW c \in Conns, readLoopBodyWait(c), Calm PROVE WireInv'
<1>. DEFINE k == conn[c]
            kk == conn'[c]
<1>1. /\ LoopAt(c) /\ k.rl = "bodyWait" /\ kk.reqch = k.reqch /\ kk.rc = k.rc /\ kk.idle = k.idle
      /\ \/ /\ k.waitForBodyRead = "EOF" /\ kk.waitForBodyRead = "none"
            /\ kk.rl = "recycle" /\ kk.resp = k.resp
         \/ kk.rl = "exit"
  BY BodyWaitDoes
<1>2. Turn(k, net[c]) /\ Own(handled, k) /\ Latest(kk) = Latest(k) /\ kk.wrote = k.wrote
  BY <1>1, WriterLatest DEF WireInv, WireAt, LoopAt
<1>. HIDE DEF k, kk
<1>3. CASE kk.rl = "exit"
  <2>1. EndsReading(k, kk)
    BY <1>1, <1>3 DEF EndsReading, Ending
  <2>. QED  BY <1>1, <1>2, <2>1, PassiveStep, UntouchedUsers DEF LoopAt, k, kk
<1>4. CASE /\ k.waitForBodyRead = "EOF" /\ kk.waitForBodyRead = "none"
           /\ kk.rl = "recycle" /\ kk.resp = k.resp
  <2>2. Turn(kk, net[c])
    BY <1>1, <1>2, <1>4 DEF Turn, Resting, Recycled, Finishing, Ending
  <2>3. Own(handled, kk)
    BY <1>1, <1>2, <1>4 DEF Own, Finishing
  <2>4. Keeps(k, kk)
    BY <1>1, <1>4 DEF Keeps, Ending
  <2>. QED  BY <1>1, <1>2, <2>2, <2>3, <2>4, ReaderStep, UntouchedUsers DEF LoopAt, k, kk
<1>. QED  BY <1>1, <1>3, <1>4

\* A connection that goes back to the pool has nothing left to read.
LEMMA RecycleWire ==
  ASSUME Inv1, WireInv, NEW c \in Conns, Calm,
         wroteRequest(c) \/ tryPutIdleConnCheck(c) \/ tryPutIdleConn(c)
  PROVE  WireInv'
<1>. DEFINE k == conn[c]
            kk == conn'[c]
<1>1. /\ LoopAt(c) /\ k.rl \in Finishing /\ kk.reqch = k.reqch /\ kk.rc = k.rc
      /\ kk.resp = k.resp /\ kk.waitForBodyRead = k.waitForBodyRead
      /\ \/ kk.rl \in {"put", "putLocked"} /\ kk.idle = k.idle
         \/ /\ kk.rl = IF k.resp.body THEN "exit" ELSE "deliver"
            /\ kk.alive = FALSE /\ kk.idle = k.idle
         \/ /\ kk.rl = IF k.resp.body THEN "peek" ELSE "deliver"
            /\ kk.alive = TRUE /\ kk.idle = TRUE
  BY RecycleDoes
<1>2. /\ Turn(k, net[c]) /\ Own(handled, k) /\ Latest(kk) = Latest(k) /\ kk.wrote = k.wrote
      /\ Good(k) /\ k \in ConnType
  BY <1>1, WriterLatest, AtConn DEF WireInv, WireAt, LoopAt
<1>. HIDE DEF k, kk
<1>3. k.resp \in Message /\ k.resp.body \in BOOLEAN
  BY <1>1, <1>2, MessageFacts DEF Good, Reading, Finishing
<1>4. k.reqch = NoReq /\ ~k.idle /\ Latest(k) = k.rc
  BY <1>1, <1>2 DEF Good, OneUse, Turn, Finishing, Resting, Recycled, Ending
<1>5. Quiet(net[c].down) /\ Answered(net[c]) /\ k.waitForBodyRead = "none"
  BY <1>1, <1>2 DEF Turn, Finishing, Ending
<1>6. Turn(kk, net[c])
  <2>1. CASE kk.rl \in {"put", "putLocked"} /\ kk.idle = k.idle
    BY <1>1, <1>2, <1>4, <1>5, <2>1 DEF Turn, Resting, Recycled, Finishing, Ending
  <2>2. CASE /\ kk.rl = IF k.resp.body THEN "exit" ELSE "deliver"
             /\ kk.alive = FALSE /\ kk.idle = k.idle
    BY <1>1, <1>2, <1>3, <1>4, <1>5, <2>2 DEF Turn, Resting, Recycled, Finishing, Ending
  <2>3. CASE /\ kk.rl = IF k.resp.body THEN "peek" ELSE "deliver"
             /\ kk.alive = TRUE /\ kk.idle = TRUE
    BY <1>1, <1>2, <1>3, <1>4, <1>5, <2>3 DEF Turn, Resting, Recycled, Finishing, Ending
  <2>. QED  BY <1>1, <2>1, <2>2, <2>3
<1>7. Own(handled, kk)
  BY <1>1, <1>2 DEF Own, Finishing
<1>8. Keeps(k, kk)
  BY <1>1 DEF Keeps, Finishing, Ending
<1>. QED  BY <1>1, <1>2, <1>6, <1>7, <1>8, ReaderStep, UntouchedUsers DEF LoopAt, k, kk

\* A message is read.
LEMMA ReadResponseWire ==
  ASSUME Inv1, WireInv, NEW c \in Conns, readResponse(c), Calm PROVE WireInv'
<1>. DEFINE k == conn[c]
            kk == conn'[c]
            n == net[c]
            nn == net'[c]
            m == Head(n.down)
<1>1. /\ k.rl = "response" /\ n.down # <<>> /\ k.rc \in Reqs /\ m \in Message
      /\ nn = [n EXCEPT !.down = Tail(@)] /\ OnlyAt(c) /\ req' = req /\ handled' = handled
      /\ kk.writech = k.writech /\ kk.wr = k.wr /\ kk.wrote = k.wrote /\ kk.idle = k.idle
      /\ kk.reqch = k.reqch /\ kk.rc = k.rc /\ kk.waitForBodyRead = k.waitForBodyRead
      /\ \/ /\ m.code \in HintCodes
            /\ kk.rl = "response" \/ (kk.rl = "deliver" /\ kk.resp = ErrResp)
         \/ /\ m.code \notin HintCodes /\ kk.resp = m
            /\ kk.rl = IF m.body THEN "deliver" ELSE "recycle"
  BY ReadResponseDoes
<1>2. k \in ConnType /\ Good(k) /\ n \in NetType /\ n.down \in Seq(Message)
  BY AtConn DEF NetType
<1>3. m = n.down[1] /\ Len(n.down) \in Nat /\ Len(n.down) > 0 /\ Len(Tail(n.down)) = Len(n.down) - 1
      /\ (Tail(n.down) = <<>> <=> Len(n.down) = 1) /\ nn.down = Tail(n.down) /\ nn.fin = n.fin
  BY <1>1, <1>2, TailFacts DEF NetType
<1>4. Wire(handled, Latest(k), k.wrote, n) /\ Turn(k, n) /\ Own(handled, k)
  BY DEF WireInv, WireAt
<1>5. Latest(kk) = Latest(k)
  BY <1>1 DEF Latest
<1>6. /\ Wire(handled, Latest(k), k.wrote, nn) /\ (Answered(nn) <=> Answered(n))
      /\ m.code \in FinalCodes \cup {"body"} => Answered(n)
      /\ nn.down # <<>> => DownFollows(m, nn.down[1])
  <2>1. n \in NetType
    BY <1>2
  <2>3. Popped(n, nn)
    BY <1>1 DEF Popped
  <2>5. Wire(handled, Latest(k), k.wrote, n)
    BY <1>4
  <2>. HIDE DEF n, nn, k
  <2>2. /\ Wire(handled, Latest(k), k.wrote, nn) /\ (Answered(nn) <=> Answered(n))
        /\ n.down[1].code \in FinalCodes \cup {"body"} => Answered(n)
        /\ nn.down # <<>> => DownFollows(n.down[1], nn.down[1])
    BY <2>1, <2>3, <2>5, TailWire
  <2>. QED  BY <1>3, <2>2
<1>7. /\ m = Gone => nn.down = <<>>
      /\ m.code \in FinalCodes /\ ~m.body => Quiet(nn.down)
  BY <1>1, <1>2, <1>3, <1>4, EndsThere DEF Wire
<1>8. /\ Latest(k) = k.rc /\ k.reqch = NoReq /\ ~k.idle /\ k.waitForBodyRead = "none" /\ m.code # "body"
  BY <1>1, <1>2, <1>3, <1>4 DEF Good, OneUse, Turn, Resting, Recycled, Ending
<1>9. /\ m.code \in HintCodes \cup FinalCodes \cup {"body", "408"} /\ (m.code = "408" <=> m = Gone)
      /\ m.code \in FinalCodes => m \in Final(m.of)
      /\ m.body \in BOOLEAN /\ Gone.body = FALSE /\ m # ErrResp /\ ErrResp.body = FALSE
  BY <1>1, MessageFacts DEF ErrResp, Response
<1>10. m = Gone => n.fin # "no"
  <2>1. 1 \in 1 .. Len(n.down)
    BY <1>3
  <2>. QED  BY <1>3, <1>4, <2>1 DEF Wire, Serving
<1>11. m # Gone => m.of = k.rc /\ handled[k.rc] > 0 /\ k.wrote
  <2>1. 1 \in 1 .. Len(n.down)
    BY <1>3
  <2>. QED  BY <1>3, <1>4, <1>8, <2>1 DEF Wire, Belongs
<1>12. m.code \in FinalCodes /\ m.body => BodyNext(nn)
  <2>. SUFFICES ASSUME m.code \in FinalCodes, m.body PROVE BodyNext(nn)
    OBVIOUS
  <2>1. CASE nn.down # <<>>
    BY <1>6, <2>1 DEF BodyNext, DownFollows
  <2>2. CASE nn.down = <<>>
    <3>1. Len(n.down) = 1 /\ n.down[Len(n.down)] = m /\ m.code # "body"
      BY <1>3, <1>8, <2>2
    <3>2. ~Ended(n.down)
      BY <1>1, <3>1 DEF Ended
    <3>3. n.fin = "no" => n.owed = <<>>
      BY <1>6 DEF Answered
    <3>4. n.fin # "no"
      BY <1>4, <3>2, <3>3 DEF Wire, Serving
    <3>. QED  BY <1>3, <2>2, <3>4 DEF BodyNext
  <2>. QED  BY <2>1, <2>2
<1>. HIDE DEF k, kk, n, nn, m
<1>13. Turn(kk, nn) /\ Own(handled, kk)
  <2>1. CASE /\ m.code \in HintCodes
             /\ kk.rl = "response" \/ (kk.rl = "deliver" /\ kk.resp = ErrResp)
    <3>1. nn.down = <<>> \/ nn.down[1].code # "body"
      BY <1>6, <2>1 DEF DownFollows, HintCodes, FinalCodes
    <3>2. Turn(kk, nn)
      BY <1>1, <1>5, <1>8, <1>9, <2>1, <3>1 DEF Turn, Resting, Recycled, Finishing, Ending
    <3>3. Own(handled, kk)
      BY <2>1 DEF Own, Finishing
    <3>. QED  BY <3>2, <3>3
  <2>2. CASE m.code \notin HintCodes /\ kk.resp = m /\ m.body /\ kk.rl = "deliver"
    <3>1. m.code \in FinalCodes
      BY <1>8, <1>9, <2>2
    <3>2. Answered(nn) /\ BodyNext(nn) /\ kk.wrote
      BY <1>1, <1>6, <1>9, <1>11, <1>12, <2>2, <3>1
    <3>3. Turn(kk, nn)
      BY <1>1, <1>5, <1>8, <1>9, <2>2, <3>2 DEF Turn, Resting, Recycled, Finishing, Ending
    <3>4. Own(handled, kk)
      BY <1>1, <1>9, <1>11, <2>2, <3>1 DEF Own
    <3>. QED  BY <3>3, <3>4
  <2>3. CASE m.code \notin HintCodes /\ kk.resp = m /\ ~m.body /\ kk.rl = "recycle"
    <3>1. m.code \in FinalCodes \/ m = Gone
      BY <1>8, <1>9, <2>3
    <3>6. kk.wrote \/ nn.fin # "no"
      BY <1>1, <1>3, <1>10, <1>11
    <3>2. Answered(nn)
      <4>1. CASE m = Gone
        BY <1>3, <1>10, <4>1 DEF Answered
      <4>2. CASE m.code \in FinalCodes
        BY <1>6, <4>2
      <4>. QED  BY <3>1, <4>1, <4>2
    <3>3. Quiet(nn.down)
      BY <1>7, <2>3, <3>1 DEF Quiet
    <3>4. Turn(kk, nn)
      BY <1>1, <1>5, <1>8, <1>9, <2>3, <3>2, <3>3, <3>6 DEF Turn, Resting, Recycled, Finishing, Ending
    <3>5. Own(handled, kk)
      BY <1>1, <1>9, <1>11, <2>3, <3>1 DEF Own
    <3>. QED  BY <3>4, <3>5
  <2>. QED  BY <1>1, <1>9, <2>1, <2>2, <2>3
<1>14. WireAt(handled', kk, nn)
  BY <1>1, <1>5, <1>6, <1>13 DEF WireAt
<1>15. \A r \in Reqs : Using(r)'
  <2>1. Keeps(k, kk) /\ Users
    BY <1>1, UntouchedReq, UntouchedUsers DEF Keeps, Ending
  <2>. QED  BY <1>1, <2>1, UsingStep DEF WireInv, k, kk
<1>16. ~Fit(k)
  BY <1>1 DEF Fit, Resting, Recycled, Ending
<1>17. Grows
  BY <1>1 DEF Grows, Inv1, TypeOK
<1>. QED  BY <1>1, <1>14, <1>15, <1>16, <1>17, WireStep DEF k, kk, n, nn

-----------------------------------------------------------------------------
(* ... under those of the user of a response body.                         *)

\* What the user does to the connection suits all users.
LEMMA UsingBy ==
  ASSUME Inv1, \A r \in Reqs : Using(r), NEW c \in Conns, OnlyAt(c), Calm,
         \A r \in Reqs : req'[r].respBody \in {"open", "failed"} =>
            /\ req[r].respBody \in {"open", "failed"} /\ req'[r].pc = req[r].pc
            /\ req[r].conn = c /\ Held(conn[c], r, req[r].respBody)
                  => Held(conn'[c], r, req'[r].respBody)
            /\ req[r].conn # c => req'[r].respBody = req[r].respBody
  PROVE  \A r \in Reqs : Using(r)'
<1>. SUFFICES ASSUME NEW r \in Reqs, req'[r].respBody \in {"open", "failed"} PROVE Using(r)'
  BY DEF Using
<1>1. /\ req[r].respBody \in {"open", "failed"} /\ req'[r].pc = req[r].pc /\ req'[r].conn = req[r].conn
  BY DEF Calm
<1>2. /\ req[r].pc = "done" /\ Unclaimed(req[r].conn)
      /\ Held(conn[req[r].conn], r, req[r].respBody)
  BY <1>1 DEF Using
<1>3. req[r].conn \in Conns
  BY <1>1, AtReq DEF Placed
<1>4. Unclaimed(req[r].conn)'
  <2>1. \A s \in Reqs : Pre(req[r].conn, s)' => Pre(req[r].conn, s)
    BY <1>1, <1>3 DEF Calm, Pre
  <2>. QED  BY <1>2, <2>1 DEF Unclaimed
<1>5. Held(conn'[req[r].conn], r, req'[r].respBody)
  <2>1. CASE req[r].conn = c
    BY <1>2, <2>1
  <2>2. CASE req[r].conn # c
    BY <1>2, <1>3, <2>2 DEF OnlyAt
  <2>. QED  BY <2>1, <2>2
<1>. QED  BY <1>1, <1>2, <1>4, <1>5 DEF Using, Held

\* What the calls of the user change.
LEMMA UserDoes ==
  ASSUME Inv1, NEW r \in Reqs, User(r)
  PROVE  LET c == req[r].conn
             k == conn[c]
             kk == conn'[c]
         IN
         /\ c \in Conns /\ OnlyAt(c) /\ handled' = handled /\ env' = env /\ SameWriter(k, kk)
         /\ kk.rl = k.rl /\ kk.rc = k.rc /\ kk.reqch = k.reqch /\ kk.resp = k.resp /\ kk.alive = k.alive
         /\ kk.idle = k.idle /\ kk.writeErrCh = k.writeErrCh
         /\ \A s \in Reqs : s # r => req'[s] = req[s]
         /\ req'[r].pc = req[r].pc /\ req'[r].conn = c /\ req'[r].err = req[r].err
         /\ req'[r].answer = req[r].answer /\ req'[r].writeErrCh = req[r].writeErrCh
         /\ req[r].respBody \in {"open", "failed"}
         /\ \/ /\ req[r].respBody = "open" /\ req'[r].respBody \in {"done", "EOFWait"}
               /\ net[c].down # <<>> /\ net'[c] = [net[c] EXCEPT !.down = Tail(@)]
               /\ kk.waitForBodyRead = IF k.waitForBodyRead = "none" THEN "EOF" ELSE k.waitForBodyRead
            \/ /\ net' = net
               /\ kk.waitForBodyRead = IF k.waitForBodyRead = "none" THEN "early" ELSE k.waitForBodyRead
               /\ req'[r].respBody \in {"failed", "done", "earlyWait"}
<1>. DEFINE c == req[r].conn
            k == conn[c]
            kk == conn'[c]
<1>1. req[r].respBody \in {"open", "failed"} /\ handled' = handled /\ env' = env
  BY DEF User, bodyReadEOF, bodyReadErr, bodyClose
<1>2. /\ c \in Conns /\ k \in ConnType /\ conn \in [Conns -> ConnType] /\ req \in [Reqs -> ReqType]
      /\ net \in [Conns -> NetType]
  BY <1>1, AtSent DEF Inv1, TypeOK
<1>3. ASSUME NEW b \in BodyStates, req' = [req EXCEPT ![r].respBody = b]
      PROVE  /\ \A s \in Reqs : s # r => req'[s] = req[s]
             /\ req'[r].pc = req[r].pc /\ req'[r].conn = c /\ req'[r].err = req[r].err
             /\ req'[r].answer = req[r].answer /\ req'[r].writeErrCh = req[r].writeErrCh
             /\ req'[r].respBody = b
  BY <1>2, <1>3 DEF ReqType
<1>4. CASE bodyReadEOF(r)
  <2>. DEFINE b == IF LoopEnded(c) THEN "done" ELSE "EOFWait"
              x == IF k.waitForBodyRead = "none" THEN "EOF" ELSE k.waitForBodyRead
  <2>1. b \in {"done", "EOFWait"} /\ b \in BodyStates /\ req' = [req EXCEPT ![r].respBody = b]
    BY <1>4 DEF bodyReadEOF, BodyStates
  <2>2. PICK eof : conn' = [conn EXCEPT ![c].sawEOF = eof, ![c].waitForBodyRead = x]
    BY <1>4 DEF bodyReadEOF
  <2>3. /\ req[r].respBody = "open" /\ net[c].down # <<>> /\ net' = [net EXCEPT ![c].down = Tail(@)]
    BY <1>4 DEF bodyReadEOF
  <2>. HIDE DEF b, x
  <2>4. /\ SameWriter(k, kk) /\ kk.waitForBodyRead = x
        /\ kk.rl = k.rl /\ kk.rc = k.rc /\ kk.reqch = k.reqch /\ kk.resp = k.resp /\ kk.alive = k.alive
        /\ kk.idle = k.idle /\ kk.writeErrCh = k.writeErrCh
    BY <1>2, <2>2 DEF ConnType, SameWriter, isBroken
  <2>5. OnlyAt(c) /\ net'[c] = [net[c] EXCEPT !.down = Tail(@)]
    BY <1>2, <2>2, <2>3 DEF OnlyAt
  <2>. QED  BY <1>1, <1>2, <1>3, <2>1, <2>3, <2>4, <2>5 DEF x
<1>5. CASE bodyReadErr(r) \/ bodyClose(r)
  <2>. DEFINE x == IF k.waitForBodyRead = "none" THEN "early" ELSE k.waitForBodyRead
  <2>1. PICK b \in {"failed", "done", "earlyWait"} : req' = [req EXCEPT ![r].respBody = b]
    BY <1>5 DEF bodyReadErr, bodyClose
  <2>2. conn' = [conn EXCEPT ![c].waitForBodyRead = x] /\ net' = net
    BY <1>5 DEF bodyReadErr, bodyClose, Signal
  <2>. HIDE DEF x
  <2>4. /\ SameWriter(k, kk) /\ kk.waitForBodyRead = x
        /\ kk.rl = k.rl /\ kk.rc = k.rc /\ kk.reqch = k.reqch /\ kk.resp = k.resp /\ kk.alive = k.alive
        /\ kk.idle = k.idle /\ kk.writeErrCh = k.writeErrCh
    BY <1>2, <2>2 DEF ConnType, SameWriter, isBroken
  <2>5. OnlyAt(c) /\ b \in BodyStates
    BY <1>2, <2>2 DEF OnlyAt, BodyStates
  <2>. QED  BY <1>1, <1>2, <1>3, <2>1, <2>2, <2>4, <2>5 DEF x
<1>. QED  BY <1>4, <1>5 DEF User

\* The user reads to the end of the body, fails to, or closes it.
LEMMA UserWire ==
  ASSUME Inv1, WireInv, NEW r \in Reqs, User(r), Calm PROVE WireInv'
<1>. DEFINE c == req[r].conn
            k == conn[c]
            kk == conn'[c]
            n == net[c]
            nn == net'[c]
<1>1. /\ c \in Conns /\ OnlyAt(c) /\ handled' = handled /\ SameWriter(k, kk)
      /\ kk.rl = k.rl /\ kk.rc = k.rc /\ kk.reqch = k.reqch /\ kk.resp = k.resp /\ kk.alive = k.alive
      /\ kk.idle = k.idle
      /\ \A s \in Reqs : s # r => req'[s] = req[s]
      /\ req'[r].pc = req[r].pc /\ req[r].respBody \in {"open", "failed"}
  BY UserDoes
<1>2. \/ /\ req[r].respBody = "open" /\ req'[r].respBody \in {"done", "EOFWait"}
         /\ n.down # <<>> /\ nn = [n EXCEPT !.down = Tail(@)]
         /\ kk.waitForBodyRead = IF k.waitForBodyRead = "none" THEN "EOF" ELSE k.waitForBodyRead
      \/ /\ net' = net
         /\ kk.waitForBodyRead = IF k.waitForBodyRead = "none" THEN "early" ELSE k.waitForBodyRead
         /\ req'[r].respBody \in {"failed", "done", "earlyWait"}
  BY UserDoes
<1>3. /\ WireAt(handled, k, n) /\ Held(k, r, req[r].respBody) /\ n \in NetType /\ \A s \in Reqs : Using(s)
      /\ n.down \in Seq(Message)
  BY <1>1, AtConn DEF WireInv, Using, NetType
<1>4. Latest(kk) = Latest(k) /\ kk.wrote = k.wrote /\ Grows
  BY <1>1, WriterLatest DEF Grows, Inv1, TypeOK
<1>5. Wire(handled, Latest(k), k.wrote, n) /\ Turn(k, n) /\ Own(handled, k)
  BY <1>3 DEF WireAt
<1>. HIDE DEF k, kk, n, nn
<1>6. Recycled(kk) = Recycled(k) /\ Resting(kk) = Resting(k) /\ Own(handled, kk)
  BY <1>1, <1>5 DEF Recycled, Resting, Own
<1>7. CASE /\ req[r].respBody = "open" /\ req'[r].respBody \in {"done", "EOFWait"}
           /\ n.down # <<>> /\ nn = [n EXCEPT !.down = Tail(@)]
           /\ kk.waitForBodyRead = IF k.waitForBodyRead = "none" THEN "EOF" ELSE k.waitForBodyRead
  <2>1. Popped(n, nn) /\ nn.down = Tail(n.down) /\ nn.fin = n.fin
    BY <1>3, <1>7 DEF Popped, NetType
  <2>2. /\ Wire(handled, Latest(k), k.wrote, nn) /\ (Answered(nn) <=> Answered(n))
        /\ n.down[1].code \in FinalCodes \cup {"body"} => Answered(n)
    BY <1>3, <1>5, <2>1, TailWire
  <2>3. /\ n.down[1] = Gone => nn.down = <<>>
        /\ n.down[1].code = "body" => Quiet(nn.down)
    BY <1>3, <1>5, <1>7, <2>1, EndsThere DEF Wire
  <2>4. Turn(kk, nn)
    <3>1. CASE k.rl = "bodyWait" /\ k.waitForBodyRead = "none" /\ ~k.idle /\ k.reqch = NoReq
      <4>1. n.down[1].code = "body"
        BY <1>5, <1>7, <3>1 DEF Turn, BodyNext
      <4>2. Quiet(nn.down) /\ Answered(nn)
        BY <2>2, <2>3, <4>1
      <4>. QED  BY <1>1, <1>4, <1>5, <1>6, <1>7, <3>1, <4>2 DEF Turn, Finishing
    <3>2. CASE k.rl \in Ending /\ ~k.idle /\ k.reqch = NoReq
      BY <1>1, <1>4, <1>5, <1>6, <3>2 DEF Turn, Finishing, Ending
    <3>. QED  BY <1>3, <1>7, <3>1, <3>2 DEF Held
  <2>5. \A s \in Reqs : Using(s)'
    <3>1. ASSUME NEW s \in Reqs, req'[s].respBody \in {"open", "failed"}
          PROVE  /\ req[s].respBody \in {"open", "failed"} /\ req'[s].pc = req[s].pc
                 /\ req[s].conn = c /\ Held(conn[c], s, req[s].respBody)
                       => Held(conn'[c], s, req'[s].respBody)
                 /\ req[s].conn # c => req'[s].respBody = req[s].respBody
      <4>1. s # r /\ req'[s] = req[s]
        BY <1>1, <1>7, <3>1
      <4>2. Held(k, s, req[s].respBody) => Held(kk, s, req[s].respBody)
        BY <1>1, <1>3, <4>1 DEF Held
      <4>. QED  BY <3>1, <4>1, <4>2 DEF k, kk
    <3>. HIDE DEF c
    <3>. QED  BY <1>1, <1>3, <3>1, UsingBy
  <2>6. Quiet(n.down) /\ Answered(n) => Quiet(nn.down) /\ Answered(nn)
    <3>1. Quiet(n.down) => n.down[1] = Gone
      BY <1>7 DEF Quiet
    <3>. QED  BY <2>2, <2>3, <3>1 DEF Quiet
  <2>7. WireAt(handled', kk, nn)
    BY <1>1, <1>4, <1>6, <2>2, <2>4 DEF WireAt
  <2>. HIDE DEF c
  <2>. QED  BY <1>1, <1>4, <2>5, <2>6, <2>7, WireStep DEF k, kk, n, nn
<1>8. CASE /\ net' = net
           /\ kk.waitForBodyRead = IF k.waitForBodyRead = "none" THEN "early" ELSE k.waitForBodyRead
           /\ req'[r].respBody \in {"failed", "done", "earlyWait"}
  <2>1. nn = n
    BY <1>8 DEF n, nn
  <2>2. Turn(kk, n)
    <3>1. CASE k.rl = "bodyWait" /\ kk.waitForBodyRead = "early" /\ ~k.idle /\ k.reqch = NoReq
      BY <1>1, <1>4, <1>5, <1>6, <3>1 DEF Turn, Finishing
    <3>2. CASE k.rl \in Ending /\ ~k.idle /\ k.reqch = NoReq
      BY <1>1, <1>4, <1>5, <1>6, <3>2 DEF Turn, Finishing, Ending
    <3>. QED  BY <1>1, <1>3, <1>8, <3>1, <3>2 DEF Held
  <2>3. \A s \in Reqs : Using(s)'
    <3>1. ASSUME NEW s \in Reqs, req'[s].respBody \in {"open", "failed"}
          PROVE  /\ req[s].respBody \in {"open", "failed"} /\ req'[s].pc = req[s].pc
                 /\ req[s].conn = c /\ Held(conn[c], s, req[s].respBody)
                       => Held(conn'[c], s, req'[s].respBody)
                 /\ req[s].conn # c => req'[s].respBody = req[s].respBody
      <4>1. CASE s = r
        <5>1. req'[s].respBody = "failed"
          BY <1>8, <3>1, <4>1
        <5>2. Held(k, s, req[s].respBody) => Held(kk, s, "failed")
          BY <1>1, <1>8, <4>1 DEF Held
        <5>. QED  BY <1>1, <4>1, <5>1, <5>2 DEF k, kk
      <4>2. CASE s # r
        <5>1. req'[s] = req[s]
          BY <1>1, <4>2
        <5>2. Held(k, s, req[s].respBody) => Held(kk, s, req[s].respBody)
          BY <1>1, <1>3, <4>2 DEF Held
        <5>. QED  BY <3>1, <5>1, <5>2 DEF k, kk
      <4>. QED  BY <4>1, <4>2
    <3>. HIDE DEF c
    <3>. QED  BY <1>1, <1>3, <3>1, UsingBy
  <2>4. WireAt(handled', kk, nn)
    BY <1>1, <1>4, <1>5, <1>6, <2>1, <2>2 DEF WireAt
  <2>. HIDE DEF c
  <2>. QED  BY <1>1, <1>4, <2>1, <2>3, <2>4, WireStep DEF k, kk, n, nn
<1>. QED  BY <1>2, <1>7, <1>8

-----------------------------------------------------------------------------
(* ... under the select of persistConn.roundTrip.                          *)

\* What handleResponse changes.
LEMMA HandleDoes ==
  ASSUME Inv1, NEW r \in Reqs, req[r].pc = "select", Offers(req[r].conn, r),
         handleResponse(req[r].conn, r)
  PROVE  LET c == req[r].conn
             k == conn[c]
             kk == conn'[c]
             qq == req'[r]
         IN
         /\ \A d \in Conns : d # c => conn'[d] = conn[d]
         /\ \A s \in Reqs : s # r => req'[s] = req[s]
         /\ qq.conn = c /\ SameWriter(k, kk) /\ k.rl = "deliver" /\ k.rc = r
         /\ kk = [k EXCEPT !.rl = kk.rl]
         /\ \/ /\ k.resp = ErrResp /\ kk.rl = "exit" /\ qq.pc = "map" /\ qq.err = k.peek
               /\ qq.answer = req[r].answer /\ qq.respBody = req[r].respBody
               /\ qq.writeErrCh = req[r].writeErrCh
            \/ /\ k.resp # ErrResp /\ qq.pc = "done" /\ qq.answer = k.resp.of
               /\ kk.rl = IF k.resp.body THEN "bodyWait" ELSE IF k.alive THEN "peek" ELSE "exit"
               /\ qq.respBody = IF k.resp.body THEN "open" ELSE "none"
<1>. DEFINE c == req[r].conn
            k == conn[c]
            kk == conn'[c]
            qq == req'[r]
<1>1. /\ c \in Conns /\ k \in ConnType /\ Good(k) /\ req[r] \in ReqType /\ k.rl = "deliver" /\ k.rc = r
      /\ conn \in [Conns -> ConnType] /\ req \in [Reqs -> ReqType]
  BY AtSent DEF Offers, Inv1, TypeOK
<1>2. CASE k.resp = ErrResp
  <2>1. req' = [req EXCEPT ![r].pc = "map", ![r].err = k.peek] /\ conn' = [conn EXCEPT ![c].rl = "exit"]
    BY <1>2 DEF handleResponse
  <2>2. kk = [k EXCEPT !.rl = "exit"] /\ \A d \in Conns : d # c => conn'[d] = conn[d]
    BY <1>1, <2>1
  <2>3. SameWriter(k, kk) /\ kk.rl = "exit"
    BY <1>1, <2>2 DEF SameWriter, ConnType, isBroken
  <2>4. /\ \A s \in Reqs : s # r => req'[s] = req[s]
        /\ qq.conn = c /\ qq.pc = "map" /\ qq.err = k.peek /\ qq.answer = req[r].answer
        /\ qq.respBody = req[r].respBody /\ qq.writeErrCh = req[r].writeErrCh
    BY <1>1, <2>1 DEF ReqType
  <2>. QED  BY <1>1, <1>2, <2>2, <2>3, <2>4
<1>3. CASE k.resp # ErrResp
  <2>. DEFINE x == IF k.resp.body THEN "bodyWait" ELSE IF k.alive THEN "peek" ELSE "exit"
              p == Return(req[r], k.resp.of)
              u == IF k.resp.body THEN "open" ELSE "none"
              v == IF ~k.resp.body /\ p.ctx = "live" THEN "done" ELSE p.ctx
  <2>1. k.resp \in Message
    BY <1>1, <1>3 DEF Good, Reading
  <2>2. k.resp.of \in Answers
    BY <2>1, MessageFacts DEF Answers
  <2>3. p \in ReqType /\ p.pc = "done" /\ p.conn = c /\ p.answer = k.resp.of
    BY <1>1, <2>2, ReturnFacts
  <2>4. req' = [req EXCEPT ![r] = [p EXCEPT !.respBody = u, !.ctx = v]]
    <3>1. req' = [req EXCEPT ![r] =
             [p EXCEPT !.respBody = u,
                       !.ctx = IF ~k.resp.body /\ @ = "live" THEN "done" ELSE @]]
      BY <1>3 DEF handleResponse
    <3>. HIDE DEF p
    <3>. QED  BY <3>1, <2>3 DEF ReqType
  <2>5. conn' = [conn EXCEPT ![c].rl = x]
    BY <1>3 DEF handleResponse
  <2>. HIDE DEF p, u, v, x
  <2>6. kk = [k EXCEPT !.rl = x] /\ \A d \in Conns : d # c => conn'[d] = conn[d]
    BY <1>1, <2>5
  <2>7. SameWriter(k, kk) /\ kk.rl = x
    BY <1>1, <2>6 DEF SameWriter, ConnType, isBroken
  <2>8. /\ \A s \in Reqs : s # r => req'[s] = req[s]
        /\ qq.conn = c /\ qq.pc = "done" /\ qq.answer = k.resp.of /\ qq.respBody = u
    BY <1>1, <2>3, <2>4 DEF ReqType
  <2>. QED  BY <1>1, <1>3, <2>6, <2>7, <2>8 DEF x, u
<1>. QED  BY <1>2, <1>3

\* What one round of the select changes: the caller waits on, or leaves with an
\* error, or with what the read loop offers.
LEMMA SelectDoes ==
  ASSUME Inv1, NEW r \in Reqs, roundTripSelect(r)
  PROVE  LET c == req[r].conn
             k == conn[c]
             kk == conn'[c]
             q == req[r]
             qq == req'[r]
         IN
         /\ c \in Conns /\ q.pc = "select" /\ OnlyAt(c) /\ net' = net /\ handled' = handled /\ env' = env
         /\ \A s \in Reqs : s # r => req'[s] = req[s]
         /\ qq.conn = c /\ SameWriter(k, kk)
         /\ kk.reqch = k.reqch /\ kk.rc = k.rc /\ kk.resp = k.resp /\ kk.alive = k.alive
         /\ kk.waitForBodyRead = k.waitForBodyRead /\ kk.idle = k.idle /\ kk.writeErrCh = k.writeErrCh
         /\ \/ /\ qq.pc \in {"select", "map", "failed"} /\ kk.rl = k.rl
               /\ qq.respBody = q.respBody /\ qq.answer = q.answer
               /\ qq.writeErrCh \in {"none", q.writeErrCh}
               /\ qq.pc = "map" => /\ qq.err # "nothingWritten" /\ isBroken(kk)
                                   /\ q.writeErrCh = "err" \/ ~Offers(c, r)
               /\ qq.pc = "failed" => qq.err # "nothingWritten" /\ isBroken(kk)
            \/ /\ k.rl = "deliver" /\ k.rc = r /\ k.resp = ErrResp /\ kk.rl = "exit"
               /\ qq.pc = "map" /\ qq.err # "nothingWritten"
               /\ qq.respBody = q.respBody /\ qq.answer = q.answer
               /\ qq.writeErrCh = q.writeErrCh
            \/ /\ k.rl = "deliver" /\ k.rc = r /\ k.resp # ErrResp
               /\ kk.rl = IF k.resp.body THEN "bodyWait" ELSE IF k.alive THEN "peek" ELSE "exit"
               /\ qq.pc = "done" /\ qq.answer = k.resp.of
               /\ qq.respBody = IF k.resp.body THEN "open" ELSE "none"
<1>. DEFINE c == req[r].conn
            k == conn[c]
            kk == conn'[c]
            q == req[r]
            qq == req'[r]
<1>1. /\ q.pc = "select" /\ env' = env /\ net' = net /\ handled' = handled
  BY DEF roundTripSelect
<1>2. /\ c \in Conns /\ k \in ConnType /\ Good(k) /\ q \in ReqType
      /\ conn \in [Conns -> ConnType] /\ req \in [Reqs -> ReqType]
  BY <1>1, AtSent DEF Inv1, TypeOK
<1>. DEFINE Rest1 ==
              /\ OnlyAt(c) /\ SameWriter(k, kk)
              /\ kk.reqch = k.reqch /\ kk.rc = k.rc /\ kk.resp = k.resp /\ kk.alive = k.alive
              /\ kk.waitForBodyRead = k.waitForBodyRead /\ kk.idle = k.idle /\ kk.writeErrCh = k.writeErrCh
<1>3. ASSUME conn' = conn PROVE Rest1 /\ kk.rl = k.rl
  BY <1>1, <1>3 DEF OnlyAt, SameWriter
<1>4. ASSUME NEW kj \in ConnType, conn' = [conn EXCEPT ![c] = kj],
             NEW x, NEW y, kj = [k EXCEPT !.closed = x, !.canceled = y],
             isBroken(k) => isBroken(kj)
      PROVE  Rest1 /\ kk.rl = k.rl /\ kk = kj
  BY ZenonT(40), <1>1, <1>2, <1>4 DEF OnlyAt, SameWriter, ConnType
<1>5. ASSUME NEW reason \in CloseReasons, conn' = [conn EXCEPT ![c] = closeLocked(@, reason)]
      PROVE  Rest1 /\ kk.rl = k.rl /\ isBroken(kk)
  <2>. DEFINE kj == closeLocked(k, reason)
              x == IF k.closed = "no" THEN reason ELSE k.closed
  <2>1. kj \in ConnType /\ isBroken(kj) /\ conn' = [conn EXCEPT ![c] = kj]
    BY <1>2, <1>5, CloseFacts
  <2>2. kj = [k EXCEPT !.closed = x, !.canceled = k.canceled]
    BY <1>2 DEF closeLocked, ConnType
  <2>. HIDE DEF kj, x
  <2>. QED  BY <1>4, <2>1, <2>2
<1>6. CASE /\ req' = [req EXCEPT ![r].writeErrCh = "none", ![r].timer = "timeout" \in env.faults]
           /\ UNCHANGED conn
  <2>. DEFINE t == "timeout" \in env.faults
  <2>1. req' = [req EXCEPT ![r].writeErrCh = "none", ![r].timer = t]
    BY <1>6
  <2>. HIDE DEF t
  <2>2. /\ \A s \in Reqs : s # r => req'[s] = req[s]
        /\ qq.conn = c /\ qq.pc = "select" /\ qq.respBody = q.respBody /\ qq.answer = q.answer
        /\ qq.writeErrCh = "none"
    BY <1>1, <1>2, <2>1 DEF ReqType
  <2>. QED  BY <1>1, <1>2, <1>3, <1>6, <2>2
<1>7. CASE /\ q.writeErrCh = "err"
           /\ req' = [req EXCEPT ![r].pc = "map", ![r].err = "write"]
           /\ conn' = [conn EXCEPT ![c] = closeLocked(@, "write")]
  <2>1. Rest1 /\ kk.rl = k.rl /\ isBroken(kk)
    BY <1>5, <1>7 DEF CloseReasons
  <2>. HIDE DEF Rest1
  <2>2. /\ \A s \in Reqs : s # r => req'[s] = req[s]
        /\ qq.conn = c /\ qq.pc = "map" /\ qq.err = "write" /\ qq.respBody = q.respBody
        /\ qq.answer = q.answer /\ qq.writeErrCh = q.writeErrCh
    BY <1>2, <1>7 DEF ReqType
  <2>. QED  BY <1>1, <1>2, <1>7, <2>1, <2>2 DEF Rest1
<1>8. CASE Offers(c, r) /\ handleResponse(c, r)
  <2>1. /\ \A d \in Conns : d # c => conn'[d] = conn[d]
        /\ \A s \in Reqs : s # r => req'[s] = req[s]
        /\ qq.conn = c /\ SameWriter(k, kk) /\ k.rl = "deliver" /\ k.rc = r
        /\ kk = [k EXCEPT !.rl = kk.rl]
        /\ \/ /\ k.resp = ErrResp /\ kk.rl = "exit" /\ qq.pc = "map" /\ qq.err = k.peek
              /\ qq.answer = req[r].answer /\ qq.respBody = req[r].respBody
              /\ qq.writeErrCh = req[r].writeErrCh
           \/ /\ k.resp # ErrResp /\ qq.pc = "done" /\ qq.answer = k.resp.of
              /\ kk.rl = IF k.resp.body THEN "bodyWait" ELSE IF k.alive THEN "peek" ELSE "exit"
              /\ qq.respBody = IF k.resp.body THEN "open" ELSE "none"
    BY <1>1, <1>8, HandleDoes
  <2>2. k.peek # "nothingWritten"
    BY <1>2 DEF ConnType, Peeks, ReadErrors
  <2>. DEFINE y == kk.rl
  <2>3. kk = [k EXCEPT !.rl = y]
    BY <2>1
  <2>. HIDE DEF y
  <2>4. /\ kk.reqch = k.reqch /\ kk.rc = k.rc /\ kk.resp = k.resp /\ kk.alive = k.alive
        /\ kk.waitForBodyRead = k.waitForBodyRead /\ kk.idle = k.idle /\ kk.writeErrCh = k.writeErrCh
    BY <1>2, <2>3 DEF ConnType
  <2>5. OnlyAt(c)
    BY <1>1, <2>1 DEF OnlyAt
  <2>. HIDE DEF kk, qq
  <2>. QED  BY <1>1, <1>2, <2>1, <2>2, <2>4, <2>5 DEF kk, qq
<1>9. CASE /\ isBroken(k) /\ ~Offers(c, r)
           /\ req' = [req EXCEPT ![r].pc = "map", ![r].err = conn[c].closed]
           /\ UNCHANGED conn
  <2>1. Rest1 /\ kk.rl = k.rl /\ isBroken(kk)
    BY <1>3, <1>9
  <2>. HIDE DEF Rest1
  <2>2. k.closed # "nothingWritten"
    BY <1>2 DEF ConnType, Closings, CloseReasons
  <2>3. /\ \A s \in Reqs : s # r => req'[s] = req[s]
        /\ qq.conn = c /\ qq.pc = "map" /\ qq.err = k.closed /\ qq.respBody = q.respBody
        /\ qq.answer = q.answer /\ qq.writeErrCh = q.writeErrCh
    BY <1>2, <1>9 DEF ReqType
  <2>. QED  BY <1>1, <1>2, <1>9, <2>1, <2>2, <2>3 DEF Rest1
<1>10. CASE /\ req' = [req EXCEPT ![r].pc = "failed", ![r].err = "timeout"]
            /\ conn' = [conn EXCEPT ![c] = closeLocked(@, "timeout")]
  <2>1. Rest1 /\ kk.rl = k.rl /\ isBroken(kk)
    BY <1>5, <1>10 DEF CloseReasons
  <2>. HIDE DEF Rest1
  <2>2. /\ \A s \in Reqs : s # r => req'[s] = req[s]
        /\ qq.conn = c /\ qq.pc = "failed" /\ qq.err = "timeout" /\ qq.respBody = q.respBody
        /\ qq.answer = q.answer /\ qq.writeErrCh = q.writeErrCh
    BY <1>2, <1>10 DEF ReqType
  <2>. QED  BY <1>1, <1>2, <2>1, <2>2 DEF Rest1
<1>11. CASE conn' = [conn EXCEPT ![c] = cancelRequest(@)] /\ UNCHANGED req
  <2>. DEFINE kj == cancelRequest(k)
              x == IF k.closed = "no" THEN "canceled" ELSE k.closed
  <2>1. kj \in ConnType /\ isBroken(kj) /\ kj = [k EXCEPT !.closed = x, !.canceled = TRUE]
    BY <1>2 DEF ConnType, cancelRequest, closeLocked, isBroken, Closings, CloseReasons
  <2>2. conn' = [conn EXCEPT ![c] = kj]
    BY <1>11
  <2>. HIDE DEF kj, x
  <2>3. Rest1 /\ kk.rl = k.rl
    BY <1>4, <2>1, <2>2
  <2>. QED  BY <1>1, <1>2, <1>11, <2>3
<1>. HIDE DEF Rest1
<1>. QED  BY <1>6, <1>7, <1>8, <1>9, <1>10, <1>11 DEF roundTripSelect

\* The caller waits on, leaves, or takes its response.
LEMMA SelectWire ==
  ASSUME Inv1, WireInv, NEW r \in Reqs, roundTripSelect(r), Calm PROVE WireInv'
<1>. DEFINE c == req[r].conn
            k == conn[c]
            kk == conn'[c]
            q == req[r]
            qq == req'[r]
<1>1. /\ c \in Conns /\ q.pc = "select" /\ OnlyAt(c) /\ net' = net /\ handled' = handled
      /\ \A s \in Reqs : s # r => req'[s] = req[s]
      /\ SameWriter(k, kk)
      /\ kk.reqch = k.reqch /\ kk.rc = k.rc /\ kk.resp = k.resp /\ kk.alive = k.alive
      /\ kk.waitForBodyRead = k.waitForBodyRead /\ kk.idle = k.idle
  BY SelectDoes
<1>2. \/ kk.rl = k.rl /\ qq.respBody = q.respBody
      \/ kk.rl = "exit" /\ qq.respBody = q.respBody
      \/ /\ k.rl = "deliver" /\ k.rc = r /\ k.resp # ErrResp
         /\ kk.rl = IF k.resp.body THEN "bodyWait" ELSE IF k.alive THEN "peek" ELSE "exit"
         /\ qq.pc = "done" /\ qq.respBody = IF k.resp.body THEN "open" ELSE "none"
  BY SelectDoes
<1>3. Latest(kk) = Latest(k) /\ kk.wrote = k.wrote
  BY <1>1, WriterLatest
<1>4. q.respBody \notin {"open", "failed"}
  BY <1>1 DEF WireInv, Using
<1>5. /\ k \in ConnType /\ Good(k) /\ net[c] \in NetType /\ Turn(k, net[c]) /\ Own(handled, k)
      /\ Wire(handled, Latest(k), k.wrote, net[c])
  BY <1>1, AtConn DEF WireInv, WireAt
<1>6. ASSUME qq.respBody \notin {"open", "failed"} PROVE Users
  BY <1>1, <1>6 DEF Users
<1>. HIDE DEF c, k, kk, q, qq
<1>7. CASE (kk.rl = k.rl \/ kk.rl = "exit") /\ qq.respBody \notin {"open", "failed"}
  <2>1. SameReader(k, kk) \/ EndsReading(k, kk)
    BY <1>1, <1>7 DEF SameReader, EndsReading, Ending
  <2>. QED  BY <1>1, <1>3, <1>6, <1>7, <2>1, PassiveStep DEF k, kk
<1>8. CASE /\ k.rl = "deliver" /\ k.rc = r /\ k.resp # ErrResp /\ ~k.resp.body /\ k.alive
           /\ kk.rl = "peek" /\ qq.respBody = "none"
  <2>1. Turn(kk, net[c])
    BY <1>1, <1>3, <1>5, <1>8 DEF Turn, Resting, Finishing, Ending
  <2>2. Own(handled, kk)
    BY <1>8 DEF Own, Finishing
  <2>3. Keeps(k, kk)
    BY <1>8 DEF Keeps, Ending
  <2>4. Users
    BY <1>6, <1>8
  <2>. QED  BY <1>1, <1>3, <2>1, <2>2, <2>3, <2>4, ReaderStep DEF k, kk
<1>9. CASE /\ k.rl = "deliver" /\ k.rc = r /\ k.resp # ErrResp /\ k.resp.body
           /\ kk.rl = "bodyWait" /\ qq.pc = "done" /\ qq.respBody = "open"
  <2>1. ~Recycled(k) /\ ~Resting(k)
    BY <1>9 DEF Recycled, Resting, Ending
  <2>2. ~k.idle /\ k.reqch = NoReq
    BY <1>5, <2>1 DEF Good, OneUse
  <2>3. /\ Latest(k) = k.rc /\ Answered(net[c]) /\ BodyNext(net[c]) /\ k.waitForBodyRead = "none"
        /\ k.wrote \/ net[c].fin # "no"
    BY <1>5, <1>9, <2>1 DEF Turn, Ending
  <2>4. Turn(kk, net[c])
    BY <1>1, <1>3, <1>9, <2>2, <2>3 DEF Turn, Finishing, Ending
  <2>5. Own(handled, kk)
    BY <1>1, <1>5, <1>9 DEF Own
  <2>6. WireAt(handled', kk, net'[c])
    BY <1>1, <1>3, <1>5, <2>4, <2>5 DEF WireAt
  <2>7. ASSUME NEW s \in Reqs, req'[s].respBody \in {"open", "failed"} PROVE Using(s)'
    <3>0. req'[s].conn = req[s].conn /\ \A d \in Conns : \A t \in Reqs : Pre(d, t)' => Pre(d, t)
      BY DEF Calm, Pre
    <3>1. CASE s = r
      <4>1. \A t \in Reqs : ~(req'[t].conn = c /\ req'[t].pc \in {"enter", "send"})
        <5>1. \A t \in Reqs : ~Pre(c, t)
          BY <1>1, <2>1 DEF Inv1, LaneInv, Claim, Fit, k
        <5>. QED  BY <1>1, <5>1 DEF Calm, Pre
      <4>2. Held(kk, r, "open")
        BY <1>1, <1>9, <2>2, <2>3 DEF Held
      <4>3. req'[s].conn = c /\ req'[s].pc = "done" /\ req'[s].respBody = "open"
        BY <1>9, <3>0, <3>1 DEF c, qq
      <4>4. Unclaimed(req[s].conn)'
        BY <4>1, <4>3 DEF Unclaimed, Pre
      <4>. QED  BY <3>1, <4>2, <4>3, <4>4 DEF Using, Held, kk
    <3>2. CASE s # r
      <4>1. req'[s] = req[s]
        BY <1>1, <3>2
      <4>2. req[s].pc = "done" /\ Unclaimed(req[s].conn) /\ Held(conn[req[s].conn], s, req[s].respBody)
        BY <2>7, <4>1 DEF WireInv, Using
      <4>3. req[s].conn # c
        BY <1>9, <4>2 DEF Held, Ending, k
      <4>4. req[s].conn \in Conns
        BY <2>7, <4>1, AtReq DEF Placed
      <4>5. conn'[req[s].conn] = conn[req[s].conn]
        BY <1>1, <4>3, <4>4 DEF OnlyAt
      <4>6. Unclaimed(req[s].conn)'
        BY <3>0, <4>2, <4>4 DEF Unclaimed
      <4>. QED  BY <4>1, <4>2, <4>5, <4>6 DEF Using, Held
    <3>. QED  BY <3>1, <3>2
  <2>8. \A s \in Reqs : Using(s)'
    BY <2>7 DEF Using
  <2>9. Grows /\ ~Fit(k)
    BY <1>1, <2>1 DEF Grows, Inv1, TypeOK, Fit
  <2>. QED  BY <1>1, <2>6, <2>8, <2>9, WireStep DEF k, kk
<1>10. k.rl = "deliver" /\ k.resp # ErrResp => k.resp.body \in BOOLEAN
  BY <1>5, MessageFacts DEF Good, Reading
<1>11. k.alive \in BOOLEAN
  BY <1>5 DEF ConnType
<1>. QED  BY <1>2, <1>4, <1>7, <1>8, <1>9, <1>10, <1>11

-----------------------------------------------------------------------------
(* ... under the steps of the write loop.                                  *)

\* Writing changes only what is on its way to the server.
LEMMA SentDoes ==
  ASSUME NEW n \in NetType, NEW s
  PROVE  LET nn == Sent(n, s) IN
         /\ nn.down = n.down /\ nn.fin = n.fin /\ nn.owed = n.owed
         /\ nn.up = IF n.fin = "no" THEN n.up \o s ELSE n.up
BY DEF Sent, NetType

\* The head of a request of which nothing was written.
LEMMA HeadWire ==
  ASSUME NEW h, NEW r \in Reqs, NEW n \in NetType, Wire(h, r, FALSE, n)
  PROVE  Wire(h, r, TRUE, Sent(n, <<Head1(r)>>))
<1>. DEFINE nn == Sent(n, <<Head1(r)>>)
            d == n.up
            e == nn.up
<1>1. /\ nn.down = n.down /\ nn.fin = n.fin /\ nn.owed = n.owed
      /\ n.fin = "no" => e = d \o <<Head1(r)>>
  BY SentDoes
<1>2. InOrder(nn.down) /\ Belongs(h, r, FALSE, n) /\ Serving(r, FALSE, n)
  BY <1>1 DEF Wire
<1>3. Belongs(h, r, TRUE, nn)
  BY <1>1, <1>2 DEF Belongs
<1>4. Serving(r, TRUE, nn)
  <2>. SUFFICES ASSUME n.fin = "no" PROVE Serving(r, TRUE, nn)
    BY <1>1 DEF Serving
  <2>1. n.owed = <<>> /\ ~HasHead(n) /\ \A i \in 1 .. Len(n.down) : n.down[i] # Gone
    BY <1>2 DEF Serving
  <2>2. n.down = <<>>
    <3>1. n.down \in Seq(Message) /\ Len(n.down) \in Nat /\ (n.down # <<>> => Len(n.down) > 0)
      BY TailFacts DEF NetType
    <3>2. ASSUME n.down # <<>> PROVE FALSE
      <4>1. 1 \in 1 .. Len(n.down)
        BY <3>1, <3>2
      <4>. QED  BY <1>2, <2>1, <4>1 DEF Belongs
    <3>. QED  BY <3>2
  <2>3. /\ d \in Seq(Item) /\ Head1(r) \in Item /\ Head1(r).of = r
    BY ItemFacts DEF NetType, Head1
  <2>. HIDE DEF d, e
  <2>4. /\ Len(e) = Len(d) + 1 /\ e[Len(d) + 1] = Head1(r) /\ Len(d) \in Nat
        /\ \A i \in 1 .. Len(d) : e[i] = d[i]
    BY <1>1, <2>3, AddFacts
  <2>5. \A i \in 1 .. Len(e) : e[i].part = "head" => i = Len(d) + 1 /\ e[i].of = r
    <3>1. \A i \in 1 .. Len(d) : d[i].part # "head"
      BY <2>1 DEF HasHead, d
    <3>. QED  BY <2>3, <2>4, <3>1
  <2>6. Ended(<<>>)
    BY DEF Ended
  <2>7. \A i, j \in 1 .. Len(e) : e[i].part = "head" /\ e[j].part = "head" => i = j /\ e[i].of = r
    BY <2>5
  <2>8. \A i \in 1 .. Len(nn.down) : nn.down[i] # Gone
    BY <1>1, <2>1
  <2>. QED  BY <1>1, <2>1, <2>2, <2>6, <2>7, <2>8 DEF Serving, e
<1>. QED  BY <1>2, <1>3, <1>4 DEF Wire

\* The body of a request, or nothing.
LEMMA BodyWire ==
  ASSUME NEW h, NEW r \in Reqs, NEW w, NEW n \in NetType, Wire(h, r, w, n),
         NEW s \in {<<>>, <<Body1(r)>>}
  PROVE  Wire(h, r, w, Sent(n, s)) /\ (Answered(Sent(n, s)) <=> Answered(n))
<1>. DEFINE nn == Sent(n, s)
            d == n.up
            e == nn.up
<1>1. /\ nn.down = n.down /\ nn.fin = n.fin /\ nn.owed = n.owed
      /\ n.fin = "no" => e = d \o s
  BY SentDoes
<1>2. InOrder(nn.down) /\ Belongs(h, r, w, n) /\ Serving(r, w, n)
  BY <1>1 DEF Wire
<1>3. Belongs(h, r, w, nn)
  BY <1>1, <1>2 DEF Belongs
<1>4. ASSUME n.fin = "no"
      PROVE  /\ Len(d) \in Nat
             /\ \A i \in 1 .. Len(e) : e[i].part = "head" => i \in 1 .. Len(d) /\ e[i] = d[i]
             /\ \A i \in 1 .. Len(d) : i \in 1 .. Len(e) /\ e[i] = d[i]
  <2>1. /\ d \in Seq(Item) /\ Body1(r) \in Item /\ Body1(r).part = "body"
    BY ItemFacts DEF NetType, Body1
  <2>. HIDE DEF d, e
  <2>2. CASE s = <<>>
    <3>1. e = d /\ Len(d) \in Nat
      BY <1>1, <1>4, <2>1, <2>2
    <3>. QED  BY <3>1
  <2>3. CASE s = <<Body1(r)>>
    <3>1. /\ Len(e) = Len(d) + 1 /\ e[Len(d) + 1] = Body1(r) /\ Len(d) \in Nat
          /\ \A i \in 1 .. Len(d) : e[i] = d[i]
      BY <1>1, <1>4, <2>1, <2>3, AddFacts
    <3>. QED  BY <2>1, <3>1
  <2>. QED  BY <2>2, <2>3
<1>5. n.fin = "no" => (HasHead(nn) <=> HasHead(n))
  BY <1>4 DEF HasHead
<1>6. Serving(r, w, nn)
  <2>. SUFFICES ASSUME n.fin = "no" PROVE Serving(r, w, nn)
    BY <1>1 DEF Serving
  <2>1. \A i, j \in 1 .. Len(e) : e[i].part = "head" /\ e[j].part = "head" => i = j /\ e[i].of = r
    <3>1. \A i, j \in 1 .. Len(d) : d[i].part = "head" /\ d[j].part = "head" => i = j /\ d[i].of = r
      BY <1>2 DEF Serving
    <3>. HIDE DEF d, e
    <3>. QED  BY <1>4, <3>1
  <2>2. HasHead(nn) => w /\ n.owed = <<>> /\ n.down = <<>>
    BY <1>2, <1>5 DEF Serving
  <2>3. /\ n.owed # <<>> => n.owed = <<r>> /\ w /\ \A i \in 1 .. Len(n.down) : n.down[i].code \in HintCodes
        /\ n.owed = <<>> => Ended(n.down)
        /\ \A i \in 1 .. Len(n.down) : n.down[i] # Gone
    BY <1>2 DEF Serving
  <2>. HIDE DEF nn
  <2>. QED  BY <1>1, <2>1, <2>2, <2>3 DEF Serving
<1>7. Answered(nn) <=> Answered(n)
  BY <1>1, <1>5 DEF Answered
<1>. QED  BY <1>2, <1>3, <1>6, <1>7 DEF Wire

\* What a write loop may write in one step.
Writes(k, n, kk, nn) ==
    \/ /\ k.wrote /\ kk.wrote
       /\ nn = Sent(n, <<>>) \/ nn = Sent(n, <<Body1(k.wr)>>)
    \/ /\ ~k.wrote /\ ~kk.wrote /\ nn = Sent(n, <<>>)
    \/ /\ ~k.wrote /\ kk.wrote
       /\ nn = Sent(n, <<Head1(k.wr)>>) \/ nn = Sent(n, <<Head1(k.wr)>> \o <<Body1(k.wr)>>)

\* ... keeps the wire in order.
LEMMA WritesWire ==
  ASSUME NEW h, NEW k \in ConnType, NEW n \in NetType, k.wr \in Reqs, NEW kk, NEW nn,
         kk.wrote \in BOOLEAN, Wire(h, k.wr, k.wrote, n), Writes(k, n, kk, nn)
  PROVE  /\ Wire(h, k.wr, kk.wrote, nn) /\ (k.wrote => kk.wrote)
         /\ nn.down = n.down /\ nn.fin = n.fin /\ nn.owed = n.owed
         /\ k.wrote \/ n.fin # "no" => (Answered(nn) <=> Answered(n))
<1>. DEFINE r == k.wr
<1>0. k.wrote \in BOOLEAN /\ \A s : LET x == Sent(n, s) IN x.down = n.down /\ x.fin = n.fin /\ x.owed = n.owed
  BY SentDoes DEF ConnType
<1>1. CASE k.wrote /\ kk.wrote /\ (nn = Sent(n, <<>>) \/ nn = Sent(n, <<Body1(k.wr)>>))
  <2>1. PICK s \in {<<>>, <<Body1(k.wr)>>} : nn = Sent(n, s)
    BY <1>1
  <2>2. Wire(h, k.wr, k.wrote, nn) /\ (Answered(nn) <=> Answered(n))
    BY <2>1, BodyWire
  <2>3. kk.wrote = k.wrote
    BY <1>0, <1>1
  <2>. QED  BY <1>0, <2>1, <2>2, <2>3
<1>2. CASE ~k.wrote /\ ~kk.wrote /\ nn = Sent(n, <<>>)
  BY <1>0, <1>2, BodyWire
<1>3. CASE ~k.wrote /\ kk.wrote /\ nn = Sent(n, <<Head1(k.wr)>>)
  <2>1. Wire(h, k.wr, FALSE, n)
    BY <1>0, <1>3
  <2>2. Wire(h, k.wr, TRUE, nn)
    BY <1>3, <2>1, HeadWire
  <2>. QED  BY <1>0, <1>3, <2>2 DEF Answered
<1>4. CASE ~k.wrote /\ kk.wrote /\ nn = Sent(n, <<Head1(k.wr)>> \o <<Body1(k.wr)>>)
  <2>. DEFINE nj == Sent(n, <<Head1(k.wr)>>)
  <2>1. Wire(h, k.wr, FALSE, n)
    BY <1>0, <1>4
  <2>2. Wire(h, k.wr, TRUE, nj) /\ nj \in NetType
    BY <2>1, HeadWire, SentFacts, ItemFacts
  <2>3. nn = Sent(nj, <<Body1(k.wr)>>)
    <3>1. n.up \in Seq(Item) /\ <<Head1(k.wr)>> \in Seq(Item) /\ <<Body1(k.wr)>> \in Seq(Item)
      BY ItemFacts DEF NetType
    <3>2. (n.up \o <<Head1(k.wr)>>) \o <<Body1(k.wr)>> = n.up \o (<<Head1(k.wr)>> \o <<Body1(k.wr)>>)
      BY <3>1, ConcatAssociative
    <3>. QED  BY <1>4, <3>2 DEF Sent, NetType
  <2>. HIDE DEF nj
  <2>4. Wire(h, k.wr, TRUE, nn)
    BY <2>2, <2>3, BodyWire
  <2>. QED  BY <1>0, <1>4, <2>4 DEF Answered
<1>. QED  BY <1>1, <1>2, <1>3, <1>4 DEF Writes

\* The step is one of the write loop of c, and the callers stay where they are.
WriterAt(c) ==
    /\ OnlyAt(c) /\ handled' = handled /\ env' = env
    /\ SameReader(conn[c], conn'[c]) /\ conn'[c].idle = conn[c].idle
    /\ conn'[c].open = conn[c].open /\ Latest(conn'[c]) = Latest(conn[c])
    /\ isBroken(conn[c]) => isBroken(conn'[c])
    /\ \A s \in Reqs :
          /\ req'[s].pc = req[s].pc /\ req'[s].conn = req[s].conn /\ req'[s].err = req[s].err
          /\ req'[s].answer = req[s].answer /\ req'[s].respBody = req[s].respBody

\* What the steps change that write nothing.
LEMMA NoWriteDoes ==
  ASSUME Inv1, NEW c \in Conns,
         writeLoopSelect(c) \/ waitForContinue(c) \/ writeLoopReport(c) \/ writeLoopClose(c)
  PROVE  LET k == conn[c]
             kk == conn'[c]
         IN
         /\ WriterAt(c) /\ net' = net /\ kk.wrote = k.wrote
         /\ \/ /\ k.wl = "idle" /\ kk.werr = k.werr /\ req' = req
               /\ \/ /\ k.writech # NoReq /\ kk.writech = NoReq /\ kk.wr = k.writech
                     /\ kk.wl \in {"head", "body"}
                  \/ /\ isBroken(k) /\ kk.wl = "done"
                     /\ kk.writech = k.writech /\ kk.wr = k.wr
            \/ /\ k.wl = "wait" /\ kk.wl \in {"body", "report"}
               /\ kk.writech = k.writech /\ kk.wr = k.wr
               /\ \A s \in Reqs : req'[s].writeErrCh = req[s].writeErrCh
            \/ /\ k.wl = "report" /\ kk.werr = k.werr
               /\ kk.wl = IF k.werr = "nil" THEN "idle" ELSE "close"
               /\ kk.writech = k.writech /\ kk.wr = k.wr
               /\ \A s \in Reqs : \/ req'[s].writeErrCh = req[s].writeErrCh
                                  \/ /\ s = k.wr /\ req[s].conn = c /\ req[s].pc = "select"
                                     /\ req'[s].writeErrCh = k.werr
            \/ /\ k.wl = "close" /\ kk.wl = "done" /\ kk.werr = k.werr
               /\ kk.writech = k.writech /\ kk.wr = k.wr /\ req' = req
<1>. DEFINE k == conn[c]
            kk == conn'[c]
<1>1. k \in ConnType /\ Good(k) /\ conn \in [Conns -> ConnType] /\ req \in [Reqs -> ReqType]
  BY AtConn DEF Inv1, TypeOK
<1>2. OnlyAt(c) /\ handled' = handled /\ env' = env /\ net' = net
  BY <1>1 DEF writeLoopSelect, waitForContinue, writeLoopReport, writeLoopClose, OnlyAt
<1>3. CASE writeLoopSelect(c)
  <2>0. k.wl = "idle" /\ req' = req
    BY <1>3 DEF writeLoopSelect
  <2>1. CASE /\ k.writech # NoReq
             /\ conn' = [conn EXCEPT ![c].wl = IF k.continueCh = "nil" THEN "body" ELSE "head",
                                     ![c].wr = k.writech, ![c].writech = NoReq]
    <3>. DEFINE x == IF k.continueCh = "nil" THEN "body" ELSE "head"
    <3>1. conn' = [conn EXCEPT ![c].wl = x, ![c].wr = k.writech, ![c].writech = NoReq] /\ x \in {"head", "body"}
      BY <2>1
    <3>. HIDE DEF x
    <3>2. /\ kk.writech = NoReq /\ kk.wr = k.writech /\ kk.wl = x /\ kk.werr = k.werr
          /\ kk.wrote = k.wrote /\ SameReader(k, kk) /\ kk.idle = k.idle
          /\ kk.open = k.open /\ kk.closed = k.closed
      BY <1>1, <3>1 DEF ConnType, SameReader
    <3>3. Latest(kk) = Latest(k)
      BY <2>1, <3>2 DEF Latest
    <3>. HIDE DEF kk
    <3>. QED  BY <1>2, <2>0, <2>1, <3>1, <3>2, <3>3 DEF WriterAt, isBroken, kk
  <2>2. CASE isBroken(k) /\ conn' = [conn EXCEPT ![c].wl = "done"]
    <3>2. /\ kk.writech = k.writech /\ kk.wr = k.wr /\ kk.wl = "done" /\ kk.werr = k.werr
          /\ kk.wrote = k.wrote /\ SameReader(k, kk) /\ kk.idle = k.idle
          /\ kk.open = k.open /\ kk.closed = k.closed
      BY <1>1, <2>2 DEF ConnType, SameReader
    <3>3. Latest(kk) = Latest(k)
      BY <3>2 DEF Latest
    <3>. HIDE DEF kk
    <3>. QED  BY <1>2, <2>0, <2>2, <3>2, <3>3 DEF WriterAt, isBroken, kk
  <2>. QED  BY <1>3, <2>1, <2>2 DEF writeLoopSelect
<1>4. CASE waitForContinue(c)
  <2>1. k.wl = "wait" /\ k.wr \in Reqs
    BY <1>1, <1>4 DEF waitForContinue, Good, WriteStages, ConnType, MaybeReq
  <2>2. /\ kk.writech = k.writech /\ kk.wr = k.wr /\ kk.wl \in {"body", "report"}
        /\ kk.wrote = k.wrote /\ SameReader(k, kk) /\ kk.idle = k.idle
        /\ kk.open = k.open /\ kk.closed = k.closed
    <3>1. CASE conn' = [conn EXCEPT ![c].wl = "body"]
      BY <1>1, <3>1 DEF ConnType, SameReader
    <3>2. CASE conn' = [conn EXCEPT ![c].wl = "report", ![c].werr = "nil"]
      BY <1>1, <3>2 DEF ConnType, SameReader
    <3>. QED  BY <1>4, <3>1, <3>2 DEF waitForContinue
  <2>3. \A s \in Reqs :
          /\ req'[s].pc = req[s].pc /\ req'[s].conn = req[s].conn /\ req'[s].err = req[s].err
          /\ req'[s].answer = req[s].answer /\ req'[s].respBody = req[s].respBody
          /\ req'[s].writeErrCh = req[s].writeErrCh
    <3>1. CASE req' = req
      BY <3>1
    <3>2. CASE req' = [req EXCEPT ![k.wr] = closeBody(@)]
      BY <1>1, <2>1, <3>2 DEF closeBody, ReqType
    <3>. QED  BY <1>4, <3>1, <3>2 DEF waitForContinue
  <2>4. Latest(kk) = Latest(k)
    BY <2>2 DEF Latest
  <2>. HIDE DEF kk
  <2>. QED  BY <1>2, <2>1, <2>2, <2>3, <2>4 DEF WriterAt, isBroken, kk
<1>5. CASE writeLoopReport(c)
  <2>. DEFINE x == IF k.werr = "nil" THEN "idle" ELSE "close"
              y == IF req[k.wr].conn = c /\ req[k.wr].pc = "select" THEN k.werr ELSE req[k.wr].writeErrCh
  <2>1. k.wl = "report" /\ k.wr \in Reqs
    BY <1>1, <1>5 DEF writeLoopReport, Good, WriteStages, ConnType, MaybeReq
  <2>2. /\ conn' = [conn EXCEPT ![c].writeErrCh = k.werr, ![c].wl = x]
        /\ req' = [req EXCEPT ![k.wr].writeErrCh = y]
    BY <1>5 DEF writeLoopReport
  <2>3. y = req[k.wr].writeErrCh \/ (req[k.wr].conn = c /\ req[k.wr].pc = "select" /\ y = k.werr)
    OBVIOUS
  <2>. HIDE DEF x, y
  <2>4. /\ kk.writech = k.writech /\ kk.wr = k.wr /\ kk.wl = x /\ kk.werr = k.werr
        /\ kk.wrote = k.wrote /\ SameReader(k, kk) /\ kk.idle = k.idle
        /\ kk.open = k.open /\ kk.closed = k.closed
    BY <1>1, <2>2 DEF ConnType, SameReader
  <2>5. \A s \in Reqs :
          /\ req'[s].pc = req[s].pc /\ req'[s].conn = req[s].conn /\ req'[s].err = req[s].err
          /\ req'[s].answer = req[s].answer /\ req'[s].respBody = req[s].respBody
          /\ req'[s].writeErrCh = IF s = k.wr THEN y ELSE req[s].writeErrCh
    BY <1>1, <2>1, <2>2 DEF ReqType
  <2>6. Latest(kk) = Latest(k)
    BY <2>4 DEF Latest
  <2>. HIDE DEF kk
  <2>. QED  BY <1>2, <2>1, <2>3, <2>4, <2>5, <2>6 DEF WriterAt, isBroken, kk, x
<1>6. CASE writeLoopClose(c)
  <2>. DEFINE kj == closeLocked(k, "write")
  <2>1. kj \in ConnType /\ isBroken(kj) /\ kj = [k EXCEPT !.closed = IF @ = "no" THEN "write" ELSE @]
    BY <1>1, CloseFacts DEF CloseReasons
  <2>2. kk = [kj EXCEPT !.wl = "done"] /\ k.wl = "close" /\ req' = req
    BY <1>1, <1>6 DEF writeLoopClose
  <2>3. /\ kj.writech = k.writech /\ kj.wr = k.wr /\ kj.werr = k.werr
        /\ kj.wrote = k.wrote /\ SameReader(k, kj) /\ kj.idle = k.idle /\ kj.open = k.open
    BY <1>1, <2>1 DEF ConnType, SameReader
  <2>. HIDE DEF kj
  <2>4. /\ kk.writech = k.writech /\ kk.wr = k.wr /\ kk.wl = "done" /\ kk.werr = k.werr
        /\ kk.wrote = k.wrote /\ SameReader(k, kk) /\ kk.idle = k.idle
        /\ kk.open = k.open /\ isBroken(kk)
    BY <2>1, <2>2, <2>3 DEF ConnType, SameReader, isBroken
  <2>5. Latest(kk) = Latest(k)
    BY <2>4 DEF Latest
  <2>. HIDE DEF kk
  <2>. QED  BY <1>2, <2>2, <2>4, <2>5 DEF WriterAt, kk
<1>. QED  BY <1>3, <1>4, <1>5, <1>6

\* What the steps change that write.
LEMMA WriteDoes ==
  ASSUME Inv2, NEW c \in Conns, writeRequestHead(c) \/ writeRequestBody(c) \/ writeRequestFails(c)
  PROVE  LET k == conn[c]
             kk == conn'[c]
         IN
         /\ WriterAt(c) /\ k.wl \in {"head", "body"} /\ kk.wl \in {"wait", "report"} /\ k.wr \in Reqs
         /\ k.writech = NoReq /\ kk.writech = NoReq /\ kk.wr = k.wr
         /\ kk.wrote \in BOOLEAN /\ Writes(k, net[c], kk, net'[c])
         /\ \A s \in Reqs : req'[s].writeErrCh = req[s].writeErrCh
<1>. DEFINE k == conn[c]
            kk == conn'[c]
            n == net[c]
            nn == net'[c]
<1>1. /\ k \in ConnType /\ conn \in [Conns -> ConnType] /\ req \in [Reqs -> ReqType]
      /\ net \in [Conns -> NetType] /\ k.wl \in {"head", "body"}
  BY AtConn DEF Inv2, Inv1, TypeOK, writeRequestHead, writeRequestBody, writeRequestFails
<1>2. k.wr \in Reqs /\ k.writech = NoReq /\ Unwritten(k, n) /\ k.wrote \in BOOLEAN
  BY <1>1, AtWork DEF ConnType
<1>3. OnlyAt(c) /\ handled' = handled /\ env' = env
  BY <1>1 DEF writeRequestHead, writeRequestBody, writeRequestFails, OnlyAt
<1>4. ASSUME NEW x \in {"wait", "report"}, NEW y \in {"nil", "err"}, NEW z \in BOOLEAN,
             kk = [k EXCEPT !.wl = x, !.werr = y, !.wrote = z]
      PROVE  /\ kk.wl = x /\ kk.writech = NoReq /\ kk.wr = k.wr /\ kk.wrote = z
             /\ SameReader(k, kk) /\ kk.idle = k.idle /\ kk.open = k.open
             /\ Latest(kk) = Latest(k) /\ kk.closed = k.closed
  <2>1. /\ kk.wl = x /\ kk.writech = k.writech /\ kk.wr = k.wr /\ kk.wrote = z
        /\ SameReader(k, kk) /\ kk.idle = k.idle /\ kk.open = k.open /\ kk.closed = k.closed
    BY <1>1, <1>4 DEF ConnType, SameReader
  <2>. QED  BY <1>2, <2>1 DEF Latest
<1>. DEFINE Same ==
              \A s \in Reqs :
                /\ req'[s].pc = req[s].pc /\ req'[s].conn = req[s].conn /\ req'[s].err = req[s].err
                /\ req'[s].answer = req[s].answer /\ req'[s].respBody = req[s].respBody
                /\ req'[s].writeErrCh = req[s].writeErrCh
<1>5. CASE writeRequestHead(c)
  <2>1. kk = [k EXCEPT !.wl = "wait", !.werr = k.werr, !.wrote = TRUE]
    BY <1>1, <1>5 DEF writeRequestHead, ConnType
  <2>2. nn = Sent(n, <<Head1(k.wr)>>) /\ req' = req /\ k.wl = "head"
    BY <1>1, <1>5 DEF writeRequestHead
  <2>3. ~k.wrote
    BY <1>2, <2>2 DEF Unwritten
  <2>4. /\ kk.wl = "wait" /\ kk.writech = NoReq /\ kk.wr = k.wr /\ kk.wrote = TRUE
        /\ SameReader(k, kk) /\ kk.idle = k.idle /\ kk.open = k.open
        /\ Latest(kk) = Latest(k) /\ kk.closed = k.closed
    BY <1>1, <1>4, <2>1 DEF ConnType
  <2>. HIDE DEF kk, nn
  <2>. QED  BY <1>1, <1>2, <1>3, <2>2, <2>3, <2>4 DEF WriterAt, Writes, isBroken, kk, nn
<1>6. CASE writeRequestBody(c)
  <2>. DEFINE head == IF k.wrote THEN <<>> ELSE <<Head1(k.wr)>>
              t == IF hasBody(k.wr) THEN head \o <<Body1(k.wr)>> ELSE head
  <2>1. kk = [k EXCEPT !.wl = "report", !.werr = "nil", !.wrote = TRUE]
    BY <1>1, <1>6 DEF writeRequestBody
  <2>2. nn = Sent(n, t)
    BY <1>1, <1>6 DEF writeRequestBody
  <2>3. Same
    BY <1>1, <1>2, <1>6 DEF writeRequestBody, ReqType
  <2>4. IF k.wrote THEN t \in {<<>>, <<Body1(k.wr)>>}
        ELSE t \in {<<Head1(k.wr)>>, <<Head1(k.wr)>> \o <<Body1(k.wr)>>}
    <3>1. <<>> \o <<Body1(k.wr)>> = <<Body1(k.wr)>>
      OBVIOUS
    <3>. QED  BY <3>1
  <2>. HIDE DEF t
  <2>5. /\ kk.wl = "report" /\ kk.writech = NoReq /\ kk.wr = k.wr /\ kk.wrote = TRUE
        /\ SameReader(k, kk) /\ kk.idle = k.idle /\ kk.open = k.open
        /\ Latest(kk) = Latest(k) /\ kk.closed = k.closed
    BY <1>4, <2>1
  <2>. HIDE DEF kk, nn
  <2>. QED  BY <1>1, <1>2, <1>3, <2>2, <2>3, <2>4, <2>5 DEF WriterAt, Writes, isBroken, kk, nn
<1>7. CASE writeRequestFails(c)
  <2>1. PICK cause \in {"invalid", "net", "bodyRead"}, out \in BOOLEAN :
          /\ k.wrote => ~out
          /\ conn' = [conn EXCEPT ![c].wl = "report", ![c].werr = "err", ![c].wrote = @ \/ out]
          /\ net' = [net EXCEPT ![c] = Sent(@, IF out THEN <<Head1(k.wr)>> ELSE <<>>)]
          /\ req' = [req EXCEPT ![k.wr].didRead = @ \/ k.wl = "body", ![k.wr].didClose = TRUE,
                                ![k.wr].setError = @ \/ cause = "bodyRead"]
    BY <1>7 DEF writeRequestFails
  <2>. DEFINE z == k.wrote \/ out
  <2>2. kk = [k EXCEPT !.wl = "report", !.werr = "err", !.wrote = z] /\ z \in BOOLEAN
    BY <1>1, <2>1
  <2>3. IF out THEN nn = Sent(n, <<Head1(k.wr)>>) ELSE nn = Sent(n, <<>>)
    BY <1>1, <2>1
  <2>4. Same
    <3>. SUFFICES ASSUME NEW s \in Reqs
                  PROVE  /\ req'[s].pc = req[s].pc /\ req'[s].conn = req[s].conn /\ req'[s].err = req[s].err
                         /\ req'[s].answer = req[s].answer /\ req'[s].respBody = req[s].respBody
                         /\ req'[s].writeErrCh = req[s].writeErrCh
      OBVIOUS
    <3>1. CASE s # k.wr
      BY <1>1, <2>1, <3>1
    <3>2. CASE s = k.wr
      <4>1. req[s] \in ReqType
        BY <1>1
      <4>2. \E a, b, d : req'[s] = [req[s] EXCEPT !.didRead = a, !.didClose = b, !.setError = d]
        BY <1>1, <2>1, <3>2
      <4>. QED  BY <4>1, <4>2 DEF ReqType
    <3>. QED  BY <3>1, <3>2
  <2>. HIDE DEF z
  <2>5. /\ kk.wl = "report" /\ kk.writech = NoReq /\ kk.wr = k.wr /\ kk.wrote = z
        /\ SameReader(k, kk) /\ kk.idle = k.idle /\ kk.open = k.open
        /\ Latest(kk) = Latest(k) /\ kk.closed = k.closed
    BY <1>4, <2>2
  <2>. HIDE DEF kk, nn
  <2>. QED  BY <1>1, <1>2, <1>3, <2>1, <2>2, <2>3, <2>4, <2>5 DEF WriterAt, Writes, isBroken, z, kk, nn
<1>. QED  BY <1>5, <1>6, <1>7

\* The write loop writes, and goes its way.
LEMMA WriterWire ==
  ASSUME Inv2, WireInv, NEW c \in Conns, writeLoop(c), Calm PROVE WireInv'
<1>. DEFINE k == conn[c]
            kk == conn'[c]
            n == net[c]
            nn == net'[c]
<1>0. Inv1
  BY DEF Inv2
<1>1. CASE writeLoopSelect(c) \/ waitForContinue(c) \/ writeLoopReport(c) \/ writeLoopClose(c)
  <2>1. WriterAt(c) /\ net' = net /\ kk.wrote = k.wrote
    BY <1>0, <1>1, NoWriteDoes
  <2>2. Users
    BY <2>1 DEF WriterAt, Users
  <2>. QED  BY <1>0, <2>1, <2>2, PassiveStep DEF WriterAt
<1>2. CASE writeRequestHead(c) \/ writeRequestBody(c) \/ writeRequestFails(c)
  <2>1. /\ WriterAt(c) /\ k.wl \in {"head", "body"} /\ k.wr \in Reqs /\ k.writech = NoReq
        /\ kk.wrote \in BOOLEAN /\ Writes(k, n, kk, nn)
    BY <1>2, WriteDoes
  <2>2. /\ k \in ConnType /\ n \in NetType /\ ~Fit(k) /\ ~k.idle
    BY <2>1, AtWork
  <2>3. Latest(k) = k.wr
    BY <2>1 DEF Latest
  <2>4. Wire(handled, k.wr, k.wrote, n) /\ Turn(k, n) /\ Own(handled, k)
    BY <2>3 DEF WireInv, WireAt
  <2>. HIDE DEF k, kk, n, nn
  <2>5. /\ Wire(handled, k.wr, kk.wrote, nn) /\ (k.wrote => kk.wrote)
        /\ nn.down = n.down /\ nn.fin = n.fin /\ nn.owed = n.owed
        /\ k.wrote \/ n.fin # "no" => (Answered(nn) <=> Answered(n))
    BY <2>1, <2>2, <2>4, WritesWire
  <2>6. SameReader(k, kk) /\ Latest(kk) = k.wr /\ OnlyAt(c) /\ handled' = handled /\ ~kk.idle
    BY <2>1, <2>2, <2>3 DEF WriterAt, k, kk
  <2>7. Recycled(kk) = Recycled(k) /\ Resting(kk) = Resting(k)
    BY <2>6 DEF SameReader, Recycled, Resting
  <2>8. Good(k)
    BY <1>0, AtConn DEF k
  <2>9. k.rl \in Finishing \cup {"bodyWait"} => ~Recycled(k) /\ k.resp # ErrResp
    BY <2>8, MessageFacts DEF Good, Reading, Recycled, Finishing
  <2>10. Turn(kk, nn)
    <3>1. k.rl \in Finishing \cup {"bodyWait"} => Answered(nn)
      BY <2>4, <2>5, <2>9 DEF Turn
    <3>2. k.rl = "deliver" /\ ~Recycled(k) /\ k.resp # ErrResp => Answered(nn)
      BY <2>4, <2>5 DEF Turn
    <3>3. BodyNext(nn) = BodyNext(n)
      BY <2>5 DEF BodyNext
    <3>. QED  BY <2>2, <2>3, <2>4, <2>5, <2>6, <2>7, <3>1, <3>2, <3>3 DEF Turn, SameReader
  <2>11. Own(handled, kk)
    BY <2>4, <2>6 DEF Own, SameReader
  <2>12. WireAt(handled', kk, nn)
    BY <2>5, <2>6, <2>10, <2>11 DEF WireAt
  <2>13. Users /\ Keeps(k, kk)
    BY <2>1, <2>6 DEF WriterAt, Users, Keeps, SameReader
  <2>14. \A r \in Reqs : Using(r)'
    BY <1>0, <2>6, <2>13, UsingStep DEF WireInv, k, kk
  <2>15. Grows
    BY <1>0, <2>6 DEF Grows, Inv1, TypeOK
  <2>. QED  BY <1>0, <2>2, <2>6, <2>12, <2>14, <2>15, WireStep DEF k, kk, n, nn
<1>. QED  BY <1>1, <1>2 DEF writeLoop

-----------------------------------------------------------------------------
(* What the steps of the server do.                                        *)

\* What the server does to a connection it still reads from.
ServerMoves(n, nn) ==
    /\ n.fin = "no"
    /\ Answered(n) => Answered(nn)
    /\ Answered(n) /\ Quiet(n.down) => Quiet(nn.down)
    /\ n.down # <<>> => IF nn.down = <<>> THEN nn.fin # "no" ELSE nn.down[1] = n.down[1]
    /\ n.down = <<>> /\ nn.down # <<>> => nn.down[1].code # "body"

\* ... leaves the read loop where it can go on.
LEMMA ServerTurn ==
  ASSUME NEW k, NEW n, NEW nn, ServerMoves(n, nn), Turn(k, n) PROVE Turn(k, nn)
<1>1. BodyNext(n) => BodyNext(nn)
  BY DEF BodyNext, ServerMoves
<1>2. n.down = <<>> \/ n.down[1].code # "body" => nn.down = <<>> \/ nn.down[1].code # "body"
  BY DEF ServerMoves
<1>3. k.rl \in Finishing => k.rl \in Finishing \cup {"bodyWait"}
  OBVIOUS
<1>4. /\ k.rl \in Finishing \/ k.idle => Quiet(nn.down)
      /\ k.rl \in Finishing \cup {"bodyWait"} \/ k.idle => Answered(nn)
      /\ k.rl = "deliver" /\ ~Recycled(k) /\ k.resp # ErrResp => Answered(nn)
      /\ k.rl = "bodyWait" /\ k.waitForBodyRead = "EOF" => Quiet(nn.down)
  BY <1>3 DEF Turn, ServerMoves
<1>5. k.rl \in Finishing \cup {"bodyWait", "deliver"} /\ ~Recycled(k) /\ k.resp # ErrResp => k.wrote
  BY DEF Turn, ServerMoves
<1>. QED  BY <1>1, <1>2, <1>4, <1>5 DEF Turn

\* A step of the server.
LEMMA ServerWireStep ==
  ASSUME Inv1, WireInv, NEW c \in Conns, conn' = conn, req' = req,
         \A d \in Conns : d # c => net'[d] = net[d], Grows,
         ServerMoves(net[c], net'[c]),
         Wire(handled', Latest(conn[c]), conn[c].wrote, net'[c])
  PROVE  WireInv'
<1>1. Calm /\ Users /\ OnlyAt(c)
  BY CalmReq DEF Users, OnlyAt
<1>2. Turn(conn[c], net'[c])
  BY ServerTurn DEF WireInv, WireAt
<1>3. Own(handled', conn[c])
  <2>1. WireAt(handled', conn[c], net[c])
    BY WireGrows DEF WireInv
  <2>. QED  BY <2>1 DEF WireAt
<1>4. WireAt(handled', conn'[c], net'[c])
  BY <1>2, <1>3 DEF WireAt
<1>5. Keeps(conn[c], conn'[c])
  BY DEF Keeps
<1>6. \A r \in Reqs : Using(r)'
  BY <1>1, <1>5, UsingStep DEF WireInv
<1>. QED  BY <1>1, <1>4, <1>6, WireStep DEF ServerMoves

\* The messages in d are those of l, on which the server has acted.
Labelled(h, l, w, d) ==
    /\ \A i \in 1 .. Len(d) : d[i] # Gone => d[i].of = l /\ w
    /\ (\E i \in 1 .. Len(d) : d[i] # Gone) => h[l] > 0

\* There is no 408 among them.
Clear(d) == \A i \in 1 .. Len(d) : d[i] # Gone

\* One more message.
LEMMA AddMessage ==
  ASSUME NEW d \in Seq(Message), InOrder(d), NEW m \in Message,
         d # <<>> => DownFollows(d[Len(d)], m)
  PROVE  LET e == d \o <<m>> IN
         /\ e \in Seq(Message) /\ e # <<>> /\ e[Len(e)] = m /\ InOrder(e)
         /\ d # <<>> => e[1] = d[1]
         /\ d = <<>> => e[1] = m
         /\ \A h, l, w : Labelled(h, l, w, d) /\ (m # Gone => m.of = l /\ w /\ h[l] > 0)
              => Labelled(h, l, w, e)
         /\ Clear(d) /\ m # Gone => Clear(e)
<1>. DEFINE e == d \o <<m>>
<1>1. /\ e \in Seq(Message) /\ e # <<>> /\ Len(e) = Len(d) + 1 /\ e[Len(d) + 1] = m
      /\ \A i \in 1 .. Len(d) : e[i] = d[i]
      /\ Len(d) \in Nat /\ (d = <<>> <=> Len(d) = 0)
  BY AddFacts
<1>. HIDE DEF e
<1>2. InOrder(e)
  <2>. SUFFICES ASSUME NEW i \in 1 .. Len(e) - 1 PROVE DownFollows(e[i], e[i + 1])
    BY DEF InOrder
  <2>1. CASE i = Len(d)
    <3>1. e[i] = d[Len(d)] /\ e[i + 1] = m /\ d # <<>>
      BY <1>1, <2>1
    <3>. QED  BY <3>1
  <2>2. CASE i # Len(d)
    <3>1. i \in 1 .. Len(d) - 1 /\ i \in 1 .. Len(d) /\ i + 1 \in 1 .. Len(d)
      BY <1>1, <2>2
    <3>. QED  BY <1>1, <3>1 DEF InOrder
  <2>. QED  BY <2>1, <2>2
<1>3. ASSUME NEW h, NEW l, NEW w, Labelled(h, l, w, d), m # Gone => m.of = l /\ w /\ h[l] > 0
      PROVE  Labelled(h, l, w, e)
  <2>1. \A i \in 1 .. Len(e) : i \in 1 .. Len(d) \/ e[i] = m
    BY <1>1
  <2>. QED  BY <1>1, <1>3, <2>1 DEF Labelled
<1>4. (d # <<>> => e[1] = d[1]) /\ (d = <<>> => e[1] = m)
  BY <1>1
<1>5. Clear(d) /\ m # Gone => Clear(e)
  <2>1. \A i \in 1 .. Len(e) : i \in 1 .. Len(d) \/ e[i] = m
    BY <1>1
  <2>. QED  BY <1>1, <2>1 DEF Clear
<1>. QED  BY <1>1, <1>2, <1>3, <1>4, <1>5 DEF e

\* The wire is its parts.
LEMMA WireParts ==
  ASSUME NEW h, NEW l, NEW w, NEW n
  PROVE  Wire(h, l, w, n) <=>
            /\ InOrder(n.down) /\ Labelled(h, l, w, n.down) /\ Serving(l, w, n)
            /\ n.fin = "no" /\ n.owed # <<>> => h[l] > 0
BY DEF Wire, Belongs, Labelled

\* The server reads the head of the last request, or what follows it.
LEMMA ServerReadDoes ==
  ASSUME Inv1, WireInv, NEW c \in Conns, serverRead(c)
  PROVE  LET n == net[c]
             nn == net'[c]
             l == Latest(conn[c])
         IN
         /\ n.fin = "no" /\ conn' = conn /\ req' = req /\ env' = env
         /\ \A d \in Conns : d # c => net'[d] = net[d]
         /\ nn.down = n.down /\ nn.fin = "no"
         /\ \/ /\ l \in Reqs /\ conn[c].wrote /\ HasHead(n) /\ ~HasHead(nn)
               /\ n.owed = <<>> /\ n.down = <<>> /\ nn.owed = <<l>>
               /\ handled' = [handled EXCEPT ![l] = @ + 1]
            \/ /\ nn.owed = n.owed /\ handled' = handled
               /\ \A i \in 1 .. Len(nn.up) : i + 1 \in 1 .. Len(n.up) /\ nn.up[i] = n.up[i + 1]
<1>. DEFINE k == conn[c]
            l == Latest(k)
            n == net[c]
            nn == net'[c]
            m == Head(n.up)
<1>1. /\ n \in NetType /\ n.up \in Seq(Item) /\ n.owed \in Seq(Reqs)
      /\ net \in [Conns -> NetType] /\ handled \in [Reqs -> Nat]
  BY AtConn DEF NetType, Inv1, TypeOK
<1>2. /\ n.fin = "no" /\ n.up # <<>> /\ conn' = conn /\ req' = req /\ env' = env
      /\ \A d \in Conns : d # c => net'[d] = net[d]
  BY <1>1 DEF serverRead
<1>3. /\ m = n.up[1] /\ m \in Item /\ Len(n.up) \in Nat /\ Len(n.up) > 0
      /\ Tail(n.up) \in Seq(Item) /\ Len(Tail(n.up)) = Len(n.up) - 1
      /\ \A i \in 1 .. Len(n.up) - 1 : Tail(n.up)[i] = n.up[i + 1]
  BY <1>1, <1>2, TailFacts
<1>4. Serving(l, k.wrote, n)
  BY DEF WireInv, WireAt, Wire
<1>5. nn.up = Tail(n.up) /\ nn.down = n.down /\ nn.fin = "no"
  BY <1>1, <1>2 DEF serverRead, NetType
<1>6. ASSUME NEW i \in 1 .. Len(nn.up) PROVE i + 1 \in 1 .. Len(n.up) /\ i + 1 # 1 /\ nn.up[i] = n.up[i + 1]
  BY <1>3, <1>5
<1>7. CASE m.part = "head"
  <2>1. nn.owed = Append(n.owed, m.of) /\ handled' = [handled EXCEPT ![m.of] = @ + 1]
    BY <1>1, <1>7 DEF serverRead, NetType
  <2>2. 1 \in 1 .. Len(n.up) /\ HasHead(n)
    BY <1>3, <1>7 DEF HasHead
  <2>3. k.wrote /\ n.owed = <<>> /\ n.down = <<>> /\ m.of = l
    BY <1>2, <1>3, <1>4, <1>7, <2>2 DEF Serving
  <2>4. l \in Reqs /\ nn.owed = <<l>>
    BY <1>3, <2>1, <2>3 DEF Item
  <2>5. ASSUME NEW i \in 1 .. Len(nn.up) PROVE nn.up[i].part # "head"
    <3>1. n.up[i + 1].part # "head"
      BY <1>2, <1>3, <1>4, <1>6, <1>7, <2>2 DEF Serving
    <3>. QED  BY <1>6, <3>1
  <2>6. ~HasHead(nn)
    BY <2>5 DEF HasHead
  <2>. QED  BY <1>2, <1>5, <2>1, <2>2, <2>3, <2>4, <2>6
<1>8. CASE m.part # "head"
  <2>1. nn.owed = n.owed /\ handled' = handled
    BY <1>1, <1>8 DEF serverRead, NetType
  <2>. QED  BY <1>2, <1>5, <1>6, <2>1
<1>. QED  BY <1>7, <1>8

\* ... and owes an answer to it.
LEMMA ServerReadWire ==
  ASSUME Inv2, WireInv, NEW c \in Conns, serverRead(c) PROVE WireInv'
<1>. DEFINE k == conn[c]
            l == Latest(k)
            w == k.wrote
            n == net[c]
            nn == net'[c]
<1>0. Inv1
  BY DEF Inv2
<1>1. handled \in [Reqs -> Nat]
  BY <1>0 DEF Inv1, TypeOK
<1>2. /\ n.fin = "no" /\ conn' = conn /\ req' = req
      /\ \A d \in Conns : d # c => net'[d] = net[d]
      /\ nn.down = n.down /\ nn.fin = "no"
      /\ \/ /\ l \in Reqs /\ w /\ HasHead(n) /\ ~HasHead(nn)
            /\ n.owed = <<>> /\ n.down = <<>> /\ nn.owed = <<l>>
            /\ handled' = [handled EXCEPT ![l] = @ + 1]
         \/ /\ nn.owed = n.owed /\ handled' = handled
            /\ \A i \in 1 .. Len(nn.up) : i + 1 \in 1 .. Len(n.up) /\ nn.up[i] = n.up[i + 1]
  BY <1>0, ServerReadDoes
<1>4. Wire(handled, l, w, n)
  BY DEF WireInv, WireAt
<1>5. InOrder(n.down) /\ Labelled(handled, l, w, n.down) /\ Serving(l, w, n)
  BY <1>4, WireParts
<1>6. Len(nn.up) \in Nat
  <2>1. Inv1'
    BY <1>0, ServerReadLane
  <2>2. net'[c].up \in Seq(Item)
    BY <2>1 DEF Inv1, TypeOK, NetType
  <2>. QED  BY <2>2
<1>7. CASE /\ l \in Reqs /\ w /\ HasHead(n) /\ ~HasHead(nn)
           /\ n.owed = <<>> /\ n.down = <<>> /\ nn.owed = <<l>>
           /\ handled' = [handled EXCEPT ![l] = @ + 1]
  <2>1. <<l>> # <<>> /\ handled' \in [Reqs -> Nat] /\ handled'[l] > 0
    BY <1>1, <1>7
  <2>2. Grows
    BY <1>1, <1>7 DEF Grows
  <2>3. Len(nn.down) = 0 /\ nn.down = <<>>
    BY <1>2, <1>7
  <2>. HIDE DEF k, l, w, n, nn
  <2>4. InOrder(nn.down) /\ Labelled(handled', l, w, nn.down)
    BY <2>3 DEF InOrder, Labelled
  <2>5. Serving(l, w, nn)
    BY <1>7, <2>1, <2>3 DEF Serving, HasHead
  <2>6. Wire(handled', l, w, nn)
    BY <2>1, <2>4, <2>5, WireParts
  <2>7. ServerMoves(n, nn)
    BY <1>2, <1>7, <2>3 DEF ServerMoves, Answered
  <2>. QED  BY <1>0, <1>2, <2>2, <2>6, <2>7, ServerWireStep DEF k, l, w, n, nn
<1>8. CASE /\ nn.owed = n.owed /\ handled' = handled
           /\ \A i \in 1 .. Len(nn.up) : i + 1 \in 1 .. Len(n.up) /\ nn.up[i] = n.up[i + 1]
  <2>1. Grows
    BY <1>1, <1>8 DEF Grows
  <2>. HIDE DEF k, l, w, n, nn
  <2>2. HasHead(nn) => HasHead(n)
    BY <1>8 DEF HasHead
  <2>3. ASSUME NEW i \in 1 .. Len(nn.up), NEW j \in 1 .. Len(nn.up),
               nn.up[i].part = "head", nn.up[j].part = "head"
        PROVE  i = j /\ nn.up[i].of = l
    <3>1. i + 1 = j + 1 /\ n.up[i + 1].of = l
      BY <1>2, <1>5, <1>8, <2>3 DEF Serving
    <3>2. nn.up[i] = n.up[i + 1]
      BY <1>8
    <3>. QED  BY <3>1, <3>2
  <2>4. Serving(l, w, nn)
    BY <1>2, <1>5, <1>8, <2>2, <2>3 DEF Serving
  <2>5. Wire(handled', l, w, nn)
    BY <1>2, <1>4, <1>5, <1>8, <2>4, WireParts
  <2>6. ServerMoves(n, nn)
    BY <1>2, <1>8, <2>2 DEF ServerMoves, Answered
  <2>. QED  BY <1>0, <1>2, <2>1, <2>5, <2>6, ServerWireStep DEF k, l, w, n, nn
<1>. QED  BY <1>2, <1>7, <1>8

\* What it adds to an unfinished answer.
LEMMA OwedWire ==
  ASSUME NEW h, NEW l, NEW w, NEW n \in NetType, Wire(h, l, w, n), n.fin = "no", n.owed # <<>>
  PROVE  /\ n.owed = <<l>> /\ l \in Reqs /\ Head(n.owed) = l /\ Tail(n.owed) = <<>> /\ w /\ h[l] > 0
         /\ ~HasHead(n) /\ ~Answered(n)
         /\ InOrder(n.down) /\ Labelled(h, l, w, n.down)
         /\ \A i \in 1 .. Len(n.down) : n.down[i].code \in HintCodes
         /\ n.down # <<>> => n.down[Len(n.down)].code \in HintCodes
         /\ Clear(n.down)
<1>1. InOrder(n.down) /\ Labelled(h, l, w, n.down) /\ Serving(l, w, n) /\ h[l] > 0
  BY WireParts
<1>2. /\ n.owed = <<l>> /\ w /\ ~HasHead(n)
      /\ \A i \in 1 .. Len(n.down) : n.down[i].code \in HintCodes
  BY <1>1 DEF Serving
<1>3. n.owed \in Seq(Reqs) /\ n.down \in Seq(Message)
  BY DEF NetType
<1>4. Head(n.owed) = l /\ Tail(n.owed) = <<>> /\ l \in Reqs
  <2>1. Head(n.owed) = n.owed[1] /\ Head(n.owed) \in Reqs /\ (Tail(n.owed) = <<>> <=> Len(n.owed) = 1)
    BY <1>3, TailFacts
  <2>. QED  BY <1>2, <2>1
<1>5. n.down # <<>> => Len(n.down) \in 1 .. Len(n.down)
  BY <1>3
<1>6. Clear(n.down)
  BY <1>1 DEF Serving, Clear
<1>. QED  BY <1>1, <1>2, <1>4, <1>5, <1>6 DEF Answered

\* A final response.
LEMMA ServerReplyWire ==
  ASSUME Inv2, WireInv, NEW c \in Conns, serverReply(c) PROVE WireInv'
<1>. DEFINE k == conn[c]
            l == Latest(k)
            w == k.wrote
            n == net[c]
            nn == net'[c]
            h == handled
            d == n.down
            r == Head(n.owed)
<1>0. Inv1
  BY DEF Inv2
<1>1. n \in NetType /\ d \in Seq(Message) /\ env \in Scenarios
  BY <1>0, AtConn DEF NetType, Inv1, TypeOK
<1>2. handled' = handled /\ conn' = conn /\ req' = req
  BY DEF serverReply
<1>3. Wire(h, l, w, n)
  BY DEF WireInv, WireAt
<1>4. /\ n.fin = "no" /\ n.owed # <<>> /\ nn.up = n.up /\ nn.owed = Tail(n.owed)
      /\ \A e \in Conns : e # c => net'[e] = net[e]
  BY <1>0, ServerReplyDoes
<1>5. /\ r \in Reqs /\ r = l /\ nn.owed = <<>> /\ w /\ h[l] > 0
      /\ ~HasHead(n) /\ ~Answered(n) /\ InOrder(d) /\ Labelled(h, l, w, d)
      /\ \A i \in 1 .. Len(d) : d[i].code \in HintCodes
      /\ d # <<>> => d[Len(d)].code \in HintCodes
      /\ Clear(d)
  BY <1>1, <1>3, <1>4, OwedWire
<1>6. PICK p \in env.replies :
        LET head == Response(r, p.code, p.close, p.body) IN
        \/ /\ nn.down = d \o <<head>> \o (IF p.body THEN <<Rest(r)>> ELSE <<>>)
           /\ nn.fin = IF p.close THEN "eof" ELSE "no"
        \/ p.body /\ nn.down = d \o <<head>> /\ nn.fin = "eof"
  BY <1>0, ServerReplyDoes
<1>. DEFINE x == Response(r, p.code, p.close, p.body)
            e == d \o <<x>>
<1>7. /\ x \in Message /\ x.of = l /\ x.code = p.code /\ x.body = p.body
      /\ p.code \in FinalCodes /\ p.body \in BOOLEAN
  <2>1. p.code \in FinalCodes /\ p.close \in BOOLEAN /\ p.body \in BOOLEAN
    BY <1>1, EnvFacts
  <2>2. x \in Message /\ x.of = r /\ x.code = p.code /\ x.body = p.body
    <3>1. x \in Final(r) /\ x.of = r /\ x.code = p.code /\ x.body = p.body
      BY <2>1 DEF Final, Response
    <3>2. Final(r) \subseteq Message
      BY <1>5 DEF Message
    <3>. QED  BY <3>1, <3>2
  <2>. QED  BY <1>5, <2>1, <2>2
<1>8. x.code \notin HintCodes \cup {"body"} /\ x # Gone /\ x.code \in FinalCodes
  BY <1>7 DEF FinalCodes, HintCodes, Gone, Response
<1>9. Rest(r) \in Message /\ Rest(r).code = "body" /\ Rest(r).of = l /\ Rest(r) # Gone
  BY <1>5, MessageFacts
<1>10. nn.down = e \/ (p.body /\ nn.down = e \o <<Rest(r)>>)
  <2>1. p.body = FALSE => e \o <<>> = e
    BY <1>1, <1>7
  <2>2. CASE p.body
    BY <1>6, <2>2
  <2>3. CASE ~p.body
    <3>1. nn.down = d \o <<Response(r, p.code, p.close, p.body)>> \o <<>>
      BY <1>6, <2>3
    <3>. QED  BY <2>1, <2>3, <3>1, <1>7
  <2>. QED  BY <2>2, <2>3
<1>11. nn.fin = "no" => nn.down = IF p.body THEN e \o <<Rest(r)>> ELSE e
  <2>1. p.body = FALSE => e \o <<>> = e
    BY <1>1, <1>7
  <2>2. CASE p.body
    BY <1>6, <2>2
  <2>3. CASE ~p.body
    BY SMTT(30), <1>6, <2>1, <2>3
  <2>. QED  BY <2>2, <2>3
<1>. HIDE DEF x
<1>12. d # <<>> => DownFollows(d[Len(d)], x)
  <2>. SUFFICES ASSUME d # <<>> PROVE DownFollows(d[Len(d)], x)
    OBVIOUS
  <2>1. d[Len(d)].code \in HintCodes
    BY <1>5
  <2>2. d[Len(d)] # Gone
    BY <2>1 DEF HintCodes, Gone, Response
  <2>3. d[Len(d)].code \notin FinalCodes \cup {"body"}
    BY <2>1 DEF HintCodes, FinalCodes
  <2>. QED  BY <1>8, <2>1, <2>2, <2>3 DEF DownFollows
<1>13. /\ e \in Seq(Message) /\ e # <<>> /\ e[Len(e)] = x /\ InOrder(e)
       /\ d # <<>> => e[1] = d[1]
       /\ d = <<>> => e[1] = x
       /\ Labelled(h, l, w, e) /\ Clear(e)
  BY <1>1, <1>5, <1>7, <1>8, <1>12, AddMessage
<1>. HIDE DEF k, l, w, n, nn, h, d, e, r
<1>. DEFINE f == e \o <<Rest(r)>>
<1>14. p.body => /\ f \in Seq(Message) /\ f # <<>> /\ f[Len(f)] = Rest(r) /\ InOrder(f)
                 /\ f[1] = e[1]
                 /\ Labelled(h, l, w, f) /\ Clear(f)
  <2>. SUFFICES ASSUME p.body PROVE /\ f \in Seq(Message) /\ f # <<>> /\ f[Len(f)] = Rest(r) /\ InOrder(f)
                 /\ f[1] = e[1]
                 /\ Labelled(h, l, w, f) /\ Clear(f)
    OBVIOUS
  <2>1. DownFollows(e[Len(e)], Rest(r))
    BY <1>7, <1>8, <1>9, <1>13 DEF DownFollows
  <2>. QED  BY <1>5, <1>9, <1>13, <2>1, AddMessage
<1>. HIDE DEF f
<1>15. /\ nn.down # <<>> /\ InOrder(nn.down) /\ Labelled(h, l, w, nn.down)
       /\ Clear(nn.down)
       /\ d # <<>> => nn.down[1] = d[1]
       /\ d = <<>> => nn.down[1] = x
  BY <1>10, <1>13, <1>14 DEF f
<1>16. nn.fin = "no" => Ended(nn.down)
  <2>. SUFFICES ASSUME nn.fin = "no" PROVE Ended(nn.down)
    OBVIOUS
  <2>1. CASE p.body
    <3>1. nn.down = f /\ f[Len(f)] = Rest(r)
      BY <1>11, <1>14, <2>1 DEF f
    <3>. QED  BY <1>9, <3>1 DEF Ended
  <2>2. CASE ~p.body
    <3>1. nn.down = e /\ e[Len(e)] = x
      BY <1>11, <1>13, <2>2
    <3>. QED  BY <1>7, <1>8, <2>2, <3>1 DEF Ended
  <2>. QED  BY <2>1, <2>2
<1>17. ~HasHead(nn) /\ Answered(nn)
  BY <1>4, <1>5 DEF HasHead, Answered, n, nn
<1>18. Serving(l, w, nn)
  BY <1>5, <1>15, <1>16, <1>17 DEF Serving, HasHead, Clear
<1>19. Wire(handled', l, w, nn)
  BY <1>2, <1>5, <1>15, <1>18, WireParts DEF h
<1>20. ServerMoves(n, nn)
  BY <1>4, <1>5, <1>8, <1>15, <1>17 DEF ServerMoves, d
<1>21. Grows
  BY <1>0, <1>2 DEF Grows, Inv1, TypeOK
<1>. QED  BY <1>0, <1>2, <1>4, <1>19, <1>20, <1>21, ServerWireStep DEF k, l, w, n, nn

\* Two sequences of messages.
LEMMA CatFacts ==
  ASSUME NEW S, NEW s \in Seq(S), NEW t \in Seq(S)
  PROVE  LET u == s \o t IN
         /\ u \in Seq(S) /\ Len(u) = Len(s) + Len(t) /\ Len(s) \in Nat /\ Len(t) \in Nat
         /\ \A i \in 1 .. Len(s) : u[i] = s[i]
         /\ \A i \in 1 .. Len(u) : i \notin 1 .. Len(s) => i - Len(s) \in 1 .. Len(t) /\ u[i] = t[i - Len(s)]
OBVIOUS

\* Informational responses.
LEMMA ServerHintWire ==
  ASSUME Inv2, WireInv, NEW c \in Conns, serverHint(c) PROVE WireInv'
<1>. DEFINE k == conn[c]
            l == Latest(k)
            w == k.wrote
            n == net[c]
            nn == net'[c]
            h == handled
            d == n.down
            r == Head(n.owed)
<1>0. Inv1
  BY DEF Inv2
<1>1. n \in NetType /\ d \in Seq(Message) /\ net \in [Conns -> NetType]
  BY <1>0, AtConn DEF NetType, Inv1, TypeOK
<1>2. handled' = handled /\ conn' = conn /\ req' = req /\ n.fin = "no" /\ n.owed # <<>>
  BY DEF serverHint
<1>3. Wire(h, l, w, n)
  BY DEF WireInv, WireAt
<1>4. PICK s \in {<<"100">>, <<"1xx", "100">>} :
        net' = [net EXCEPT ![c].hinted = TRUE, ![c].down =
                    @ \o [i \in 1..Len(s) |-> Response(Head(n.owed), s[i], FALSE, FALSE)]]
  BY DEF serverHint
<1>. DEFINE t == [i \in 1..Len(s) |-> Response(r, s[i], FALSE, FALSE)]
<1>5. /\ nn.up = n.up /\ nn.owed = n.owed /\ nn.fin = n.fin /\ nn.down = d \o t
      /\ \A e \in Conns : e # c => net'[e] = net[e]
  BY <1>1, <1>4 DEF NetType
<1>6. /\ r \in Reqs /\ r = l /\ n.owed = <<l>> /\ w /\ h[l] > 0
      /\ ~HasHead(n) /\ ~Answered(n) /\ Labelled(h, l, w, d)
      /\ \A i \in 1 .. Len(d) : d[i].code \in HintCodes
      /\ Clear(d)
  BY <1>1, <1>2, <1>3, OwedWire
<1>7. t \in Seq(Message)
  BY <1>6, HintsSent
<1>8. Len(t) = Len(s) /\ \A i \in 1 .. Len(t) : t[i].code \in HintCodes /\ t[i].of = r
  <2>1. Len(t) = Len(s) /\ Len(s) \in {1, 2}
    OBVIOUS
  <2>2. \A i \in 1 .. Len(s) : s[i] \in {"100", "1xx"}
    OBVIOUS
  <2>. QED  BY <2>1, <2>2 DEF HintCodes, Response
<1>. HIDE DEF t
<1>. DEFINE u == nn.down
<1>9. /\ u \in Seq(Message) /\ Len(u) = Len(d) + Len(t) /\ Len(d) \in Nat /\ Len(t) \in Nat
      /\ \A i \in 1 .. Len(d) : u[i] = d[i]
      /\ \A i \in 1 .. Len(u) : i \notin 1 .. Len(d) => i - Len(d) \in 1 .. Len(t) /\ u[i] = t[i - Len(d)]
  BY <1>1, <1>5, <1>7, CatFacts
<1>. HIDE DEF k, l, w, n, nn, h, d, r, u
<1>10. \A i \in 1 .. Len(u) : u[i].code \in HintCodes
  BY <1>6, <1>8, <1>9
<1>11. \A i \in 1 .. Len(u) : u[i] # Gone
  BY <1>10 DEF Gone, Response, HintCodes
<1>12. \A i \in 1 .. Len(u) : u[i].of = l /\ w
  BY <1>6, <1>8, <1>9 DEF Labelled, Clear
<1>13. InOrder(u)
  <2>. SUFFICES ASSUME NEW i \in 1 .. Len(u) - 1 PROVE DownFollows(u[i], u[i + 1])
    BY DEF InOrder
  <2>1. i \in 1 .. Len(u) /\ i + 1 \in 1 .. Len(u)
    BY <1>9
  <2>2. u[i].code \in HintCodes /\ u[i + 1].code \in HintCodes /\ u[i] # Gone
    BY <1>10, <1>11, <2>1
  <2>3. u[i].code \notin FinalCodes \cup {"body"}
    BY <2>2 DEF HintCodes, FinalCodes
  <2>. QED  BY <2>2, <2>3 DEF DownFollows
<1>14. Labelled(h, l, w, u)
  BY <1>6, <1>12 DEF Labelled
<1>15. ~HasHead(nn)
  BY <1>5, <1>6 DEF HasHead
<1>16. nn.owed = <<l>> /\ <<l>> # <<>>
  BY <1>5, <1>6
<1>17. Serving(l, w, nn)
  BY <1>6, <1>10, <1>11, <1>15, <1>16 DEF Serving, HasHead, u
<1>18. Wire(handled', l, w, nn)
  BY <1>2, <1>6, <1>13, <1>14, <1>17, WireParts DEF h, u
<1>19. ServerMoves(n, nn)
  <2>1. u # <<>> => 1 \in 1 .. Len(u)
    BY <1>9
  <2>2. u # <<>> => u[1].code # "body"
    BY <1>10, <2>1 DEF HintCodes
  <2>3. d # <<>> => u # <<>> /\ u[1] = d[1]
    <3>1. d # <<>> => 1 \in 1 .. Len(d)
      BY <1>1
    <3>. QED  BY <1>9, <3>1
  <2>. QED  BY <1>2, <1>6, <2>2, <2>3 DEF ServerMoves, d, u
<1>20. Grows
  BY <1>0, <1>2 DEF Grows, Inv1, TypeOK
<1>. QED  BY <1>0, <1>2, <1>5, <1>18, <1>19, <1>20, ServerWireStep DEF k, l, w, n, nn

\* A 408, or the end of the connection.
LEMMA ServerEndWire ==
  ASSUME Inv2, WireInv, NEW c \in Conns, serverTimeout(c) \/ serverClose(c) PROVE WireInv'
<1>. DEFINE k == conn[c]
            l == Latest(k)
            w == k.wrote
            n == net[c]
            nn == net'[c]
            h == handled
            d == n.down
<1>0. Inv1
  BY DEF Inv2
<1>1. n \in NetType /\ d \in Seq(Message) /\ net \in [Conns -> NetType]
  BY <1>0, AtConn DEF NetType, Inv1, TypeOK
<1>2. /\ handled' = handled /\ conn' = conn /\ req' = req /\ n.fin = "no"
      /\ \A e \in Conns : e # c => net'[e] = net[e]
  BY <1>1 DEF serverTimeout, serverClose
<1>3. Wire(h, l, w, n)
  BY DEF WireInv, WireAt
<1>4. InOrder(d) /\ Labelled(h, l, w, d) /\ Serving(l, w, n)
  BY <1>3, WireParts
<1>5. nn.fin # "no" => Serving(l, w, nn) /\ Answered(nn)
  BY DEF Serving, Answered
<1>6. Grows
  BY <1>0, <1>2 DEF Grows, Inv1, TypeOK
<1>7. CASE serverTimeout(c)
  <2>1. nn.down = Append(d, Gone) /\ nn.fin = "eof" /\ n.owed = <<>>
    BY <1>1, <1>7 DEF serverTimeout, NetType, Gone
  <2>2. nn.down = d \o <<Gone>>
    BY <1>1, <2>1, MessageFacts
  <2>3. Gone \in Message /\ Gone.code = "408"
    BY MessageFacts DEF Gone, Response
  <2>. HIDE DEF k, l, w, n, nn, h
  <2>4. d # <<>> => DownFollows(d[Len(d)], Gone)
    <3>. SUFFICES ASSUME d # <<>> PROVE DownFollows(d[Len(d)], Gone)
      OBVIOUS
    <3>1. Len(d) \in 1 .. Len(d)
      BY <1>1
    <3>2. /\ d[Len(d)].code = "body" \/ (d[Len(d)].code \in FinalCodes /\ ~d[Len(d)].body)
          /\ d[Len(d)] # Gone
      BY <1>2, <1>4, <2>1, <3>1 DEF Serving, Ended
    <3>3. d[Len(d)].code \notin HintCodes
      BY <3>2 DEF HintCodes, FinalCodes
    <3>. QED  BY <3>2, <3>3 DEF DownFollows, FinalCodes
  <2>5. /\ nn.down # <<>> /\ InOrder(nn.down) /\ Labelled(h, l, w, nn.down)
        /\ d # <<>> => nn.down[1] = d[1]
        /\ d = <<>> => nn.down[1] = Gone
    BY <1>1, <1>4, <2>2, <2>3, <2>4, AddMessage
  <2>6. Wire(handled', l, w, nn)
    BY <1>2, <1>5, <2>1, <2>5, WireParts DEF h
  <2>7. Quiet(d) => Quiet(nn.down)
    <3>1. d = <<>> \/ d # <<Gone>>
      <4>1. d = <<Gone>> => Len(d) = 1 /\ d[1] = Gone
        OBVIOUS
      <4>2. d # <<Gone>>
        BY <1>2, <1>4, <4>1 DEF Serving
      <4>. QED  BY <4>2
    <3>2. d = <<>> => nn.down = <<Gone>>
      BY <2>1
    <3>. QED  BY <3>1, <3>2 DEF Quiet
  <2>8. ServerMoves(n, nn)
    BY <1>2, <1>5, <2>1, <2>3, <2>5, <2>7 DEF ServerMoves
  <2>. QED  BY <1>0, <1>2, <1>6, <2>6, <2>8, ServerWireStep DEF k, l, w, n, nn
<1>8. CASE serverClose(c)
  <2>1. nn.fin # "no" /\ (nn.down = d \/ nn.down = <<>>)
    BY <1>1, <1>8 DEF serverClose, NetType
  <2>. HIDE DEF k, l, w, n, nn, h, d
  <2>2. InOrder(nn.down) /\ Labelled(h, l, w, nn.down)
    <3>1. InOrder(<<>>) /\ Labelled(h, l, w, <<>>)
      BY DEF InOrder, Labelled
    <3>. QED  BY <1>4, <2>1, <3>1
  <2>3. Wire(handled', l, w, nn)
    BY <1>2, <1>5, <2>1, <2>2, WireParts DEF h
  <2>4. ServerMoves(n, nn)
    BY <1>2, <1>5, <2>1 DEF ServerMoves, Quiet, d
  <2>. QED  BY <1>0, <1>2, <1>6, <2>3, <2>4, ServerWireStep DEF k, l, w, n, nn
<1>. QED  BY <1>7, <1>8

-----------------------------------------------------------------------------
(* What the steps of the callers do.                                       *)

\* Only r's call goes on.
Alone(r) == \A s \in Reqs : s # r => req'[s] = req[s]

\* r is given a response, or an error, for good.
Ends(r, a) == req'[r].pc = "done" /\ req'[r].answer = a

\* Without a connection.
LEMMA CallerDoes ==
  ASSUME Inv1, NEW r \in Reqs,
         \/ roundTripReject(r) \/ roundTripCached(r) \/ roundTripCachedEnd(r)
         \/ mapRoundTripError(r) \/ roundTripFailed(r)
  PROVE  LET q == req[r]
             qq == req'[r]
         IN
         /\ conn' = conn /\ net' = net /\ env' = env /\ Alone(r)
         /\ qq.respBody = q.respBody /\ qq.conn = q.conn
         /\ handled' = handled \/ (q.pc = "start" /\ qq.pc = "cached" /\ handled' = [handled EXCEPT ![r] = @ + 1])
         /\ \/ q.pc \in {"start", "failed"} /\ Ends(r, "error")
            \/ q.pc = "start" /\ qq.pc = "loop" /\ qq.answer = q.answer
            \/ q.pc = "start" /\ qq.pc = "cached" /\ qq.answer = q.answer /\ handled' # handled
            \/ q.pc = "cached" /\ (Ends(r, r) \/ Ends(r, "error"))
            \/ /\ q.pc = "failed" /\ qq.pc = "loop" /\ qq.answer = q.answer
               /\ shouldRetryRequest(r, conn[q.conn], q.err)
            \/ /\ q.pc = "map" /\ qq.pc = "failed" /\ qq.answer = q.answer
               /\ conn[q.conn].wl = "done"
               /\ qq.err = "nothingWritten" => q.err = "nothingWritten" \/ ~conn[q.conn].wrote
<1>. DEFINE q == req[r]
            qq == req'[r]
<1>1. q \in ReqType /\ req \in [Reqs -> ReqType] /\ handled \in [Reqs -> Nat]
  BY AtReq DEF Inv1, TypeOK
<1>2. /\ conn' = conn /\ net' = net /\ env' = env
  BY DEF roundTripReject, roundTripCached, roundTripCachedEnd, mapRoundTripError, roundTripFailed
<1>3. CASE roundTripReject(r)
  <2>1. PICK x : x = Return(closeBody(q), "error")
    OBVIOUS
  <2>2. x.pc = "done" /\ x.answer = "error" /\ x.respBody = q.respBody /\ x.conn = q.conn
    BY <1>1, <2>1, FailFacts
  <2>3. req' = [req EXCEPT ![r] = x] /\ handled' = handled /\ q.pc = "start"
    BY <1>1, <1>3, <2>1 DEF roundTripReject
  <2>4. qq = x /\ Alone(r)
    BY <1>1, <2>3 DEF Alone
  <2>. QED  BY <1>2, <2>2, <2>3, <2>4 DEF Ends
<1>4. CASE roundTripCached(r)
  <2>0. q.pc = "start"
    BY <1>4 DEF roundTripCached
  <2>1. CASE req' = [req EXCEPT ![r].pc = "loop"] /\ handled' = handled
    <3>1. /\ Alone(r) /\ qq.pc = "loop" /\ qq.answer = q.answer /\ qq.respBody = q.respBody
          /\ qq.conn = q.conn
      BY <1>1, <2>1 DEF Alone, ReqType
    <3>. QED  BY <1>2, <2>0, <2>1, <3>1
  <2>2. CASE req' = [req EXCEPT ![r].pc = "cached"] /\ handled' = [handled EXCEPT ![r] = @ + 1]
    <3>1. /\ Alone(r) /\ qq.pc = "cached" /\ qq.answer = q.answer /\ qq.respBody = q.respBody
          /\ qq.conn = q.conn /\ handled'[r] # handled[r]
      BY <1>1, <2>2 DEF Alone, ReqType
    <3>. QED  BY <1>2, <2>0, <2>2, <3>1
  <2>3. ASSUME NEW x \in rewindBody(r, [closeBody(q) EXCEPT !.didRead = TRUE], "loop"),
               req' = [req EXCEPT ![r] = x], handled' = handled
        PROVE  /\ Alone(r) /\ qq.respBody = q.respBody /\ qq.conn = q.conn
               /\ Ends(r, "error") \/ (qq.pc = "loop" /\ qq.answer = q.answer)
    <3>1. PICK y : y = [closeBody(q) EXCEPT !.didRead = TRUE]
      OBVIOUS
    <3>2. y \in ReqType /\ y.conn = q.conn /\ y.respBody = q.respBody /\ y.answer = q.answer
      BY <1>1, <3>1 DEF closeBody, ReqType
    <3>3. /\ x.conn = y.conn /\ x.respBody = y.respBody
          /\ (x.pc = "loop" /\ x.answer = y.answer) \/ (x.pc = "done" /\ x.answer = "error")
      BY ZenonT(40), <2>3, <3>1, <3>2, RewindFacts
    <3>4. qq = x /\ Alone(r)
      BY <1>1, <2>3 DEF Alone
    <3>. QED  BY <3>2, <3>3, <3>4 DEF Ends
  <2>. QED  BY <1>2, <1>4, <2>0, <2>1, <2>2, <2>3 DEF roundTripCached
<1>5. CASE roundTripCachedEnd(r)
  <2>1. PICK a \in {r, "error"} : req' = [req EXCEPT ![r] = Return([closeBody(@) EXCEPT !.didRead = TRUE], a)]
    BY <1>5 DEF roundTripCachedEnd
  <2>2. PICK y : y = [closeBody(q) EXCEPT !.didRead = TRUE]
    OBVIOUS
  <2>3. y \in ReqType /\ y.conn = q.conn /\ y.respBody = q.respBody
    BY <1>1, <2>2 DEF closeBody, ReqType
  <2>4. PICK x : x = Return(y, a)
    OBVIOUS
  <2>5. x.pc = "done" /\ x.conn = q.conn /\ x.respBody = q.respBody /\ x.answer = a
    BY <2>3, <2>4, ReturnFacts DEF Answers
  <2>6. qq = x /\ Alone(r)
    BY <1>1, <2>1, <2>2, <2>4 DEF Alone
  <2>7. q.pc = "cached" /\ handled' = handled
    BY <1>5 DEF roundTripCachedEnd
  <2>. QED  BY <1>2, <2>5, <2>6, <2>7 DEF Ends
<1>6. CASE roundTripFailed(r)
  <2>0. q.pc = "failed" /\ handled' = handled
    BY <1>6 DEF roundTripFailed
  <2>1. ASSUME NEW x \in rewindBody(r, q, "loop"), req' = [req EXCEPT ![r] = x]
        PROVE  /\ Alone(r) /\ qq.respBody = q.respBody /\ qq.conn = q.conn
               /\ Ends(r, "error") \/ (qq.pc = "loop" /\ qq.answer = q.answer)
    <3>1. /\ x.conn = q.conn /\ x.respBody = q.respBody
          /\ (x.pc = "loop" /\ x.answer = q.answer) \/ (x.pc = "done" /\ x.answer = "error")
      <4>1. PICK y : y = q
        OBVIOUS
      <4>2. y \in ReqType /\ x \in rewindBody(r, y, "loop")
        BY <1>1, <2>1, <4>1
      <4>3. /\ x.conn = y.conn /\ x.respBody = y.respBody
            /\ (x.pc = "loop" /\ x.answer = y.answer) \/ (x.pc = "done" /\ x.answer = "error")
        BY <4>2, RewindFacts
      <4>. QED  BY <4>1, <4>3
    <3>2. qq = x /\ Alone(r)
      BY <1>1, <2>1 DEF Alone
    <3>. QED  BY <3>1, <3>2 DEF Ends
  <2>2. ASSUME req' = [req EXCEPT ![r] = Return(closeBody(@), "error")]
        PROVE  Alone(r) /\ qq.respBody = q.respBody /\ qq.conn = q.conn /\ Ends(r, "error")
    <3>1. PICK x : x = Return(closeBody(q), "error")
      OBVIOUS
    <3>2. x.pc = "done" /\ x.answer = "error" /\ x.respBody = q.respBody /\ x.conn = q.conn
      BY <1>1, <3>1, FailFacts
    <3>3. qq = x /\ Alone(r)
      BY <1>1, <2>2, <3>1 DEF Alone
    <3>. QED  BY <3>2, <3>3 DEF Ends
  <2>3. CASE shouldRetryRequest(r, conn[q.conn], q.err)
    BY <1>2, <1>6, <2>0, <2>1, <2>3 DEF roundTripFailed
  <2>4. CASE ~shouldRetryRequest(r, conn[q.conn], q.err)
    BY <1>2, <1>6, <2>0, <2>2, <2>4 DEF roundTripFailed
  <2>. QED  BY <2>3, <2>4
<1>7. CASE mapRoundTripError(r)
  <2>. DEFINE k == conn[q.conn]
              e == CASE k.canceled -> "canceled"
                     [] ~k.canceled /\ q.setError -> "bodyRead"
                     [] ~k.canceled /\ ~q.setError /\ q.err = "serverClosedIdle" -> q.err
                     [] ~k.canceled /\ ~q.setError /\ q.err # "serverClosedIdle" /\ ~k.wrote
                           /\ (q.err = "readFromServer" \/ isBroken(k)) -> "nothingWritten"
                     [] OTHER -> q.err
  <2>1. req' = [req EXCEPT ![r].pc = "failed", ![r].err = e] /\ handled' = handled
        /\ q.pc = "map" /\ k.wl = "done"
    BY <1>7 DEF mapRoundTripError
  <2>2. e = "nothingWritten" => q.err = "nothingWritten" \/ ~k.wrote
    OBVIOUS
  <2>. HIDE DEF e, k
  <2>3. /\ Alone(r) /\ qq.pc = "failed" /\ qq.err = e /\ qq.answer = q.answer
        /\ qq.respBody = q.respBody /\ qq.conn = q.conn
    BY <1>1, <2>1 DEF Alone, ReqType
  <2>. QED  BY <1>2, <2>1, <2>2, <2>3 DEF k
<1>. QED  BY <1>3, <1>4, <1>5, <1>6, <1>7

\* ... and its effect on the wire.
LEMMA CallerWire ==
  ASSUME Inv1, WireInv, NEW r \in Reqs, Calm,
         \/ roundTripReject(r) \/ roundTripCached(r) \/ roundTripCachedEnd(r)
         \/ mapRoundTripError(r) \/ roundTripFailed(r)
  PROVE  WireInv'
<1>1. /\ conn' = conn /\ net' = net /\ Alone(r) /\ req'[r].respBody = req[r].respBody
      /\ handled' = handled \/ handled' = [handled EXCEPT ![r] = @ + 1]
      /\ req[r].pc # "done"
  BY CallerDoes
<1>2. Grows
  BY <1>1 DEF Grows, Inv1, TypeOK
<1>3. req[r].respBody \notin {"open", "failed"}
  BY <1>1 DEF WireInv, Using
<1>4. Users
  BY <1>1, <1>3 DEF Users, Alone
<1>. QED  BY <1>1, <1>2, <1>4, NoWireStep

\* A caller gives up waiting.
LEMMA CancelWire ==
  ASSUME Inv1, WireInv, NEW r \in Reqs, Calm, Cancel(r) PROVE WireInv'
<1>1. req \in [Reqs -> ReqType] /\ handled \in [Reqs -> Nat]
  BY DEF Inv1, TypeOK
<1>2. conn' = conn /\ net' = net /\ handled' = handled
  BY DEF Cancel
<1>3. Users
  BY <1>1 DEF Cancel, Users, ReqType
<1>4. Grows
  BY <1>1, <1>2 DEF Grows
<1>. QED  BY <1>2, <1>3, <1>4, NoWireStep

\* A connection is taken from the pool, or made.
LEMMA GetConnDoes ==
  ASSUME Inv1, NEW r \in Reqs, getConn(r)
  PROVE  /\ req[r].pc = "loop" /\ net' = net /\ handled' = handled /\ env' = env /\ Alone(r)
         /\ req'[r].respBody = req[r].respBody
         /\ \/ conn' = conn /\ Ends(r, "error") /\ req'[r].conn = req[r].conn
            \/ \E c \in Conns :
                  /\ conn[c].open => conn[c].idle
                  /\ ~isBroken(conn[c])
                  /\ \A d \in Conns : d # c => conn'[d] = conn[d]
                  /\ conn'[c] = [conn[c] EXCEPT !.open = TRUE, !.idle = FALSE]
                  /\ req'[r].pc = "enter" /\ req'[r].conn = c /\ req'[r].answer = req[r].answer
<1>. DEFINE q == req[r]
            qq == req'[r]
<1>1. /\ q \in ReqType /\ req \in [Reqs -> ReqType] /\ conn \in [Conns -> ConnType]
      /\ q.pc = "loop" /\ net' = net /\ handled' = handled /\ env' = env
  BY AtReq DEF Inv1, TypeOK, getConn
<1>2. CASE req' = [req EXCEPT ![r] = Return(closeBody(@), "error")] /\ UNCHANGED conn
  <2>1. PICK x : x = Return(closeBody(q), "error")
    OBVIOUS
  <2>2. x.pc = "done" /\ x.answer = "error" /\ x.respBody = q.respBody /\ x.conn = q.conn
    BY <1>1, <2>1, FailFacts
  <2>3. qq = x /\ Alone(r)
    BY <1>1, <1>2, <2>1 DEF Alone
  <2>. QED  BY <1>1, <1>2, <2>2, <2>3 DEF Ends
<1>3. ASSUME NEW c \in Conns,
             IF conn[c].open THEN conn[c].idle /\ ~isBroken(conn[c])
             ELSE \A d \in Conns : ~(conn[d].idle /\ ~isBroken(conn[d])),
             conn' = [conn EXCEPT ![c].open = TRUE, ![c].idle = FALSE],
             req' = [req EXCEPT ![r].pc = "enter", ![r].conn = c]
      PROVE  /\ conn[c].open => conn[c].idle
             /\ ~isBroken(conn[c])
             /\ \A d \in Conns : d # c => conn'[d] = conn[d]
             /\ conn'[c] = [conn[c] EXCEPT !.open = TRUE, !.idle = FALSE]
             /\ req'[r].pc = "enter" /\ req'[r].conn = c /\ req'[r].answer = req[r].answer
             /\ Alone(r) /\ req'[r].respBody = req[r].respBody
  <2>1. ~isBroken(conn[c])
    <3>1. ~conn[c].open => conn[c] = NewConn
      BY DEF Inv1, LaneInv, Unopened
    <3>. QED  BY <1>3, <3>1 DEF isBroken, NewConn
  <2>. QED  BY <1>1, <1>3, <2>1 DEF Alone, ReqType
<1>. QED  BY ZenonT(40), <1>1, <1>2, <1>3 DEF getConn

\* One more response is expected, then the request is handed to both loops.
LEMMA SendDoes ==
  ASSUME Inv1, NEW r \in Reqs, roundTripEnter(r) \/ roundTripSend(r)
  PROVE  LET c == req[r].conn
             k == conn[c]
             kk == conn'[c]
         IN
         /\ net' = net /\ handled' = handled /\ env' = env /\ Alone(r)
         /\ c \in Conns /\ Pre(c, r) /\ \A d \in Conns : d # c => conn'[d] = conn[d]
         /\ req'[r].respBody = req[r].respBody /\ req'[r].answer = req[r].answer
         /\ req'[r].conn = c
         /\ SameReader(k, [kk EXCEPT !.reqch = k.reqch]) /\ ~kk.idle
         /\ kk.wl = k.wl /\ kk.wr = k.wr /\ kk.open = k.open /\ kk.closed = k.closed
         /\ kk.werr = k.werr
         /\ \/ /\ req[r].pc = "enter" /\ req'[r].pc = "send"
               /\ kk.reqch = k.reqch /\ kk.writech = k.writech /\ kk.wrote = k.wrote
            \/ /\ req[r].pc = "send" /\ req'[r].pc = "select" /\ req'[r].writeErrCh = "none"
               /\ kk.reqch = r /\ kk.writech = r /\ kk.wrote = FALSE
<1>. DEFINE c == req[r].conn
            k == conn[c]
            kk == conn'[c]
<1>1. /\ req \in [Reqs -> ReqType] /\ conn \in [Conns -> ConnType] /\ req[r].pc \in {"enter", "send"}
      /\ net' = net /\ handled' = handled /\ env' = env
  BY DEF Inv1, TypeOK, roundTripEnter, roundTripSend
<1>2. c \in Conns /\ Fit(k) /\ ~k.idle /\ k \in ConnType /\ Pre(c, r)
  BY <1>1, AtPre DEF Pre
<1>3. \A d \in Conns : d # c => conn'[d] = conn[d]
  BY <1>1 DEF roundTripEnter, roundTripSend
<1>4. CASE roundTripEnter(r)
  <2>1. /\ kk.rl = k.rl /\ kk.rc = k.rc /\ kk.resp = k.resp /\ kk.alive = k.alive
        /\ kk.waitForBodyRead = k.waitForBodyRead /\ kk.idle = k.idle
        /\ kk.wl = k.wl /\ kk.wr = k.wr /\ kk.open = k.open /\ kk.closed = k.closed /\ kk.werr = k.werr
        /\ kk.reqch = k.reqch /\ kk.writech = k.writech /\ kk.wrote = k.wrote
        /\ kk \in ConnType
    BY <1>1, <1>2, <1>4 DEF roundTripEnter, ConnType
  <2>2. /\ Alone(r) /\ req'[r].respBody = req[r].respBody /\ req'[r].answer = req[r].answer
        /\ req'[r].conn = c /\ req[r].pc = "enter" /\ req'[r].pc = "send"
    BY <1>1, <1>4 DEF roundTripEnter, Alone, ReqType
  <2>. HIDE DEF kk
  <2>3. SameReader(k, [kk EXCEPT !.reqch = k.reqch])
    BY <2>1 DEF SameReader, ConnType
  <2>. QED  BY <1>1, <1>2, <1>3, <2>1, <2>2, <2>3 DEF kk
<1>5. CASE roundTripSend(r)
  <2>0. PICK x \in Continues : conn' = [conn EXCEPT ![c].writech = r, ![c].reqch = r, ![c].wrote = FALSE,
                                  ![c].continueCh = x]
    BY <1>5 DEF roundTripSend, Continues
  <2>1. /\ kk.rl = k.rl /\ kk.rc = k.rc /\ kk.resp = k.resp /\ kk.alive = k.alive
        /\ kk.waitForBodyRead = k.waitForBodyRead /\ kk.idle = k.idle
        /\ kk.wl = k.wl /\ kk.wr = k.wr /\ kk.open = k.open /\ kk.closed = k.closed /\ kk.werr = k.werr
        /\ kk.reqch = r /\ kk.writech = r /\ kk.wrote = FALSE
        /\ kk \in ConnType
    BY <1>1, <1>2, <2>0 DEF ConnType, MaybeReq
  <2>2. /\ Alone(r) /\ req'[r].respBody = req[r].respBody /\ req'[r].answer = req[r].answer
        /\ req'[r].conn = c /\ req[r].pc = "send" /\ req'[r].pc = "select" /\ req'[r].writeErrCh = "none"
    BY <1>1, <1>5 DEF roundTripSend, Alone, ReqType
  <2>. HIDE DEF kk
  <2>3. SameReader(k, [kk EXCEPT !.reqch = k.reqch])
    BY <2>1 DEF SameReader, ConnType
  <2>. QED  BY <1>1, <1>2, <1>3, <2>1, <2>2, <2>3 DEF kk
<1>. QED  BY <1>4, <1>5

\* Who takes a connection takes it from nobody.
LEMMA TakesWire ==
  ASSUME Inv1, WireInv, NEW r \in Reqs, NEW c \in Conns, handled' = handled, net' = net, Alone(r),
         \A d \in Conns : d # c => conn'[d] = conn[d],
         req[r].pc # "done", req'[r].respBody = req[r].respBody, req'[r].conn = c,
         \A s \in Reqs : Using(s) /\ s # r /\ req[s].respBody \in {"open", "failed"} => req[s].conn # c,
         WireAt(handled, conn'[c], net[c]),
         Quiet(net[c].down) /\ Answered(net[c])
  PROVE  WireInv'
<1>1. ASSUME NEW d \in Conns PROVE WireAt(handled, conn[d], net[d])'
  <2>1. WireAt(handled, conn'[d], net[d])
    BY DEF WireInv
  <2>. QED  BY <2>1 DEF WireAt, Wire, Turn, Own, Resting, Recycled
<1>2. ASSUME NEW d \in Conns, NEW s \in Reqs, Pre(d, s)'
      PROVE  Quiet(net[d].down)' /\ Answered(net[d])'
  <2>1. d = c \/ Pre(d, s)
    BY <1>2 DEF Pre, Alone
  <2>2. Quiet(net[d].down) /\ Answered(net[d])
    BY <2>1 DEF WireInv
  <2>. QED  BY <2>2 DEF Quiet, Answered
<1>3. ASSUME NEW s \in Reqs, req'[s].respBody \in {"open", "failed"} PROVE Using(s)'
  <2>1. s # r
    BY <1>3 DEF WireInv, Using
  <2>2. req'[s] = req[s]
    BY <2>1 DEF Alone
  <2>3. /\ req[s].pc = "done" /\ Unclaimed(req[s].conn) /\ req[s].conn # c
        /\ Held(conn[req[s].conn], s, req[s].respBody)
    BY <1>3, <2>1, <2>2 DEF Using, WireInv
  <2>4. req[s].conn \in Conns
    BY <1>3, <2>2, AtReq DEF Placed
  <2>5. Unclaimed(req[s].conn)'
    <3>1. ASSUME NEW t \in Reqs, Pre(req[s].conn, t)' PROVE FALSE
      <4>1. t # r
        BY <2>2, <2>3, <3>1 DEF Pre
      <4>2. req'[t] = req[t]
        BY <4>1 DEF Alone
      <4>. QED  BY <2>2, <2>3, <3>1, <4>2 DEF Pre, Unclaimed
    <3>. QED  BY <3>1 DEF Unclaimed
  <2>6. conn'[req[s].conn] = conn[req[s].conn]
    BY <2>3, <2>4
  <2>. QED  BY <2>2, <2>3, <2>5, <2>6 DEF Using, Held
<1>4. \A s \in Reqs : Using(s)'
  BY <1>3 DEF Using
<1>. QED  BY <1>1, <1>2, <1>4 DEF WireInv

\* A connection that is idle or new has nothing on its wire.
LEMMA GetConnWire ==
  ASSUME Inv1, WireInv, NEW r \in Reqs, getConn(r) PROVE WireInv'
<1>1. /\ req[r].pc = "loop" /\ net' = net /\ handled' = handled /\ Alone(r)
      /\ req'[r].respBody = req[r].respBody
  BY GetConnDoes
<1>2. CASE conn' = conn /\ Ends(r, "error") /\ req'[r].conn = req[r].conn
  <2>1. req[r].respBody \notin {"open", "failed"}
    BY <1>1 DEF WireInv, Using
  <2>2. Users
    BY <1>1, <2>1 DEF Users, Alone
  <2>3. Grows
    BY <1>1 DEF Grows, Inv1, TypeOK
  <2>4. Calm
    <3>1. req' \in [Reqs -> ReqType] /\ \A s \in Reqs : Placed(req'[s])
      <4>1. Inv1'
        BY GetConnLane
      <4>. QED  BY <4>1 DEF Inv1, TypeOK, LaneInv
    <3>. QED  BY <1>1, <1>2, <3>1 DEF Calm, Ends, Alone
  <2>. QED  BY <1>1, <1>2, <2>2, <2>3, <2>4, NoWireStep
<1>3. ASSUME NEW c \in Conns, conn[c].open => conn[c].idle,
             \A d \in Conns : d # c => conn'[d] = conn[d],
             conn'[c] = [conn[c] EXCEPT !.open = TRUE, !.idle = FALSE],
             req'[r].conn = c
      PROVE  WireInv'
  <2>. DEFINE k == conn[c]
              kk == conn'[c]
              n == net[c]
  <2>1. k \in ConnType /\ WireAt(handled, k, n)
    BY AtConn DEF WireInv
  <2>2. Quiet(n.down) /\ Answered(n)
    <3>1. CASE k.open
      BY <1>3, <2>1, <3>1 DEF WireAt, Turn
    <3>2. CASE ~k.open
      <4>1. n = NewNet
        BY <3>2 DEF Inv1, LaneInv, Unopened
      <4>2. n.down = <<>> /\ n.owed = <<>> /\ n.up = <<>>
        BY <4>1 DEF NewNet
      <4>3. ~HasHead(n)
        BY <4>2 DEF HasHead
      <4>. QED  BY <4>2, <4>3 DEF Quiet, Answered
    <3>. QED  BY <3>1, <3>2
  <2>3. SameReader(k, kk) /\ Latest(kk) = Latest(k) /\ kk.wrote = k.wrote
    BY <1>3, <2>1 DEF ConnType, SameReader, Latest
  <2>4. ASSUME NEW s \in Reqs, Using(s), req[s].respBody \in {"open", "failed"}, req[s].conn = c PROVE FALSE
    <3>1. ~k.idle
      BY <2>4 DEF Using, Held
    <3>2. k.open
      BY <2>4 DEF Inv1, LaneInv, Opened
    <3>. QED  BY <1>3, <3>1, <3>2
  <2>. HIDE DEF k, kk, n
  <2>5. Recycled(kk) = Recycled(k) /\ Resting(kk) = Resting(k)
    BY <2>3 DEF SameReader, Recycled, Resting
  <2>6. WireAt(handled, kk, n)
    BY <2>1, <2>3, <2>5 DEF WireAt, Turn, Own, SameReader
  <2>. QED  BY <1>1, <1>3, <2>2, <2>4, <2>6, TakesWire DEF k, kk, n
<1>. QED  BY <1>2, <1>3, GetConnDoes

\* ... so it may be given the next request.
LEMMA SendWire ==
  ASSUME Inv1, WireInv, NEW r \in Reqs, roundTripEnter(r) \/ roundTripSend(r) PROVE WireInv'
<1>. DEFINE c == req[r].conn
            k == conn[c]
            kk == conn'[c]
            n == net[c]
<1>1. /\ net' = net /\ handled' = handled /\ Alone(r)
      /\ c \in Conns /\ Pre(c, r) /\ \A d \in Conns : d # c => conn'[d] = conn[d]
      /\ req'[r].respBody = req[r].respBody /\ req'[r].conn = c
      /\ SameReader(k, [kk EXCEPT !.reqch = k.reqch]) /\ ~kk.idle /\ kk.wr = k.wr
      /\ \/ kk.reqch = k.reqch /\ kk.writech = k.writech /\ kk.wrote = k.wrote
         \/ kk.reqch = r /\ kk.writech = r /\ kk.wrote = FALSE
  BY SendDoes
<1>2. k \in ConnType /\ Fit(k) /\ ~k.idle /\ n \in NetType /\ n.down \in Seq(Message)
  BY <1>1, AtPre, AtConn DEF Pre, NetType
<1>3. WireAt(handled, k, n) /\ Quiet(n.down) /\ Answered(n)
  BY <1>1 DEF WireInv
<1>4. /\ kk.rl = k.rl /\ kk.rc = k.rc /\ kk.resp = k.resp /\ kk.alive = k.alive
      /\ kk.waitForBodyRead = k.waitForBodyRead
  <2>1. Inv1'
    BY EnterLane, SendLane
  <2>2. kk \in ConnType
    BY <1>1, <2>1 DEF Inv1, TypeOK
  <2>. HIDE DEF kk
  <2>. QED  BY <1>1, <2>2 DEF SameReader, ConnType
<1>5. ASSUME NEW s \in Reqs, Using(s), req[s].respBody \in {"open", "failed"}, req[s].conn = c PROVE FALSE
  BY <1>1, <1>5 DEF Using, Unclaimed
<1>6. req[r].pc # "done"
  BY <1>1 DEF Pre
<1>. HIDE DEF k, kk, n
<1>7. Recycled(kk) = Recycled(k) /\ Resting(kk) /\ Resting(k)
  BY <1>2, <1>4 DEF Recycled, Resting, Fit
<1>8. WireAt(handled, kk, n)
  <2>1. CASE kk.reqch = k.reqch /\ kk.writech = k.writech /\ kk.wrote = k.wrote
    <3>1. Latest(kk) = Latest(k)
      BY <1>1, <2>1 DEF Latest
    <3>. QED  BY <1>1, <1>3, <1>4, <1>7, <2>1, <3>1 DEF WireAt, Turn, Own
  <2>2. CASE kk.reqch = r /\ kk.writech = r /\ kk.wrote = FALSE
    <3>1. Latest(kk) = r /\ r # NoReq
      BY <2>2, ExchangeAssumption DEF Latest
    <3>2. \A i \in 1 .. Len(n.down) : n.down[i] = Gone
      BY <1>2, <1>3 DEF Quiet
    <3>3. n.fin = "no" => n.down = <<>>
      <4>. SUFFICES ASSUME n.fin = "no" PROVE n.down = <<>>
        OBVIOUS
      <4>1. \A i \in 1 .. Len(n.down) : n.down[i] # Gone
        BY <1>3 DEF WireAt, Wire, Serving
      <4>2. n.down # <<>> => 1 \in 1 .. Len(n.down)
        BY <1>2
      <4>. QED  BY <3>2, <4>1, <4>2
    <3>4. Serving(r, FALSE, n)
      <4>. SUFFICES ASSUME n.fin = "no" PROVE Serving(r, FALSE, n)
        BY DEF Serving
      <4>1. n.down = <<>> /\ n.owed = <<>> /\ ~HasHead(n)
        BY <1>3, <3>3 DEF Answered
      <4>2. Ended(n.down) /\ \A i \in 1 .. Len(n.down) : n.down[i] # Gone
        BY <4>1 DEF Ended
      <4>. QED  BY <4>1, <4>2 DEF Serving, HasHead
    <3>5. Wire(handled, r, FALSE, n)
      <4>1. InOrder(n.down)
        BY <1>3 DEF WireAt, Wire
      <4>2. Labelled(handled, r, FALSE, n.down)
        BY <3>2 DEF Labelled
      <4>. QED  BY <1>3, <3>4, <4>1, <4>2, WireParts DEF Answered
    <3>6. n.down # <<>> => n.down[1].code # "body"
      <4>1. n.down # <<>> => 1 \in 1 .. Len(n.down)
        BY <1>2
      <4>. QED  BY <3>2, <4>1 DEF Gone, Response
    <3>7. k.rl \notin Finishing \cup {"bodyWait", "response"} /\ (k.rl = "deliver" => Recycled(k))
      BY <1>7 DEF Resting, Recycled, Finishing, Ending
    <3>8. k.rl = "deliver" => ~(k.resp.body)
      BY <3>7 DEF Recycled
    <3>9. Turn(k, n)
      BY <1>3 DEF WireAt
    <3>10. Turn(kk, n)
      BY <1>1, <1>4, <1>7, <2>2, <3>1, <3>6, <3>7, <3>8, <3>9 DEF Turn
    <3>. QED  BY <1>3, <1>4, <2>2, <3>1, <3>5, <3>10 DEF WireAt, Own
  <2>. QED  BY <1>1, <2>1, <2>2
<1>. QED  BY <1>1, <1>3, <1>5, <1>6, <1>8, TakesWire DEF k, kk, n

\* The wire at the start.
LEMMA InitWire == Init => WireInv
<1>. SUFFICES ASSUME Init PROVE WireInv
  OBVIOUS
<1>1. ASSUME NEW c \in Conns PROVE WireAt(handled, conn[c], net[c])
  <2>1. conn[c] = NewConn /\ net[c] = NewNet
    BY DEF Init
  <2>2. /\ NewNet.down = <<>> /\ NewNet.up = <<>> /\ NewNet.owed = <<>> /\ NewNet.fin = "no"
        /\ NewConn.rl = "peek" /\ NewConn.reqch = NoReq /\ NewConn.idle = FALSE
        /\ NewConn.waitForBodyRead = "none"
    BY DEF NewNet, NewConn
  <2>3. ~HasHead(NewNet) /\ Resting(NewConn)
    BY <2>2 DEF HasHead, Resting
  <2>4. Ended(<<>>) /\ InOrder(<<>>)
    BY DEF Ended, InOrder
  <2>5. \A l, w : Serving(l, w, NewNet)
    BY <2>2, <2>3, <2>4 DEF Serving, HasHead
  <2>6. \A h, l, w : Wire(h, l, w, NewNet)
    BY <2>2, <2>4, <2>5 DEF Wire, Belongs
  <2>7. Turn(NewConn, NewNet)
    BY <2>2, <2>3 DEF Turn, Finishing
  <2>8. \A h : Own(h, NewConn)
    BY <2>2 DEF Own, Finishing
  <2>. QED  BY <2>1, <2>6, <2>7, <2>8 DEF WireAt
<1>2. \A r \in Reqs : req[r].pc = "start" /\ req[r].respBody = "none"
  BY DEF Init, NewReq
<1>. QED  BY <1>1, <1>2 DEF WireInv, Pre, Using

\* With the frames, an inductive invariant.
Inv3 == Inv2 /\ WireInv

\* Every step keeps it.
LEMMA NextWire ==
  ASSUME Inv3, [Next]_vars PROVE Inv3'
<1>0. Inv2 /\ Inv1 /\ WireInv
  BY DEF Inv3, Inv2
<1>1. Inv2' /\ (Calm \/ Takes)
  BY <1>0, NextLane, NextFrame
<1>2. WireInv'
  <2>1. CASE UNCHANGED vars
    <3>1. conn' = conn /\ net' = net /\ req' = req /\ handled' = handled
      BY <2>1 DEF vars
    <3>2. Calm /\ Users /\ Grows
      BY <1>0, <3>1, CalmReq DEF Users, Grows, Inv1, TypeOK
    <3>. QED  BY <1>0, <3>1, <3>2, NoWireStep
  <2>2. CASE Takes
    BY <1>0, <2>2, GetConnWire, SendWire DEF Takes
  <2>3. CASE Calm /\ Next /\ ~Takes
    <3>1. ASSUME NEW r \in Reqs, Caller(r) \/ User(r) \/ Cancel(r) PROVE WireInv'
      <4>1. CASE User(r) \/ Cancel(r)
        BY <1>0, <2>3, <4>1, UserWire, CancelWire
      <4>2. CASE Caller(r)
        <5>1. ~(getConn(r) \/ roundTripEnter(r) \/ roundTripSend(r))
          BY <2>3 DEF Takes
        <5>2. CASE roundTripSelect(r)
          BY <1>0, <2>3, <5>2, SelectWire
        <5>3. CASE ~roundTripSelect(r)
          BY <1>0, <2>3, <4>2, <5>1, <5>3, CallerWire DEF Caller
        <5>. QED  BY <5>2, <5>3
      <4>. QED  BY <3>1, <4>1, <4>2
    <3>2. ASSUME NEW c \in Conns, writeLoop(c) PROVE WireInv'
      BY <1>0, <2>3, <3>2, WriterWire
    <3>3. ASSUME NEW c \in Conns, readLoop(c) \/ closeConnIfStillIdle(c) PROVE WireInv'
      <4>1. CASE readLoopPeek(c) \/ readLoopExpect(c) \/ readResponse(c) \/ readResponseFails(c)
        BY <1>0, <2>3, <4>1, PeekWire, ExpectWire, ReadResponseWire, ReadFailsWire
      <4>2. CASE ~(readLoopPeek(c) \/ readLoopExpect(c) \/ readResponse(c) \/ readResponseFails(c))
        BY <1>0, <2>3, <3>3, <4>2, BodyWaitWire, RecycleWire, EndWire DEF readLoop
      <4>. QED  BY <4>1, <4>2
    <3>4. ASSUME NEW c \in Conns, Server(c) PROVE WireInv'
      BY <1>0, <3>4, ServerReadWire, ServerReplyWire, ServerHintWire, ServerEndWire DEF Server
    <3>. QED  BY <2>3, <3>1, <3>2, <3>3, <3>4 DEF Next
  <2>. QED  BY <1>1, <2>1, <2>2, <2>3
<1>. QED  BY <1>1, <1>2 DEF Inv3

-----------------------------------------------------------------------------
(* Where the callers wait.                                                 *)

\* The loops of the connection have r, or r's response.
Attends(k, r) ==
    \/ Latest(k) = r /\ (k.reqch = r \/ (~Resting(k) /\ k.rc = r))
    \/ Recycled(k) /\ k.rc = r

\* The write loop has failed.
WriteFailed(k) == k.werr = "err" /\ k.wl \in {"close", "done"}

\* Nobody will use the connection again.
Spent(k) == isBroken(k) \/ (~k.idle /\ k.rl \in Ending)

\* Waiting, in these terms.
LEMMA WaitingIs ==
  ASSUME NEW r
  PROVE  Waiting(r) <=>
           LET k == conn[req[r].conn] IN
           /\ req[r].pc = "select" =>
                 /\ Attends(k, r)
                 /\ req[r].writeErrCh = "err" => Latest(k) = r /\ WriteFailed(k)
           /\ req[r].pc = "map" =>
                 /\ Latest(k) = r /\ Unclaimed(req[r].conn) /\ req[r].err # "nothingWritten"
                 /\ Spent(k)
BY DEF Waiting, Attends, WriteFailed, Spent

\* A step at c that keeps what the callers wait for.
CallMoves(c, k, kk) ==
    /\ Latest(kk) = Latest(k)
    /\ WriteFailed(k) => WriteFailed(kk)
    /\ Spent(k) => Spent(kk)
    /\ \A r \in Reqs : req[r].conn = c /\ req'[r].pc = "select" /\ Attends(k, r) => Attends(kk, r)

\* r stays where it is in persistConn.roundTrip.
Stays(r) ==
    /\ req'[r].pc = req[r].pc /\ req'[r].err = req[r].err
    /\ req'[r].writeErrCh \in {"none", req[r].writeErrCh}

\* The waiting callers after a step at c.
LEMMA WaitingStep ==
  ASSUME Inv1, NEW c \in Conns, OnlyAt(c), Calm, CallMoves(c, conn[c], conn'[c]),
         NEW s \in Reqs, Stays(s), Waiting(s)
  PROVE  Waiting(s)'
<1>. SUFFICES ASSUME req'[s].pc \in {"select", "map"} PROVE Waiting(s)'
  BY DEF Waiting
<1>. DEFINE d == req[s].conn
            k == conn[d]
            kk == conn'[d]
<1>1. /\ req'[s].conn = d /\ req'[s].pc = req[s].pc /\ req'[s].err = req[s].err
      /\ req'[s].writeErrCh \in {"none", req[s].writeErrCh}
  BY DEF Calm, Stays
<1>2. d \in Conns
  BY <1>1, AtReq DEF Placed
<1>4. /\ Latest(kk) = Latest(k) /\ (WriteFailed(k) => WriteFailed(kk)) /\ (Spent(k) => Spent(kk))
      /\ req'[s].pc = "select" /\ Attends(k, s) => Attends(kk, s)
  <2>1. CASE d = c
    BY <2>1 DEF CallMoves
  <2>2. CASE d # c
    <3>1. kk = k
      BY <1>2, <2>2 DEF OnlyAt
    <3>. QED  BY <3>1
  <2>. QED  BY <2>1, <2>2
<1>5. Unclaimed(d) => \A t \in Reqs : ~(req'[t].conn = d /\ req'[t].pc \in {"enter", "send"})
  BY <1>2 DEF Calm, Unclaimed, Pre
<1>6. /\ req[s].pc = "select" =>
            /\ Attends(k, s)
            /\ req[s].writeErrCh = "err" => Latest(k) = s /\ WriteFailed(k)
      /\ req[s].pc = "map" =>
            /\ Latest(k) = s /\ Unclaimed(d) /\ req[s].err # "nothingWritten"
            /\ Spent(k)
  BY WaitingIs
<1>. HIDE DEF k, kk, d
<1>7. /\ req'[s].pc = "select" =>
            /\ Attends(kk, s)
            /\ req'[s].writeErrCh = "err" => Latest(kk) = s /\ WriteFailed(kk)
      /\ req'[s].pc = "map" =>
            /\ Latest(kk) = s /\ req'[s].err # "nothingWritten"
            /\ Spent(kk)
            /\ \A t \in Reqs : ~(req'[t].conn = d /\ req'[t].pc \in {"enter", "send"})
  BY <1>1, <1>4, <1>5, <1>6
<1>. QED  BY <1>1, <1>7, SMTT(30) DEF Waiting, Attends, WriteFailed, Spent, Unclaimed, Pre, kk, d, Latest, Resting, Recycled, isBroken

\* The callers after a step at c.
LEMMA CallStep ==
  ASSUME Inv1, CallInv, NEW c \in Conns, OnlyAt(c), Calm, CallMoves(c, conn[c], conn'[c]),
         \A s \in Reqs : Stays(s) \/ (req[s].pc = "select" /\ Waiting(s)'),
         LET kk == conn'[c] IN
         kk.rl = "bodyWait" \/ (kk.rl \in Finishing /\ kk.resp.body) =>
            ~(req'[kk.rc].conn = c /\ req'[kk.rc].pc \in {"select", "map"})
  PROVE  CallInv'
<1>1. ASSUME NEW s \in Reqs PROVE Waiting(s)'
  BY WaitingStep DEF CallInv
<1>2. ASSUME NEW d \in Conns PROVE Returned(d)'
  <2>1. CASE d = c
    BY <2>1 DEF Returned
  <2>2. CASE d # c
    <3>. DEFINE k == conn[d]
    <3>1. conn'[d] = k /\ Returned(d) /\ k \in ConnType /\ Good(k)
      BY <2>2, AtConn DEF OnlyAt, CallInv
    <3>. SUFFICES ASSUME k.rl = "bodyWait" \/ (k.rl \in Finishing /\ k.resp.body)
                  PROVE  ~(req'[k.rc].conn = d /\ req'[k.rc].pc \in {"select", "map"})
      BY <3>1 DEF Returned
    <3>2. k.rc \in Reqs
      BY <3>1 DEF Good, OneUse, Resting, Recycled, Ending, Finishing, ConnType, MaybeReq
    <3>3. ~(req[k.rc].conn = d /\ req[k.rc].pc \in {"select", "map"})
      BY <3>1 DEF Returned
    <3>4. req'[k.rc].conn = req[k.rc].conn
      BY <3>2 DEF Calm
    <3>5. req'[k.rc].pc \in {"select", "map"} => req[k.rc].pc \in {"select", "map"}
      BY <3>2 DEF Stays
    <3>. QED  BY <3>3, <3>4, <3>5
  <2>. QED  BY <2>1, <2>2
<1>. QED  BY <1>1, <1>2 DEF CallInv

\* The callers after a step that changes no connection.
LEMMA NoCallStep ==
  ASSUME Inv1, CallInv, conn' = conn, Calm,
         \A s \in Reqs : Stays(s) \/ req'[s].pc \notin {"select", "map"}
  PROVE  CallInv'
<1>1. ASSUME NEW s \in Reqs PROVE Waiting(s)'
  <2>1. CASE req'[s].pc \notin {"select", "map"}
    BY <2>1 DEF Waiting
  <2>2. CASE req'[s].pc \in {"select", "map"}
    <3>1. /\ req'[s].conn = req[s].conn /\ req'[s].pc = req[s].pc /\ req'[s].err = req[s].err
          /\ req'[s].writeErrCh \in {"none", req[s].writeErrCh} /\ req[s].conn \in Conns
      BY <2>2, AtReq DEF Calm, Stays, Placed
    <3>2. Unclaimed(req[s].conn) => Unclaimed(req[s].conn)'
      BY <3>1 DEF Calm, Unclaimed, Pre
    <3>3. Waiting(s)
      BY DEF CallInv
    <3>. QED  BY <3>1, <3>2, <3>3 DEF Waiting, isBroken, Latest, Resting, Recycled
  <2>. QED  BY <2>1, <2>2
<1>2. ASSUME NEW d \in Conns PROVE Returned(d)'
  <2>. DEFINE k == conn[d]
  <2>1. Returned(d) /\ k \in ConnType /\ Good(k)
    BY AtConn DEF CallInv
  <2>. SUFFICES ASSUME k.rl = "bodyWait" \/ (k.rl \in Finishing /\ k.resp.body)
                PROVE  ~(req'[k.rc].conn = d /\ req'[k.rc].pc \in {"select", "map"})
    BY DEF Returned
  <2>2. k.rc \in Reqs
    BY <2>1 DEF Good, OneUse, Resting, Recycled, Ending, Finishing, ConnType, MaybeReq
  <2>3. ~(req[k.rc].conn = d /\ req[k.rc].pc \in {"select", "map"})
    BY <2>1 DEF Returned
  <2>4. req'[k.rc].conn = req[k.rc].conn
    BY <2>2 DEF Calm
  <2>5. req'[k.rc].pc \in {"select", "map"} => req[k.rc].pc \in {"select", "map"}
    BY <2>2 DEF Stays
  <2>. QED  BY <2>3, <2>4, <2>5
<1>. QED  BY <1>1, <1>2 DEF CallInv

\* The steps of the read loop.
LEMMA ReaderCalls ==
  ASSUME Inv1, CallInv, NEW c \in Conns, readLoop(c) \/ closeConnIfStillIdle(c), Calm PROVE CallInv'
<1>. DEFINE k == conn[c]
            kk == conn'[c]
            Back(j) == j.rl = "bodyWait" \/ (j.rl \in Finishing /\ j.resp.body)
            Called(r) == req[r].conn = c /\ req[r].pc \in {"select", "map"}
<1>1. k \in ConnType /\ Good(k) /\ (k.rc \in Reqs \/ k.rc = NoReq)
  BY AtConn DEF ConnType, MaybeReq
<1>2. Back(k) => ~Called(k.rc)
  BY DEF CallInv, Returned
<1>3. /\ k.reqch # NoReq => Resting(k)
      /\ ~Resting(k) => ~k.idle /\ k.rc # NoReq
      /\ k.rl \in Finishing \cup {"bodyWait"} => k.resp # ErrResp
  BY <1>1, MessageFacts DEF Good, OneUse, Reading, Finishing
<1>4. NoReq \notin Reqs
  BY ExchangeAssumption
<1>5. ASSUME OnlyAt(c), Untouched, SameWriter(k, kk),
             ~k.idle /\ k.rl \in Ending => ~kk.idle /\ kk.rl \in Ending,
             \A r \in Reqs : Called(r) /\ Attends(k, r) => Attends(kk, r),
             Back(kk) => Back(k) /\ kk.rc = k.rc
      PROVE  CallInv'
  <2>1. Latest(kk) = Latest(k)
    BY <1>5, WriterLatest
  <2>2. CallMoves(c, k, kk)
    <3>1. (WriteFailed(k) => WriteFailed(kk)) /\ (Spent(k) => Spent(kk))
      BY <1>5 DEF WriteFailed, Spent, SameWriter
    <3>2. \A r \in Reqs : req[r].conn = c /\ req'[r].pc = "select" /\ Attends(k, r) => Attends(kk, r)
      BY <1>5 DEF Untouched
    <3>. QED  BY <2>1, <3>1, <3>2 DEF CallMoves
  <2>3. \A s \in Reqs : Stays(s)
    BY <1>5 DEF Untouched, Stays
  <2>4. Back(kk) => ~(req'[kk.rc].conn = c /\ req'[kk.rc].pc \in {"select", "map"})
    <3>. SUFFICES ASSUME Back(kk) PROVE ~(req'[kk.rc].conn = c /\ req'[kk.rc].pc \in {"select", "map"})
      OBVIOUS
    <3>1. kk.rc = k.rc /\ ~Called(k.rc)
      BY <1>2, <1>5
    <3>2. k.rc \in Reqs
      BY <1>1, <1>3, <1>5 DEF Resting, Recycled, Finishing, Ending
    <3>. QED  BY <1>5, <3>1, <3>2 DEF Untouched
  <2>. QED  BY <1>5, <2>2, <2>3, <2>4, CallStep
<1>. HIDE DEF k, kk
<1>6. CASE readLoopPeek(c)
  <2>1. /\ LoopAt(c) /\ k.rl = "peek" /\ kk.rl = "peeked" /\ kk.reqch = k.reqch
    BY <1>6, PeekDoes DEF k, kk
  <2>2. Latest(kk) = Latest(k)
    BY <2>1, WriterLatest DEF LoopAt, k, kk
  <2>3. \A r \in Reqs : Attends(k, r) => Attends(kk, r)
    BY <2>1, <2>2 DEF Attends, Resting, Recycled
  <2>. QED  BY <1>5, <2>1, <2>3 DEF LoopAt, Ending, Finishing, k, kk
<1>7. CASE readLoopExpect(c)
  <2>1. /\ LoopAt(c) /\ k.rl = "peeked"
        /\ \/ kk.rl = "exit" /\ kk.reqch = k.reqch
           \/ /\ k.reqch # NoReq /\ kk.reqch = NoReq /\ kk.rc = k.reqch
              /\ kk.rl = "response" \/ (kk.rl = "deliver" /\ kk.resp = ErrResp)
    BY <1>7, ExpectDoes DEF k, kk
  <2>2. Latest(kk) = Latest(k)
    BY <2>1, WriterLatest DEF LoopAt, k, kk
  <2>3. Resting(k) /\ ~Recycled(k) /\ (kk.rl # "exit" => ~Resting(kk))
    BY <2>1 DEF Resting, Recycled, Ending
  <2>4. \A r \in Reqs : Attends(k, r) => Attends(kk, r)
    BY <2>1, <2>2, <2>3 DEF Attends
  <2>. QED  BY <1>5, <2>1, <2>4 DEF LoopAt, Ending, Finishing, k, kk
<1>8. CASE readResponse(c)
  <2>1. /\ k.rl = "response" /\ OnlyAt(c) /\ req' = req
        /\ kk.writech = k.writech /\ kk.wl = k.wl /\ kk.wr = k.wr /\ kk.wrote = k.wrote
        /\ kk.werr = k.werr /\ kk.open = k.open /\ kk.closed = k.closed /\ kk.rc = k.rc
    BY <1>8, ReadResponseDoes DEF k, kk
  <2>2. \/ kk.rl = "response"
        \/ kk.rl = "deliver" /\ kk.resp = ErrResp
        \/ kk.rl = "deliver" /\ kk.resp.body
        \/ kk.rl = "recycle" /\ ~kk.resp.body
    BY <1>8, ReadResponseDoes DEF k, kk
  <2>3. SameWriter(k, kk) /\ Untouched
    BY <2>1, UntouchedReq DEF SameWriter, isBroken
  <2>4. Latest(kk) = Latest(k)
    BY <2>3, WriterLatest
  <2>5. ~Resting(k) /\ ~Resting(kk) /\ ~Recycled(k)
    BY <2>1, <2>2 DEF Resting, Recycled, Ending
  <2>6. \A r \in Reqs : Attends(k, r) => Attends(kk, r)
    BY <1>3, <1>4, <2>1, <2>4, <2>5 DEF Attends
  <2>. QED  BY <1>5, <2>1, <2>2, <2>3, <2>6 DEF Ending, Finishing
<1>9. CASE readResponseFails(c)
  <2>1. LoopAt(c) /\ k.rl = "response" /\ kk.rl = "deliver" /\ kk.resp = ErrResp /\ kk.rc = k.rc
    BY <1>9, ReadFailsDoes DEF k, kk
  <2>2. Latest(kk) = Latest(k)
    BY <2>1, WriterLatest DEF LoopAt, k, kk
  <2>3. ~Resting(k) /\ ~Resting(kk) /\ ~Recycled(k)
    BY <2>1 DEF Resting, Recycled, Ending
  <2>4. \A r \in Reqs : Attends(k, r) => Attends(kk, r)
    BY <1>3, <1>4, <2>1, <2>2, <2>3 DEF Attends
  <2>. QED  BY <1>5, <2>1, <2>4 DEF LoopAt, Ending, Finishing, k, kk
<1>10. CASE readLoopCallerGone(c) \/ readLoopExit(c) \/ readLoopClose(c) \/ removeIdleConn(c)
  <2>1. /\ LoopAt(c) /\ kk.rl \in Ending /\ kk.reqch = k.reqch
        /\ kk.idle => k.idle
        /\ k.rl \in Ending \/ (k.rl = "deliver" /\ ~Called(k.rc))
    BY <1>10, EndDoes DEF k, kk
  <2>2. Latest(kk) = Latest(k)
    BY <2>1, WriterLatest DEF LoopAt, k, kk
  <2>3. \A r \in Reqs : Called(r) /\ Attends(k, r) => Attends(kk, r)
    <3>1. CASE k.rl \in Ending
      BY <2>1, <2>2, <3>1 DEF Attends, Resting, Recycled, Ending
    <3>2. CASE ~Called(k.rc)
      BY <2>1, <2>2, <3>2 DEF Attends
    <3>. QED  BY <2>1, <3>1, <3>2
  <2>4. kk.rl \notin Finishing \cup {"bodyWait"}
    BY <2>1 DEF Ending, Finishing
  <2>. QED  BY <1>5, <2>1, <2>3, <2>4 DEF LoopAt, k, kk
<1>11. CASE closeConnIfStillIdle(c)
  <2>1. LoopAt(c) /\ SameReader(k, kk)
    BY <1>11, CloseIdleDoes DEF k, kk
  <2>2. Latest(kk) = Latest(k)
    BY <2>1, WriterLatest DEF LoopAt, k, kk
  <2>3. Recycled(kk) = Recycled(k) /\ Resting(kk) = Resting(k)
    BY <2>1 DEF SameReader, Recycled, Resting
  <2>4. \A r \in Reqs : Attends(k, r) => Attends(kk, r)
    BY <2>1, <2>2, <2>3 DEF Attends, SameReader
  <2>. QED  BY <1>5, <2>1, <2>4 DEF LoopAt, SameReader, k, kk
<1>12. CASE readLoopBodyWait(c)
  <2>1. /\ LoopAt(c) /\ k.rl = "bodyWait" /\ kk.rc = k.rc
        /\ (kk.rl = "recycle" /\ kk.resp = k.resp) \/ kk.rl = "exit"
    BY <1>12, BodyWaitDoes DEF k, kk
  <2>2. ~Resting(k) /\ ~Recycled(k) /\ Back(k)
    BY <2>1 DEF Resting, Recycled, Ending
  <2>3. \A r \in Reqs : ~(Called(r) /\ Attends(k, r))
    BY <1>2, <1>3, <1>4, <2>2 DEF Attends
  <2>4. k.rl \notin Ending
    BY <2>1 DEF Ending
  <2>. HIDE DEF Back, Called
  <2>. QED  BY <1>5, <2>1, <2>2, <2>3, <2>4 DEF LoopAt, k, kk
<1>13. CASE wroteRequest(c) \/ tryPutIdleConnCheck(c) \/ tryPutIdleConn(c)
  <2>1. /\ LoopAt(c) /\ k.rl \in Finishing /\ kk.reqch = k.reqch /\ kk.rc = k.rc
        /\ kk.resp = k.resp
        /\ \/ kk.rl \in {"put", "putLocked"}
           \/ /\ kk.rl = IF k.resp.body THEN "exit" ELSE "deliver"
              /\ kk.alive = FALSE
           \/ /\ kk.rl = IF k.resp.body THEN "peek" ELSE "deliver"
              /\ kk.alive = TRUE
    BY <1>13, RecycleDoes DEF k, kk
  <2>2. Latest(kk) = Latest(k)
    BY <2>1, WriterLatest DEF LoopAt, k, kk
  <2>3. ~Resting(k) /\ ~Recycled(k) /\ k.resp # ErrResp /\ k.rl \notin Ending
    BY <1>3, <2>1 DEF Resting, Recycled, Ending, Finishing
  <2>4. ASSUME NEW r \in Reqs, Called(r), Attends(k, r) PROVE Attends(kk, r)
    <3>1. Latest(k) = r /\ k.rc = r
      BY <1>3, <1>4, <2>3, <2>4 DEF Attends
    <3>2. ~k.resp.body
      BY <1>2, <2>1, <2>4, <3>1
    <3>3. Recycled(kk) \/ ~Resting(kk)
      BY <2>1, <2>3, <3>2 DEF Resting, Recycled, Ending
    <3>. QED  BY <2>1, <2>2, <3>1, <3>3 DEF Attends
  <2>5. Back(kk) => Back(k) /\ kk.rc = k.rc
    BY <2>1 DEF Finishing
  <2>. HIDE DEF Back, Called
  <2>. QED  BY <1>5, <2>1, <2>3, <2>4, <2>5 DEF LoopAt, k, kk
<1>. QED  BY <1>6, <1>7, <1>8, <1>9, <1>10, <1>11, <1>12, <1>13 DEF readLoop

\* The steps of the write loop.
LEMMA WriterCalls ==
  ASSUME Inv2, CallInv, NEW c \in Conns, writeLoop(c), Calm PROVE CallInv'
<1>. DEFINE k == conn[c]
            kk == conn'[c]
<1>0. Inv1
  BY DEF Inv2
<1>1. k \in ConnType /\ Good(k) /\ Returned(c)
  BY <1>0, AtConn DEF CallInv
<1>2. WriterAt(c)
  BY <1>0, NoWriteDoes, WriteDoes DEF writeLoop
<1>3. WriteFailed(k) => WriteFailed(kk)
  <2>. SUFFICES ASSUME WriteFailed(k) PROVE WriteFailed(kk)
    OBVIOUS
  <2>1. k.wl \in {"close", "done"} /\ k.werr = "err"
    BY DEF WriteFailed
  <2>2. ~(writeRequestHead(c) \/ writeRequestBody(c) \/ writeRequestFails(c))
    BY <2>1 DEF writeRequestHead, writeRequestBody, writeRequestFails
  <2>3. writeLoopSelect(c) \/ waitForContinue(c) \/ writeLoopReport(c) \/ writeLoopClose(c)
    BY <2>2 DEF writeLoop
  <2>4. kk.wl = "done" /\ kk.werr = k.werr
    BY <1>0, <2>1, <2>3, NoWriteDoes
  <2>. QED  BY <2>1, <2>4 DEF WriteFailed
<1>. HIDE DEF k, kk
<1>4. SameReader(k, kk) /\ kk.idle = k.idle /\ Latest(kk) = Latest(k) /\ (isBroken(k) => isBroken(kk)) /\ OnlyAt(c)
  BY <1>2 DEF WriterAt, k, kk
<1>5. Recycled(kk) = Recycled(k) /\ Resting(kk) = Resting(k)
  BY <1>4 DEF SameReader, Recycled, Resting
<1>6. CallMoves(c, k, kk)
  BY <1>3, <1>4, <1>5 DEF CallMoves, Attends, Spent, SameReader
<1>7. ASSUME NEW s \in Reqs PROVE Stays(s) \/ (req[s].pc = "select" /\ Waiting(s)')
  <2>1. req'[s].pc = req[s].pc /\ req'[s].err = req[s].err /\ req'[s].conn = req[s].conn
    BY <1>2 DEF WriterAt
  <2>2. CASE req'[s].writeErrCh = req[s].writeErrCh
    BY <2>1, <2>2 DEF Stays
  <2>3. CASE req'[s].writeErrCh # req[s].writeErrCh
    <3>1. ~(writeRequestHead(c) \/ writeRequestBody(c) \/ writeRequestFails(c))
      BY <2>3, WriteDoes
    <3>2. writeLoopSelect(c) \/ waitForContinue(c) \/ writeLoopReport(c) \/ writeLoopClose(c)
      BY <3>1 DEF writeLoop
    <3>3. /\ k.wl = "report" /\ kk.werr = k.werr
          /\ kk.wl = IF k.werr = "nil" THEN "idle" ELSE "close"
          /\ kk.writech = k.writech /\ kk.wr = k.wr
          /\ s = k.wr /\ req[s].conn = c /\ req[s].pc = "select" /\ req'[s].writeErrCh = k.werr
      BY <1>0, <2>3, <3>2, NoWriteDoes DEF k, kk
    <3>4. k.writech = NoReq
      BY <1>1, <3>3 DEF Good, WriteStages
    <3>5. Latest(kk) = s /\ (req'[s].writeErrCh = "err" => WriteFailed(kk))
      BY <3>3, <3>4 DEF Latest, WriteFailed
    <3>6. Attends(k, s)
      BY <3>3, WaitingIs DEF CallInv, k
    <3>7. Attends(kk, s)
      BY <1>6, <2>1, <3>3, <3>6 DEF CallMoves
    <3>. QED  BY <2>1, <3>3, <3>5, <3>7 DEF Waiting, Attends, WriteFailed, kk, Latest, Resting, Recycled
  <2>. QED  BY <2>2, <2>3
<1>8. kk.rl = "bodyWait" \/ (kk.rl \in Finishing /\ kk.resp.body) =>
            ~(req'[kk.rc].conn = c /\ req'[kk.rc].pc \in {"select", "map"})
  <2>. SUFFICES ASSUME kk.rl = "bodyWait" \/ (kk.rl \in Finishing /\ kk.resp.body)
                PROVE  ~(req'[kk.rc].conn = c /\ req'[kk.rc].pc \in {"select", "map"})
    OBVIOUS
  <2>1. kk.rc = k.rc /\ (k.rl = "bodyWait" \/ (k.rl \in Finishing /\ k.resp.body))
    BY <1>4 DEF SameReader
  <2>2. ~(req[k.rc].conn = c /\ req[k.rc].pc \in {"select", "map"})
    BY <1>1, <2>1 DEF Returned, k
  <2>3. k.rc \in Reqs
    BY <1>1, <2>1 DEF Good, OneUse, Resting, Recycled, Ending, Finishing, ConnType, MaybeReq
  <2>. QED  BY <1>2, <2>1, <2>2, <2>3 DEF WriterAt
<1>. QED  BY <1>0, <1>4, <1>6, <1>7, <1>8, CallStep DEF k, kk

\* The user of a response.
LEMMA UserCalls ==
  ASSUME Inv1, CallInv, NEW r \in Reqs, User(r), Calm PROVE CallInv'
<1>. DEFINE c == req[r].conn
            k == conn[c]
            kk == conn'[c]
<1>1. /\ c \in Conns /\ OnlyAt(c) /\ SameWriter(k, kk)
      /\ kk.rl = k.rl /\ kk.rc = k.rc /\ kk.reqch = k.reqch /\ kk.resp = k.resp /\ kk.alive = k.alive
      /\ kk.idle = k.idle
      /\ \A s \in Reqs : s # r => req'[s] = req[s]
      /\ req'[r].pc = req[r].pc /\ req'[r].conn = c /\ req'[r].err = req[r].err
      /\ req'[r].writeErrCh = req[r].writeErrCh
  BY UserDoes
<1>2. k \in ConnType /\ Good(k) /\ Returned(c)
  BY <1>1, AtConn DEF CallInv
<1>3. Latest(kk) = Latest(k)
  BY <1>1, WriterLatest
<1>. HIDE DEF k, kk
<1>4. Recycled(kk) = Recycled(k) /\ Resting(kk) = Resting(k)
  BY <1>1 DEF Recycled, Resting
<1>5. CallMoves(c, k, kk)
  BY <1>1, <1>3, <1>4 DEF CallMoves, Attends, Spent, WriteFailed, SameWriter
<1>6. \A s \in Reqs : Stays(s) /\ req'[s].conn = req[s].conn
  BY <1>1 DEF Stays
<1>7. kk.rl = "bodyWait" \/ (kk.rl \in Finishing /\ kk.resp.body) =>
            ~(req'[kk.rc].conn = c /\ req'[kk.rc].pc \in {"select", "map"})
  <2>. SUFFICES ASSUME k.rl = "bodyWait" \/ (k.rl \in Finishing /\ k.resp.body)
                PROVE  ~(req'[k.rc].conn = c /\ req'[k.rc].pc \in {"select", "map"})
    BY <1>1
  <2>1. ~(req[k.rc].conn = c /\ req[k.rc].pc \in {"select", "map"})
    BY <1>2 DEF Returned, k
  <2>2. k.rc \in Reqs
    BY <1>2 DEF Good, OneUse, Resting, Recycled, Ending, Finishing, ConnType, MaybeReq
  <2>. QED  BY <1>6, <2>1, <2>2 DEF Stays
<1>8. PICK d \in Conns : d = c
  BY <1>1
<1>. HIDE DEF c
<1>. QED  BY <1>1, <1>5, <1>6, <1>7, <1>8, CallStep DEF k, kk

\* One round of the select of persistConn.roundTrip.
LEMMA SelectCalls ==
  ASSUME Inv1, CallInv, NEW r \in Reqs, roundTripSelect(r), Calm PROVE CallInv'
<1>. DEFINE c == req[r].conn
            k == conn[c]
            kk == conn'[c]
            q == req[r]
            qq == req'[r]
<1>1. /\ c \in Conns /\ q.pc = "select" /\ OnlyAt(c)
      /\ \A s \in Reqs : s # r => req'[s] = req[s]
      /\ qq.conn = c /\ SameWriter(k, kk)
      /\ kk.reqch = k.reqch /\ kk.rc = k.rc /\ kk.resp = k.resp /\ kk.alive = k.alive /\ kk.idle = k.idle
  BY SelectDoes
<1>2. \/ /\ qq.pc \in {"select", "map", "failed"} /\ kk.rl = k.rl
         /\ qq.writeErrCh \in {"none", q.writeErrCh}
         /\ qq.pc = "map" => /\ qq.err # "nothingWritten" /\ isBroken(kk)
                             /\ q.writeErrCh = "err" \/ ~Offers(c, r)
      \/ /\ k.rl = "deliver" /\ k.rc = r /\ k.resp = ErrResp /\ kk.rl = "exit"
         /\ qq.pc = "map" /\ qq.err # "nothingWritten"
      \/ /\ k.rl = "deliver" /\ k.rc = r /\ k.resp # ErrResp
         /\ kk.rl = IF k.resp.body THEN "bodyWait" ELSE IF k.alive THEN "peek" ELSE "exit"
         /\ qq.pc = "done"
  BY SelectDoes
<1>3. k \in ConnType /\ Good(k) /\ Returned(c)
  BY <1>1, AtConn DEF CallInv
<1>4. Latest(kk) = Latest(k)
  BY <1>1, WriterLatest
<1>5. /\ Attends(k, r)
      /\ q.writeErrCh = "err" => Latest(k) = r /\ WriteFailed(k)
  BY <1>1, WaitingIs DEF CallInv
<1>6. Offers(c, r) <=> k.rl = "deliver" /\ k.rc = r
  BY DEF Offers
<1>7. /\ k.reqch # NoReq => Resting(k)
      /\ ~Resting(k) => ~k.idle
      /\ r # NoReq
  BY <1>3, ExchangeAssumption DEF Good, OneUse
<1>8. \A s \in Reqs : Pre(c, s) => Fit(k)
  BY <1>1 DEF Inv1, LaneInv, Claim
<1>. HIDE DEF k, kk, qq
<1>9. (WriteFailed(k) => WriteFailed(kk)) /\ (isBroken(k) => isBroken(kk))
  BY <1>1 DEF WriteFailed, SameWriter
<1>10. kk.rl # k.rl => k.rl = "deliver" /\ k.rc = r
  BY <1>2
<1>11. kk.rl = k.rl => Recycled(kk) = Recycled(k) /\ Resting(kk) = Resting(k)
  BY <1>1 DEF Recycled, Resting
<1>12. ASSUME NEW s \in Reqs, s # r \/ kk.rl = k.rl, Attends(k, s) PROVE Attends(kk, s)
  <2>1. CASE kk.rl = k.rl
    BY <1>1, <1>4, <1>11, <1>12, <2>1 DEF Attends
  <2>2. CASE k.rc # s
    BY <1>1, <1>4, <1>12, <2>2 DEF Attends
  <2>. QED  BY <1>10, <1>12, <2>1, <2>2
<1>13. Spent(k) => Spent(kk)
  BY <1>1, <1>2, <1>9 DEF Spent, Ending
<1>14. CallMoves(c, k, kk)
  <2>1. \A s \in Reqs : req[s].conn = c /\ req'[s].pc = "select" /\ Attends(k, s) => Attends(kk, s)
    BY <1>2, <1>12 DEF qq
  <2>. QED  BY <1>4, <1>9, <1>13, <2>1 DEF CallMoves
<1>15. qq.pc = "map" => Latest(kk) = r /\ Spent(kk) /\ qq.err # "nothingWritten" /\ Unclaimed(c)
  <2>. SUFFICES ASSUME qq.pc = "map"
                PROVE  Latest(kk) = r /\ Spent(kk) /\ qq.err # "nothingWritten" /\ Unclaimed(c)
    OBVIOUS
  <2>1. Latest(kk) = r
    <3>1. Recycled(k) /\ k.rc = r => Offers(c, r) /\ k.resp # ErrResp
      BY <1>6 DEF Recycled
    <3>. QED  BY <1>2, <1>4, <1>5, <3>1 DEF Attends
  <2>2. ~Fit(k)
    <3>. SUFFICES ASSUME Fit(k) PROVE FALSE
      OBVIOUS
    <3>1. Resting(k) /\ k.reqch = NoReq /\ k.werr = "nil"
      BY DEF Fit
    <3>2. Recycled(k) /\ k.rc = r
      BY <1>5, <1>7, <3>1 DEF Attends
    <3>3. Offers(c, r) /\ k.resp # ErrResp
      BY <1>6, <3>2 DEF Recycled
    <3>4. WriteFailed(k)
      BY <1>2, <1>5, <3>3
    <3>. QED  BY <3>1, <3>4 DEF WriteFailed
  <2>3. Unclaimed(c)
    BY <1>8, <2>2 DEF Unclaimed
  <2>4. Spent(kk)
    <3>1. CASE isBroken(kk)
      BY <3>1 DEF Spent
    <3>2. CASE ~isBroken(kk)
      <4>1. k.rl = "deliver" /\ k.resp = ErrResp /\ kk.rl = "exit"
        BY <1>2, <3>2
      <4>2. ~Resting(k)
        BY <4>1 DEF Resting, Recycled, Ending
      <4>. QED  BY <1>1, <1>7, <4>1, <4>2 DEF Spent, Ending
    <3>. QED  BY <3>1, <3>2
  <2>. QED  BY <1>2, <2>1, <2>3, <2>4
<1>16. Waiting(r)'
  <2>1. qq.pc = "select" =>
            /\ Attends(kk, r)
            /\ qq.writeErrCh = "err" => Latest(kk) = r /\ WriteFailed(kk)
    BY <1>2, <1>4, <1>5, <1>9, <1>12
  <2>2. Unclaimed(c) => \A t \in Reqs : ~(req'[t].conn = c /\ req'[t].pc \in {"enter", "send"})
    BY <1>1 DEF Calm, Unclaimed, Pre
  <2>. HIDE DEF c
  <2>. QED  BY <1>1, <1>15, <2>1, <2>2 DEF Waiting, Attends, WriteFailed, Spent, Unclaimed, Pre, kk, qq, Latest, Resting, Recycled, isBroken
<1>17. \A s \in Reqs : Stays(s) \/ (req[s].pc = "select" /\ Waiting(s)')
  BY <1>1, <1>16 DEF Stays
<1>18. kk.rl = "bodyWait" \/ (kk.rl \in Finishing /\ kk.resp.body) =>
            ~(req'[kk.rc].conn = c /\ req'[kk.rc].pc \in {"select", "map"})
  <2>. SUFFICES ASSUME kk.rl = "bodyWait" \/ (kk.rl \in Finishing /\ kk.resp.body)
                PROVE  ~(req'[kk.rc].conn = c /\ req'[kk.rc].pc \in {"select", "map"})
    OBVIOUS
  <2>1. CASE kk.rl # k.rl
    BY <1>1, <1>2, <2>1 DEF Finishing, qq
  <2>2. CASE kk.rl = k.rl
    <3>1. ~(req[k.rc].conn = c /\ req[k.rc].pc \in {"select", "map"})
      BY <1>1, <1>3, <2>2 DEF Returned, k
    <3>2. k.rc \in Reqs
      BY <1>1, <1>3, <2>2 DEF Good, OneUse, Resting, Recycled, Ending, Finishing, ConnType, MaybeReq
    <3>3. k.rc # r
      BY <1>1, <3>1
    <3>. QED  BY <1>1, <3>1, <3>2, <3>3
  <2>. QED  BY <2>1, <2>2
<1>19. PICK d \in Conns : d = c
  BY <1>1
<1>. HIDE DEF c
<1>. QED  BY <1>1, <1>14, <1>17, <1>18, <1>19, CallStep DEF k, kk

\* The callers without a connection.
LEMMA CallerCalls ==
  ASSUME Inv1, CallInv, NEW r \in Reqs, Calm,
         \/ roundTripReject(r) \/ roundTripCached(r) \/ roundTripCachedEnd(r)
         \/ mapRoundTripError(r) \/ roundTripFailed(r)
  PROVE  CallInv'
<1>1. conn' = conn /\ Alone(r) /\ req'[r].pc \notin {"select", "map"}
  BY CallerDoes DEF Ends
<1>2. \A s \in Reqs : Stays(s) \/ req'[s].pc \notin {"select", "map"}
  BY <1>1 DEF Alone, Stays
<1>. QED  BY <1>1, <1>2, NoCallStep

\* A caller gives up waiting.
LEMMA CancelCalls ==
  ASSUME Inv1, CallInv, NEW r \in Reqs, Calm, Cancel(r) PROVE CallInv'
<1>1. conn' = conn /\ req \in [Reqs -> ReqType]
  BY DEF Cancel, Inv1, TypeOK
<1>2. \A s \in Reqs : Stays(s)
  BY <1>1 DEF Cancel, Stays, ReqType
<1>. QED  BY <1>1, <1>2, NoCallStep

\* Who takes a connection leaves the other callers their own.
LEMMA TakesCalls ==
  ASSUME Inv1, CallInv, NEW r \in Reqs, NEW c \in Conns, Alone(r),
         \A d \in Conns : d # c => conn'[d] = conn[d],
         req'[r].conn = c, Waiting(r)',
         LET k == conn[c]
             kk == conn'[c]
         IN
         /\ Fit(k) \/ ~k.open
         /\ kk.rl = k.rl /\ kk.rc = k.rc /\ kk.resp = k.resp /\ kk.alive = k.alive,
         \A s \in Reqs : s # r /\ req[s].conn = c => req[s].pc # "map"
  PROVE  CallInv'
<1>. DEFINE k == conn[c]
            kk == conn'[c]
<1>1. k \in ConnType /\ Good(k) /\ (~k.open => k = NewConn)
  BY AtConn DEF Inv1, LaneInv, Unopened
<1>2. /\ Resting(k) /\ k.reqch = NoReq /\ k.werr = "nil" /\ NoReq \notin Reqs
      /\ k.rl \notin Finishing \cup {"bodyWait"}
  BY <1>1, ExchangeAssumption DEF Fit, NewConn, Resting, Recycled, Finishing, Ending
<1>3. Recycled(kk) = Recycled(k)
  BY DEF Recycled
<1>4. ASSUME NEW s \in Reqs, s # r PROVE Waiting(s)'
  <2>. SUFFICES ASSUME req[s].pc \in {"select", "map"} PROVE Waiting(s)'
    BY <1>4 DEF Alone, Waiting
  <2>. DEFINE d == req[s].conn
  <2>1. req'[s] = req[s] /\ d \in Conns
    BY <1>4, AtReq DEF Alone, Placed
  <2>2. Waiting(s)
    BY DEF CallInv
  <2>3. CASE d = c
    <3>1. req[s].pc = "select"
      BY <1>4, <2>3
    <3>2. Attends(k, s) /\ (req[s].writeErrCh = "err" => WriteFailed(k))
      BY <2>2, <2>3, <3>1, WaitingIs
    <3>3. Recycled(kk) /\ kk.rc = s
      BY <1>2, <1>3, <3>2 DEF Attends
    <3>4. req[s].writeErrCh # "err"
      BY <1>2, <3>2 DEF WriteFailed
    <3>. HIDE DEF kk
    <3>. QED  BY <2>1, <2>3, <3>1, <3>3, <3>4 DEF Waiting, Recycled, kk
  <2>4. CASE d # c
    <3>1. conn'[d] = conn[d]
      BY <2>1, <2>4
    <3>2. Unclaimed(d) => Unclaimed(d)'
      <4>. SUFFICES ASSUME Unclaimed(d), NEW t \in Reqs, req'[t].conn = d, req'[t].pc \in {"enter", "send"}
                    PROVE  FALSE
        BY <2>1 DEF Unclaimed, Pre
      <4>1. t # r
        BY <2>4
      <4>. QED  BY <4>1 DEF Alone, Unclaimed, Pre
    <3>. QED  BY <2>1, <2>2, <3>1, <3>2 DEF Waiting, isBroken, Latest, Resting, Recycled
  <2>. QED  BY <2>3, <2>4
<1>5. ASSUME NEW d \in Conns PROVE Returned(d)'
  <2>1. CASE d = c
    BY <1>2, <2>1 DEF Returned
  <2>2. CASE d # c
    <3>. DEFINE j == conn[d]
    <3>1. conn'[d] = j /\ Returned(d) /\ j \in ConnType /\ Good(j)
      BY <2>2, AtConn DEF CallInv
    <3>. SUFFICES ASSUME j.rl = "bodyWait" \/ (j.rl \in Finishing /\ j.resp.body)
                  PROVE  ~(req'[j.rc].conn = d /\ req'[j.rc].pc \in {"select", "map"})
      BY <3>1 DEF Returned
    <3>2. j.rc \in Reqs
      BY <3>1 DEF Good, OneUse, Resting, Recycled, Ending, Finishing, ConnType, MaybeReq
    <3>3. ~(req[j.rc].conn = d /\ req[j.rc].pc \in {"select", "map"})
      BY <3>1 DEF Returned
    <3>. QED  BY <2>2, <3>2, <3>3 DEF Alone
  <2>. QED  BY <2>1, <2>2
<1>. QED  BY <1>4, <1>5 DEF CallInv

\* A caller that leaves without a connection.
LEMMA LeaveCalm ==
  ASSUME Inv1, NEW r \in Reqs, getConn(r), conn' = conn, Ends(r, "error"), req'[r].conn = req[r].conn
  PROVE  Calm
<1>1. Inv1' /\ Alone(r)
  BY GetConnLane, GetConnDoes
<1>2. req' \in [Reqs -> ReqType] /\ \A s \in Reqs : Placed(req'[s])
  BY <1>1 DEF Inv1, TypeOK, LaneInv
<1>. QED  BY <1>1, <1>2 DEF Calm, Ends, Alone

\* A caller that waits does not lose its connection to another one.
LEMMA GetConnCalls ==
  ASSUME Inv1, CallInv, NEW r \in Reqs, getConn(r) PROVE CallInv'
<1>1. req[r].pc = "loop" /\ Alone(r)
  BY GetConnDoes
<1>2. CASE conn' = conn /\ Ends(r, "error") /\ req'[r].conn = req[r].conn
  <2>1. Calm
    BY <1>2, LeaveCalm
  <2>2. \A s \in Reqs : Stays(s) \/ req'[s].pc \notin {"select", "map"}
    BY <1>1, <1>2 DEF Alone, Stays, Ends
  <2>. QED  BY <1>2, <2>1, <2>2, NoCallStep
<1>3. ASSUME NEW c \in Conns, conn[c].open => conn[c].idle, ~isBroken(conn[c]),
             \A d \in Conns : d # c => conn'[d] = conn[d],
             conn'[c] = [conn[c] EXCEPT !.open = TRUE, !.idle = FALSE],
             req'[r].pc = "enter", req'[r].conn = c
      PROVE  CallInv'
  <2>. DEFINE k == conn[c]
              kk == conn'[c]
  <2>1. k \in ConnType /\ Good(k)
    BY AtConn
  <2>2. kk.rl = k.rl /\ kk.rc = k.rc /\ kk.resp = k.resp /\ kk.alive = k.alive
    BY <1>3, <2>1 DEF ConnType
  <2>3. Fit(k) \/ ~k.open
    BY <1>3, <2>1 DEF Good, OneUse
  <2>4. ASSUME NEW s \in Reqs, req[s].conn = c, req[s].pc = "map" PROVE FALSE
    <3>1. Spent(k)
      BY <2>4, WaitingIs DEF CallInv
    <3>2. k.open
      BY <2>4 DEF Inv1, LaneInv, Opened
    <3>. QED  BY <1>3, <3>1, <3>2 DEF Spent
  <2>5. Waiting(r)'
    BY <1>3 DEF Waiting
  <2>. QED  BY ZenonT(40), <1>1, <1>3, <2>2, <2>3, <2>4, <2>5, TakesCalls
<1>. QED  BY <1>2, <1>3, GetConnDoes

\* The request sent is the last one, for which its caller waits.
LEMMA SendCalls ==
  ASSUME Inv1, CallInv, NEW r \in Reqs, roundTripEnter(r) \/ roundTripSend(r) PROVE CallInv'
<1>. DEFINE c == req[r].conn
            k == conn[c]
            kk == conn'[c]
<1>1. /\ Alone(r)
      /\ c \in Conns /\ Pre(c, r) /\ \A d \in Conns : d # c => conn'[d] = conn[d]
      /\ req'[r].conn = c
      /\ SameReader(k, [kk EXCEPT !.reqch = k.reqch])
      /\ \/ req'[r].pc = "send"
         \/ req'[r].pc = "select" /\ req'[r].writeErrCh = "none" /\ kk.reqch = r /\ kk.writech = r
  BY SendDoes
<1>2. Fit(k)
  BY <1>1, AtPre DEF Pre
<1>3. kk \in ConnType
  <2>1. Inv1'
    BY EnterLane, SendLane
  <2>. QED  BY <1>1, <2>1 DEF Inv1, TypeOK
<1>4. ASSUME NEW s \in Reqs, req[s].conn = c, req[s].pc = "map" PROVE FALSE
  <2>1. Unclaimed(c)
    BY <1>4, WaitingIs DEF CallInv
  <2>. QED  BY <1>1, <2>1 DEF Unclaimed
<1>5. PICK d \in Conns : d = c
  BY <1>1
<1>. HIDE DEF k, kk
<1>6. kk.rl = k.rl /\ kk.rc = k.rc /\ kk.resp = k.resp /\ kk.alive = k.alive
  BY <1>1, <1>3 DEF SameReader, ConnType
<1>7. Waiting(r)'
  <2>1. r # NoReq
    BY ExchangeAssumption
  <2>2. req'[r].pc = "select" => Latest(kk) = r /\ kk.reqch = r /\ req'[r].writeErrCh # "err"
    BY <1>1, <2>1 DEF Latest
  <2>. HIDE DEF c
  <2>. QED  BY <1>1, <2>2 DEF Waiting, kk, Latest
<1>. HIDE DEF c
<1>. QED  BY <1>1, <1>2, <1>4, <1>5, <1>6, <1>7, TakesCalls DEF k, kk

\* In the beginning nobody waits.
LEMMA InitCalls == Init => CallInv
<1>. SUFFICES ASSUME Init PROVE CallInv
  OBVIOUS
<1>1. \A r \in Reqs : req[r].pc = "start"
  BY DEF Init, NewReq
<1>2. \A c \in Conns : conn[c].rl = "peek"
  BY DEF Init, NewConn
<1>. QED  BY <1>1, <1>2 DEF CallInv, Waiting, Returned, Finishing

\* With the wires, an inductive invariant.
Inv4 == Inv3 /\ CallInv

\* Every step keeps it.
LEMMA NextCalls ==
  ASSUME Inv4, [Next]_vars PROVE Inv4'
<1>0. Inv3 /\ Inv2 /\ Inv1 /\ CallInv
  BY DEF Inv4, Inv3, Inv2
<1>1. Inv3' /\ (Calm \/ Takes)
  BY <1>0, NextLane, NextWire
<1>2. CallInv'
  <2>1. CASE UNCHANGED vars
    <3>1. conn' = conn /\ req' = req
      BY <2>1 DEF vars
    <3>2. Calm /\ \A s \in Reqs : Stays(s)
      BY <1>0, <3>1, CalmReq DEF Stays
    <3>. QED  BY <1>0, <3>1, <3>2, NoCallStep
  <2>2. CASE Takes
    BY <1>0, <2>2, GetConnCalls, SendCalls DEF Takes
  <2>3. CASE Calm /\ Next /\ ~Takes
    <3>1. ASSUME NEW r \in Reqs, Caller(r) \/ User(r) \/ Cancel(r) PROVE CallInv'
      <4>1. CASE User(r) \/ Cancel(r)
        BY <1>0, <2>3, <4>1, UserCalls, CancelCalls
      <4>2. CASE Caller(r)
        <5>1. ~(getConn(r) \/ roundTripEnter(r) \/ roundTripSend(r))
          BY <2>3 DEF Takes
        <5>2. CASE roundTripSelect(r)
          BY <1>0, <2>3, <5>2, SelectCalls
        <5>3. CASE ~roundTripSelect(r)
          BY <1>0, <2>3, <4>2, <5>1, <5>3, CallerCalls DEF Caller
        <5>. QED  BY <5>2, <5>3
      <4>. QED  BY <3>1, <4>1, <4>2
    <3>2. ASSUME NEW c \in Conns, writeLoop(c) PROVE CallInv'
      BY <1>0, <2>3, <3>2, WriterCalls
    <3>3. ASSUME NEW c \in Conns, readLoop(c) \/ closeConnIfStillIdle(c) PROVE CallInv'
      BY <1>0, <2>3, <3>3, ReaderCalls
    <3>4. ASSUME NEW c \in Conns, Server(c) PROVE CallInv'
      <4>1. conn' = conn /\ req' = req
        BY <3>4 DEF Server, serverRead, serverReply, serverHint, serverTimeout, serverClose
      <4>2. \A s \in Reqs : Stays(s)
        BY <4>1 DEF Stays
      <4>. QED  BY <1>0, <2>3, <4>1, <4>2, NoCallStep
    <3>. QED  BY <2>3, <3>1, <3>2, <3>3, <3>4 DEF Next
  <2>. QED  BY <1>1, <2>1, <2>2, <2>3
<1>. QED  BY <1>1, <1>2 DEF Inv4

-----------------------------------------------------------------------------
(* A request that must not be repeated.                                    *)

\* The call of r does not go on, and the server does not act on r.
Settled(r) ==
    /\ req'[r].pc = req[r].pc /\ req'[r].conn = req[r].conn /\ req'[r].err = req[r].err
    /\ req'[r].answer = req[r].answer /\ handled'[r] = handled[r]

\* The connection has no more to show to the server than before.
Fades(k, n, kk, nn) ==
    /\ Latest(kk) = Latest(k)
    /\ k.wrote => kk.wrote
    /\ Fresh(kk, nn) => Fresh(k, n)

\* A step that shows the server nothing of r.
LEMMA OnceMoves ==
  ASSUME NEW r \in Reqs, env' = env, Once(r), handled'[r] = handled[r],
         req'[r].pc = "cached" => req[r].pc = "cached",
         req'[r].pc # "done" => req'[r].answer = "none",
         ~isReplayable(r) =>
            /\ Unseen(r)' => Unseen(r)
            /\ \A d \in Conns : Token(d, r)' =>
                  Token(d, r) /\ req'[r].conn = req[r].conn /\ Exposed(req'[r])
  PROVE  Once(r)'
<1>1. isReplayable(r)' = isReplayable(r)
  BY DEF isReplayable, hasBody
<1>2. Exposed(req[r])' = Exposed(req'[r])
  BY DEF Exposed
<1>3. /\ req'[r].pc = "cached" => handled'[r] > 0
      /\ req'[r].pc # "done" => req'[r].answer = "none"
  BY DEF Once
<1>4. ASSUME ~isReplayable(r)
      PROVE  /\ Unseen(r)' => handled'[r] = 0
             /\ \A d \in Conns : Token(d, r)' => handled'[r] = 0 /\ req'[r].conn = d /\ Exposed(req'[r])
  BY <1>4 DEF Once
<1>. QED  BY <1>1, <1>2, <1>3, <1>4 DEF Once

\* A step that does not concern r.
LEMMA OnceStays ==
  ASSUME NEW r \in Reqs, env' = env, Once(r), Settled(r),
         \A d \in Conns : Token(d, r)' => Token(d, r),
         Unseen(r)' => Unseen(r)
  PROVE  Once(r)'
<1>1. /\ req'[r].pc = req[r].pc /\ req'[r].conn = req[r].conn /\ req'[r].answer = req[r].answer
      /\ handled'[r] = handled[r] /\ (Exposed(req[r]) => Exposed(req'[r]))
  BY DEF Exposed, Settled
<1>2. req[r].pc # "done" => req[r].answer = "none"
  BY DEF Once
<1>3. ~isReplayable(r) => \A d \in Conns : Token(d, r) => Exposed(req[r])
  BY DEF Once
<1>. QED  BY <1>1, <1>2, <1>3, OnceMoves

\* What the connections hold is seen from their states only.
LEMMA TokenNext ==
  ASSUME NEW d \in Conns, NEW r
  PROVE  Token(d, r)' <=> Latest(conn'[d]) = r /\ Fresh(conn'[d], net'[d])
BY DEF Token, Latest, Fresh, HasHead

\* A step at one connection that shows the server nothing new.
LEMMA FadesStay ==
  ASSUME Inv1, NEW c \in Conns, OnlyAt(c), Fades(conn[c], net[c], conn'[c], net'[c]), env' = env,
         NEW r \in Reqs, Once(r), Settled(r)
  PROVE  Once(r)'
<1>1. ASSUME NEW d \in Conns, Token(d, r)' PROVE Token(d, r)
  <2>1. Latest(conn'[d]) = r /\ Fresh(conn'[d], net'[d])
    BY <1>1, TokenNext
  <2>2. CASE d = c
    BY <2>1, <2>2 DEF Token, Fades
  <2>3. CASE d # c
    <3>1. conn'[d] = conn[d] /\ net'[d] = net[d]
      BY <2>3 DEF OnlyAt
    <3>. QED  BY <2>1, <3>1 DEF Token
  <2>. QED  BY <2>2, <2>3
<1>2. ASSUME Unseen(r)' PROVE Unseen(r)
  <2>1. CASE req'[r].pc \in {"select", "map"}
    <3>. DEFINE d == req[r].conn
    <3>1. d \in Conns /\ req'[r].conn = d
      BY <2>1, AtReq DEF Placed, Settled
    <3>2. Latest(conn'[d]) = r /\ ~conn'[d].wrote
      BY <1>2, <2>1, <3>1 DEF Unseen, Latest
    <3>3. Latest(conn[d]) = r /\ ~conn[d].wrote
      BY <3>1, <3>2 DEF Fades, OnlyAt
    <3>. QED  BY <2>1, <3>3 DEF Unseen, Settled
  <2>2. CASE req'[r].pc \notin {"select", "map"}
    BY <1>2, <2>2 DEF Unseen, Settled
  <2>. QED  BY <2>1, <2>2
<1>. QED  BY <1>1, <1>2, OnceStays

\* ... and nobody's call goes on.
LEMMA FadeStep ==
  ASSUME Inv1, OnceInv, NEW c \in Conns, OnlyAt(c), Fades(conn[c], net[c], conn'[c], net'[c]),
         env' = env, \A r \in Reqs : Settled(r)
  PROVE  OnceInv'
BY FadesStay DEF OnceInv

\* What is read by the client is not written.
LEMMA SameWriterFades ==
  ASSUME NEW k, NEW kk, NEW n, NEW nn, SameWriter(k, kk), nn.up = n.up, nn.fin = n.fin
  PROVE  Fades(k, n, kk, nn)
<1>1. Latest(kk) = Latest(k) /\ kk.wrote = k.wrote
  BY WriterLatest
<1>2. HasHead(nn) = HasHead(n)
  BY DEF HasHead
<1>. QED  BY <1>1, <1>2 DEF Fades, Fresh, SameWriter

\* The read loop.
LEMMA ReaderOnce ==
  ASSUME Inv1, OnceInv, NEW c \in Conns, readLoop(c) \/ closeConnIfStillIdle(c) PROVE OnceInv'
<1>1. ASSUME LoopAt(c) PROVE OnceInv'
  <2>1. Fades(conn[c], net[c], conn'[c], net'[c])
    BY <1>1, SameWriterFades DEF LoopAt
  <2>2. \A r \in Reqs : Settled(r)
    BY <1>1 DEF LoopAt, Untouched, Settled
  <2>. QED  BY <1>1, <2>1, <2>2, FadeStep DEF LoopAt
<1>2. CASE readResponse(c)
  <2>. DEFINE k == conn[c]
              kk == conn'[c]
              n == net[c]
              nn == net'[c]
  <2>1. /\ nn = [n EXCEPT !.down = Tail(@)] /\ OnlyAt(c) /\ req' = req /\ handled' = handled /\ env' = env
        /\ kk.writech = k.writech /\ kk.wl = k.wl /\ kk.wr = k.wr /\ kk.wrote = k.wrote
        /\ kk.werr = k.werr /\ kk.open = k.open /\ kk.closed = k.closed
    BY <1>2, ReadResponseDoes
  <2>2. SameWriter(k, kk)
    BY <2>1 DEF SameWriter, isBroken
  <2>3. nn.up = n.up /\ nn.fin = n.fin
    BY <2>1, AtConn DEF NetType
  <2>4. Fades(k, n, kk, nn)
    BY <2>2, <2>3, SameWriterFades
  <2>5. \A r \in Reqs : Settled(r)
    BY <2>1 DEF Settled
  <2>. QED  BY <2>1, <2>4, <2>5, FadeStep
<1>3. CASE readLoopPeek(c) \/ readLoopExpect(c) \/ readResponseFails(c)
  BY <1>1, <1>3, PeekDoes, ExpectDoes, ReadFailsDoes
<1>4. CASE readLoopBodyWait(c) \/ closeConnIfStillIdle(c)
  BY <1>1, <1>4, BodyWaitDoes, CloseIdleDoes
<1>5. CASE wroteRequest(c) \/ tryPutIdleConnCheck(c) \/ tryPutIdleConn(c)
  BY <1>1, <1>5, RecycleDoes
<1>6. CASE readLoopCallerGone(c) \/ readLoopExit(c) \/ readLoopClose(c) \/ removeIdleConn(c)
  BY <1>1, <1>6, EndDoes
<1>. QED  BY <1>2, <1>3, <1>4, <1>5, <1>6 DEF readLoop

\* The user of a response body.
LEMMA UserOnce ==
  ASSUME Inv1, OnceInv, NEW r \in Reqs, User(r) PROVE OnceInv'
<1>. DEFINE c == req[r].conn
            n == net[c]
            nn == net'[c]
<1>1. /\ c \in Conns /\ OnlyAt(c) /\ handled' = handled /\ env' = env /\ SameWriter(conn[c], conn'[c])
      /\ \A s \in Reqs : s # r => req'[s] = req[s]
      /\ req'[r].pc = req[r].pc /\ req'[r].conn = c /\ req'[r].err = req[r].err
      /\ req'[r].answer = req[r].answer
      /\ nn = [n EXCEPT !.down = Tail(@)] \/ net' = net
  BY UserDoes
<1>2. nn.up = n.up /\ nn.fin = n.fin
  BY <1>1, AtConn DEF NetType
<1>3. Fades(conn[c], n, conn'[c], nn)
  BY <1>1, <1>2, SameWriterFades
<1>4. \A s \in Reqs : Settled(s)
  BY <1>1 DEF Settled
<1>. HIDE DEF c
<1>. QED  BY <1>1, <1>3, <1>4, FadeStep

\* The write loop: the head it writes was waiting to be written.
LEMMA WriterOnce ==
  ASSUME Inv2, OnceInv, NEW c \in Conns, writeLoop(c) PROVE OnceInv'
<1>. DEFINE k == conn[c]
            kk == conn'[c]
            n == net[c]
            nn == net'[c]
<1>0. Inv1
  BY DEF Inv2
<1>1. k \in ConnType /\ n \in NetType /\ n.up \in Seq(Item) /\ Good(k)
  BY <1>0, AtConn DEF NetType
<1>2. ASSUME WriterAt(c), Fades(k, n, kk, nn) PROVE OnceInv'
  <2>1. \A s \in Reqs : Settled(s)
    BY <1>2 DEF WriterAt, Settled
  <2>. QED  BY <1>0, <1>2, <2>1, FadeStep DEF WriterAt
<1>3. CASE writeLoopSelect(c) \/ waitForContinue(c) \/ writeLoopReport(c) \/ writeLoopClose(c)
  <2>1. /\ WriterAt(c) /\ nn = n /\ kk.wrote = k.wrote
        /\ \/ /\ k.wl = "idle" /\ k.writech # NoReq /\ kk.writech = NoReq
           \/ /\ k.wl = "idle" /\ kk.wl = "done"
           \/ /\ k.wl = "wait" /\ kk.writech = k.writech
           \/ /\ kk.wl \in {"idle", "close", "done"} /\ kk.writech = k.writech /\ k.wl # "done"
    BY <1>0, <1>3, NoWriteDoes
  <2>2. k.wl = "wait" => k.wrote
    BY DEF Inv2, FrameInv, Unwritten
  <2>3. Fades(k, n, kk, nn)
    BY <2>1, <2>2 DEF Fades, Fresh, WriterAt
  <2>. QED  BY <1>2, <2>1, <2>3
<1>4. CASE writeRequestHead(c) \/ writeRequestBody(c) \/ writeRequestFails(c)
  <2>1. /\ WriterAt(c) /\ k.wl \in {"head", "body"} /\ kk.wl \in {"wait", "report"} /\ k.wr \in Reqs
        /\ kk.writech = NoReq /\ Writes(k, n, kk, nn) /\ kk.wrote \in BOOLEAN
    BY <1>4, WriteDoes
  <2>2. (k.wrote => kk.wrote) /\ nn.fin = n.fin
    BY <1>1, <2>1, SentDoes DEF Writes
  <2>3. ASSUME k.wrote, HasHead(nn), n.fin = "no" PROVE HasHead(n)
    <3>1. PICK s \in {<<>>, <<Body1(k.wr)>>} : nn = Sent(n, s)
      BY <2>1, <2>3 DEF Writes
    <3>2. nn.up = n.up \o s
      BY <1>1, <2>3, <3>1 DEF Sent, NetType
    <3>3. PICK i \in 1 .. Len(nn.up) : nn.up[i].part = "head"
      BY <2>3 DEF HasHead
    <3>. HIDE DEF n, nn
    <3>4. CASE s = <<>>
      <4>1. nn.up = n.up
        BY <1>1, <3>2, <3>4
      <4>. QED  BY <3>3, <4>1 DEF HasHead
    <3>5. CASE s = <<Body1(k.wr)>>
      <4>1. nn.up = Append(n.up, Body1(k.wr)) /\ Body1(k.wr) \in Item
        BY <1>1, <2>1, <3>2, <3>5, ItemFacts
      <4>2. i \in 1 .. Len(n.up) /\ nn.up[i] = n.up[i]
        BY <1>1, <3>3, <4>1 DEF Body1
      <4>. QED  BY <3>3, <4>2 DEF HasHead
    <3>. QED  BY <3>4, <3>5
  <2>4. Fresh(kk, nn) => Fresh(k, n)
    BY <2>1, <2>2, <2>3 DEF Fresh
  <2>. QED  BY <1>2, <2>1, <2>2, <2>4 DEF Fades, WriterAt
<1>. QED  BY <1>3, <1>4 DEF writeLoop

\* The server reads the head of a request once; the rest of what it does
\* shows it nothing new.
LEMMA ServerOnce ==
  ASSUME Inv3, OnceInv, NEW c \in Conns, Server(c) PROVE OnceInv'
<1>. DEFINE k == conn[c]
            n == net[c]
            nn == net'[c]
            l == Latest(k)
<1>0. Inv1 /\ WireInv /\ k \in ConnType /\ Good(k) /\ n \in NetType /\ net \in [Conns -> NetType]
  BY AtConn DEF Inv3, Inv2, Inv1, TypeOK
<1>1. conn' = conn /\ req' = req /\ env' = env /\ OnlyAt(c)
  BY <1>0 DEF Server, serverRead, serverReply, serverHint, serverTimeout, serverClose, OnlyAt
<1>2. ASSUME nn.fin = "no" /\ HasHead(nn) => n.fin = "no" /\ HasHead(n) PROVE Fades(k, n, conn'[c], nn)
  BY <1>1, <1>2 DEF Fades, Fresh
<1>3. ASSUME handled' = handled, nn.fin = "no" /\ HasHead(nn) => n.fin = "no" /\ HasHead(n)
      PROVE  OnceInv'
  <2>1. \A r \in Reqs : Settled(r)
    BY <1>1, <1>3 DEF Settled
  <2>. QED  BY <1>0, <1>1, <1>2, <1>3, <2>1, FadeStep
<1>4. CASE serverRead(c)
  <2>1. /\ n.fin = "no" /\ nn.fin = "no"
        /\ \/ /\ l \in Reqs /\ k.wrote /\ HasHead(n) /\ ~HasHead(nn)
              /\ handled' = [handled EXCEPT ![l] = @ + 1]
           \/ /\ handled' = handled
              /\ \A i \in 1 .. Len(nn.up) : i + 1 \in 1 .. Len(n.up) /\ nn.up[i] = n.up[i + 1]
    BY <1>0, <1>4, ServerReadDoes
  <2>2. CASE /\ l \in Reqs /\ k.wrote /\ HasHead(n) /\ ~HasHead(nn)
             /\ handled' = [handled EXCEPT ![l] = @ + 1]
    <3>1. handled \in [Reqs -> Nat]
      BY <1>0 DEF Inv1, TypeOK
    <3>2. ASSUME NEW r \in Reqs, r # l PROVE Once(r)'
      <4>1. Settled(r)
        BY <1>1, <2>2, <3>1, <3>2 DEF Settled
      <4>. QED  BY <1>0, <1>1, <1>2, <2>2, <4>1, FadesStay DEF OnceInv
    <3>3. ASSUME NEW r \in Reqs, r = l PROVE Once(r)'
      <4>1. Once(r) /\ handled'[r] > 0
        BY <2>2, <3>1, <3>3 DEF OnceInv
      <4>2. isReplayable(r)' = isReplayable(r)
        BY <1>1 DEF isReplayable, hasBody
      <4>3. ASSUME ~isReplayable(r) PROVE ~Unseen(r)' /\ \A d \in Conns : ~Token(d, r)'
        <5>1. Token(c, r)
          BY <2>1, <2>2, <3>3 DEF Token, Fresh
        <5>2. req[r].conn = c /\ Exposed(req[r])
          BY <4>1, <4>3, <5>1 DEF Once
        <5>3. ~Unseen(r)'
          BY <1>1, <2>2, <5>2 DEF Unseen, Exposed
        <5>4. ASSUME NEW d \in Conns, Token(d, r)' PROVE FALSE
          <6>1. Latest(conn'[d]) = r /\ Fresh(conn'[d], net'[d])
            BY <5>4, TokenNext
          <6>2. CASE d = c
            <7>1. Fresh(k, nn)
              BY <1>1, <6>1, <6>2
            <7>. QED  BY <1>0, <2>2, <7>1 DEF Fresh, Good, WriteStages
          <6>3. CASE d # c
            <7>1. Token(d, r)
              BY <1>1, <6>1, <6>3 DEF OnlyAt, Token
            <7>. QED  BY <4>1, <4>3, <5>2, <6>3, <7>1 DEF Once
          <6>. QED  BY <6>2, <6>3
        <5>. QED  BY <5>3, <5>4
      <4>4. req'[r].pc # "done" => req'[r].answer = "none"
        BY <1>1, <4>1 DEF Once
      <4>. QED  BY <4>1, <4>2, <4>3, <4>4 DEF Once
    <3>. QED  BY <3>2, <3>3 DEF OnceInv
  <2>3. CASE /\ handled' = handled
             /\ \A i \in 1 .. Len(nn.up) : i + 1 \in 1 .. Len(n.up) /\ nn.up[i] = n.up[i + 1]
    <3>1. HasHead(nn) => HasHead(n)
      BY <2>3 DEF HasHead
    <3>. QED  BY <1>3, <2>1, <2>3, <3>1
  <2>. QED  BY <2>1, <2>2, <2>3
<1>5. CASE serverReply(c)
  <2>1. n.fin = "no" /\ nn.up = n.up /\ handled' = handled
    BY <1>0, <1>5, ServerReplyDoes DEF serverReply
  <2>. QED  BY <1>3, <2>1 DEF HasHead
<1>6. CASE serverHint(c) \/ serverTimeout(c)
  <2>1. n.fin = "no" /\ handled' = handled
    BY <1>6 DEF serverHint, serverTimeout
  <2>2. nn.up = n.up
    <3>1. CASE serverHint(c)
      <4>1. \E d : net' = [net EXCEPT ![c].hinted = TRUE, ![c].down = d]
        BY <3>1 DEF serverHint
      <4>. QED  BY <1>0, <4>1 DEF NetType
    <3>2. CASE serverTimeout(c)
      <4>1. \E d : net' = [net EXCEPT ![c].down = d, ![c].fin = "eof"]
        BY <3>2 DEF serverTimeout
      <4>. QED  BY <1>0, <4>1 DEF NetType
    <3>. QED  BY <1>6, <3>1, <3>2
  <2>. QED  BY <1>3, <2>1, <2>2 DEF HasHead
<1>7. CASE serverClose(c)
  <2>1. nn.fin # "no" /\ handled' = handled
    BY <1>0, <1>7 DEF serverClose, NetType
  <2>. QED  BY <1>3, <2>1
<1>. QED  BY <1>4, <1>5, <1>6, <1>7 DEF Server

\* The caller takes an answer, or goes on to find out what became of the
\* write; it is never told here that nothing was written.
LEMMA SelectOnce ==
  ASSUME Inv1, OnceInv, NEW r \in Reqs, roundTripSelect(r) PROVE OnceInv'
<1>. DEFINE c == req[r].conn
            k == conn[c]
            kk == conn'[c]
            q == req[r]
            qq == req'[r]
<1>1. /\ c \in Conns /\ q.pc = "select" /\ OnlyAt(c) /\ net' = net /\ handled' = handled /\ env' = env
      /\ Alone(r) /\ qq.conn = c /\ SameWriter(k, kk)
      /\ \/ /\ qq.pc \in {"select", "map"} \/ (qq.pc = "failed" /\ qq.err # "nothingWritten")
            /\ qq.answer = q.answer
         \/ qq.pc = "done"
  BY SelectDoes DEF Alone
<1>2. Fades(k, net[c], kk, net'[c]) /\ Latest(kk) = Latest(k) /\ kk.wrote = k.wrote
  BY <1>1, SameWriterFades, WriterLatest
<1>3. PICK d \in Conns : d = c
  BY <1>1
<1>4. Once(r)
  BY DEF OnceInv
<1>. HIDE DEF c
<1>5. ASSUME NEW s \in Reqs, s # r PROVE Once(s)'
  <2>1. Settled(s) /\ Once(s)
    BY <1>1, <1>5 DEF Settled, Alone, OnceInv
  <2>. QED  BY <1>1, <1>2, <1>3, <2>1, FadesStay
<1>6. Exposed(qq)
  BY <1>1 DEF Exposed
<1>7. ASSUME Unseen(r)' PROVE Unseen(r)
  <2>1. qq.pc \in {"select", "map"}
    BY <1>1, <1>7 DEF Unseen
  <2>2. Latest(kk) = r /\ ~kk.wrote
    BY <1>1, <1>7, <2>1 DEF Unseen, Latest
  <2>. QED  BY <1>1, <1>2, <2>2 DEF Unseen, c
<1>8. ASSUME NEW e \in Conns, Token(e, r)' PROVE Token(e, r)
  <2>1. Latest(conn'[e]) = r /\ Fresh(conn'[e], net'[e])
    BY <1>8, TokenNext
  <2>2. CASE e = c
    BY <1>2, <2>1, <2>2 DEF Fades, Token
  <2>3. CASE e # c
    BY <1>1, <2>1, <2>3 DEF OnlyAt, Token
  <2>. QED  BY <2>2, <2>3
<1>9. qq.pc # "cached" /\ (qq.pc # "done" => qq.answer = "none")
  BY <1>1, <1>4 DEF Once
<1>10. Once(r)'
  BY <1>1, <1>4, <1>6, <1>7, <1>8, <1>9, OnceMoves DEF c
<1>. QED  BY <1>5, <1>10 DEF OnceInv

\* Where nothing happens to the connections.
LEMMA NoConnStays ==
  ASSUME conn' = conn, net' = net, env' = env, NEW r \in Reqs, Once(r), Settled(r) PROVE Once(r)'
<1>1. \A d \in Conns : Token(d, r)' => Token(d, r)
  BY TokenNext DEF Token
<1>2. Unseen(r)' => Unseen(r)
  BY DEF Unseen, Settled
<1>. QED  BY <1>1, <1>2, OnceStays

\* The callers without a connection: a request that must not be repeated is
\* sent again only if nothing of it was written, and then nothing is left to
\* be written.
LEMMA CallerOnce ==
  ASSUME Inv4, OnceInv, NEW r \in Reqs,
         \/ roundTripReject(r) \/ roundTripCached(r) \/ roundTripCachedEnd(r)
         \/ mapRoundTripError(r) \/ roundTripFailed(r)
  PROVE  OnceInv'
<1>. DEFINE q == req[r]
            qq == req'[r]
<1>0. Inv1 /\ WireInv /\ CallInv /\ Once(r) /\ handled \in [Reqs -> Nat]
  BY DEF Inv4, Inv3, Inv2, Inv1, TypeOK, OnceInv
<1>1. /\ conn' = conn /\ net' = net /\ env' = env /\ Alone(r) /\ qq.conn = q.conn
      /\ handled' = handled \/ (qq.pc = "cached" /\ handled' = [handled EXCEPT ![r] = @ + 1])
      /\ \/ Ends(r, "error") \/ Ends(r, r)
         \/ q.pc = "start" /\ qq.pc = "loop" /\ qq.answer = q.answer
         \/ q.pc = "start" /\ qq.pc = "cached" /\ qq.answer = q.answer /\ handled' # handled
         \/ /\ q.pc = "failed" /\ qq.pc = "loop" /\ qq.answer = q.answer
            /\ shouldRetryRequest(r, conn[q.conn], q.err)
         \/ /\ q.pc = "map" /\ qq.pc = "failed" /\ qq.answer = q.answer
            /\ conn[q.conn].wl = "done"
            /\ qq.err = "nothingWritten" => q.err = "nothingWritten" \/ ~conn[q.conn].wrote
  BY <1>0, CallerDoes
<1>2. ASSUME NEW s \in Reqs, s # r PROVE Once(s)'
  <2>1. Settled(s) /\ Once(s)
    BY <1>0, <1>1, <1>2 DEF Settled, Alone, OnceInv
  <2>. QED  BY <1>1, <2>1, NoConnStays
<1>3. \A d \in Conns : Token(d, r)' <=> Token(d, r)
  BY <1>1, TokenNext DEF Token
<1>4. ~isReplayable(r) => /\ Unseen(r) => handled[r] = 0
                          /\ \A d \in Conns : Token(d, r) => q.conn = d /\ Exposed(q)
  BY <1>0 DEF Once
<1>5. isReplayable(r)' = isReplayable(r)
  BY <1>1 DEF isReplayable, hasBody
<1>6. q.pc # "done" => q.answer = "none"
  BY <1>0 DEF Once
<1>7. CASE Ends(r, "error") \/ Ends(r, r)
  <2>1. qq.pc = "done" /\ handled'[r] = handled[r] /\ Exposed(qq)
    BY <1>1, <1>7 DEF Ends, Exposed
  <2>2. ~Unseen(r)'
    BY <2>1 DEF Unseen
  <2>. QED  BY <1>0, <1>1, <1>2, <1>3, <2>1, <2>2, OnceMoves DEF OnceInv
<1>8. CASE q.pc = "start" /\ qq.pc = "loop" /\ qq.answer = q.answer
  <2>1. handled'[r] = handled[r] /\ Unseen(r) /\ ~Exposed(q)
    BY <1>1, <1>8 DEF Unseen, Exposed
  <2>. QED  BY <1>0, <1>1, <1>2, <1>3, <1>4, <1>6, <1>8, <2>1, OnceMoves DEF OnceInv
<1>9. CASE q.pc = "start" /\ qq.pc = "cached" /\ qq.answer = q.answer /\ handled' # handled
  <2>1. handled'[r] > 0 /\ ~Exposed(q)
    BY <1>0, <1>1, <1>9 DEF Exposed
  <2>2. ~Unseen(r)'
    BY <1>9 DEF Unseen
  <2>3. Once(r)'
    BY <1>3, <1>4, <1>5, <1>6, <1>9, <2>1, <2>2 DEF Once
  <2>. QED  BY <1>2, <2>3 DEF OnceInv
<1>10. CASE /\ q.pc = "failed" /\ qq.pc = "loop" /\ qq.answer = q.answer
            /\ shouldRetryRequest(r, conn[q.conn], q.err)
  <2>1. handled'[r] = handled[r]
    BY <1>1, <1>10
  <2>2. ~isReplayable(r) => q.err = "nothingWritten"
    BY <1>10 DEF shouldRetryRequest
  <2>3. ~isReplayable(r) => Unseen(r) /\ ~Exposed(q)
    BY <1>10, <2>2 DEF Unseen, Exposed
  <2>. QED  BY <1>0, <1>1, <1>2, <1>3, <1>4, <1>6, <1>10, <2>1, <2>3, OnceMoves DEF OnceInv
<1>11. CASE /\ q.pc = "map" /\ qq.pc = "failed" /\ qq.answer = q.answer
            /\ conn[q.conn].wl = "done"
            /\ qq.err = "nothingWritten" => q.err = "nothingWritten" \/ ~conn[q.conn].wrote
  <2>. DEFINE k == conn[q.conn]
  <2>1. handled'[r] = handled[r]
    BY <1>1, <1>11
  <2>2. Latest(k) = r /\ q.err # "nothingWritten" /\ q.conn \in Conns
    BY <1>0, <1>11, AtReq DEF CallInv, Waiting, Placed
  <2>3. CASE qq.err # "nothingWritten"
    <3>1. Exposed(qq)
      BY <1>11, <2>3 DEF Exposed
    <3>2. ~Unseen(r)'
      BY <1>11, <2>3 DEF Unseen
    <3>. QED  BY <1>0, <1>1, <1>2, <1>3, <1>6, <1>11, <2>1, <3>1, <3>2, OnceMoves DEF OnceInv
  <2>4. CASE qq.err = "nothingWritten"
    <3>1. ~k.wrote
      BY <1>11, <2>2, <2>4
    <3>2. Unseen(r)
      BY <1>11, <2>2, <3>1 DEF Unseen
    <3>3. ASSUME NEW d \in Conns, Token(d, r), ~isReplayable(r) PROVE FALSE
      <4>1. q.conn = d
        BY <1>4, <3>3
      <4>2. net[d].fin = "no" /\ HasHead(net[d])
        BY <1>11, <3>3, <4>1 DEF Token, Fresh
      <4>3. Serving(Latest(conn[d]), conn[d].wrote, net[d])
        BY <1>0 DEF WireInv, WireAt, Wire
      <4>. QED  BY <3>1, <4>1, <4>2, <4>3 DEF Serving
    <3>. QED  BY <1>0, <1>1, <1>2, <1>3, <1>6, <1>11, <2>1, <3>2, <3>3, OnceMoves DEF OnceInv
  <2>. QED  BY <2>3, <2>4
<1>. QED  BY <1>1, <1>7, <1>8, <1>9, <1>10, <1>11

\* A caller gives up waiting.
LEMMA CancelOnce ==
  ASSUME Inv1, OnceInv, NEW r \in Reqs, Cancel(r) PROVE OnceInv'
<1>1. conn' = conn /\ net' = net /\ env' = env /\ handled' = handled /\ req \in [Reqs -> ReqType]
  BY DEF Cancel, Inv1, TypeOK
<1>2. \A s \in Reqs : Settled(s)
  BY <1>1 DEF Cancel, Settled, ReqType
<1>. QED  BY <1>1, <1>2, NoConnStays DEF OnceInv

\* A caller takes a connection: nothing of its request is on any other.
LEMMA GetConnOnce ==
  ASSUME Inv1, OnceInv, NEW r \in Reqs, getConn(r) PROVE OnceInv'
<1>. DEFINE q == req[r]
            qq == req'[r]
<1>1. q.pc = "loop" /\ net' = net /\ handled' = handled /\ env' = env /\ Alone(r)
  BY GetConnDoes
<1>2. Once(r) /\ Unseen(r) /\ q.answer = "none" /\ ~Exposed(q)
  BY <1>1 DEF OnceInv, Once, Unseen, Exposed
<1>3. ~isReplayable(r) => \A d \in Conns : ~Token(d, r)
  BY <1>2 DEF Once
<1>4. \A s \in Reqs : s # r => Settled(s) /\ Once(s)
  BY <1>1 DEF Alone, Settled, OnceInv
<1>5. CASE conn' = conn /\ Ends(r, "error")
  <2>1. \A d \in Conns : Token(d, r)' => Token(d, r)
    BY <1>1, <1>5, TokenNext DEF Token
  <2>2. Once(r)'
    BY <1>1, <1>2, <1>3, <1>5, <2>1, OnceMoves DEF Ends
  <2>. QED  BY <1>1, <1>4, <1>5, <2>2, NoConnStays DEF OnceInv
<1>6. ASSUME NEW c \in Conns,
             \A d \in Conns : d # c => conn'[d] = conn[d],
             conn'[c] = [conn[c] EXCEPT !.open = TRUE, !.idle = FALSE],
             qq.pc = "enter", qq.answer = q.answer
      PROVE  OnceInv'
  <2>. DEFINE k == conn[c]
              kk == conn'[c]
  <2>1. kk.writech = k.writech /\ kk.wl = k.wl /\ kk.wr = k.wr /\ kk.wrote = k.wrote
    BY <1>6, AtConn DEF ConnType
  <2>2. Fades(k, net[c], kk, net'[c]) /\ OnlyAt(c)
    BY <1>1, <1>6, <2>1 DEF Fades, Fresh, Latest, OnlyAt
  <2>3. \A s \in Reqs : s # r => Once(s)'
    BY <1>1, <1>4, <2>2, FadesStay
  <2>4. ASSUME NEW d \in Conns, Token(d, r)' PROVE Token(d, r)
    <3>1. Latest(conn'[d]) = r /\ Fresh(conn'[d], net'[d])
      BY <2>4, TokenNext
    <3>2. CASE d = c
      BY <2>2, <3>1, <3>2 DEF Fades, Token
    <3>3. CASE d # c
      BY <1>1, <1>6, <3>1, <3>3 DEF Token
    <3>. QED  BY <3>2, <3>3
  <2>5. Once(r)'
    BY <1>1, <1>2, <1>3, <1>6, <2>4, OnceMoves
  <2>. QED  BY <2>3, <2>5 DEF OnceInv
<1>. QED  BY <1>5, <1>6, GetConnDoes

\* The request is handed to both loops: the one that was last on the
\* connection has nothing left there.
LEMMA SendOnce ==
  ASSUME Inv1, OnceInv, NEW r \in Reqs, roundTripEnter(r) \/ roundTripSend(r) PROVE OnceInv'
<1>. DEFINE c == req[r].conn
            k == conn[c]
            kk == conn'[c]
            q == req[r]
            qq == req'[r]
<1>1. /\ net' = net /\ handled' = handled /\ env' = env /\ Alone(r)
      /\ c \in Conns /\ Pre(c, r) /\ \A d \in Conns : d # c => conn'[d] = conn[d]
      /\ qq.conn = c /\ qq.answer = q.answer
      /\ kk.wl = k.wl /\ kk.wr = k.wr
      /\ \/ q.pc = "enter" /\ qq.pc = "send" /\ kk.writech = k.writech /\ kk.wrote = k.wrote
         \/ q.pc = "send" /\ qq.pc = "select" /\ kk.writech = r /\ kk.wrote = FALSE
  BY SendDoes
<1>2. Once(r) /\ Unseen(r) /\ q.answer = "none" /\ ~Exposed(q)
  BY <1>1 DEF OnceInv, Once, Unseen, Exposed
<1>3. ~isReplayable(r) => handled[r] = 0 /\ \A d \in Conns : ~Token(d, r)
  BY <1>2 DEF Once
<1>4. \A s \in Reqs : s # r => Settled(s) /\ Once(s)
  BY <1>1 DEF Alone, Settled, OnceInv
<1>5. PICK d \in Conns : d = c
  BY <1>1
<1>6. r # NoReq /\ \A s \in Reqs : req[s].pc \in {"select", "map"} => req[s].conn \in Conns
  BY ExchangeAssumption, AtReq DEF Placed
<1>7. isReplayable(r)' = isReplayable(r)
  BY <1>1 DEF isReplayable, hasBody
<1>. HIDE DEF c
<1>8. ASSUME NEW e \in Conns, NEW s, Token(e, s)', e # c PROVE Token(e, s)
  BY <1>1, <1>8, TokenNext DEF Token
<1>9. CASE q.pc = "enter" /\ qq.pc = "send" /\ kk.writech = k.writech /\ kk.wrote = k.wrote
  <2>1. Fades(k, net[c], kk, net'[c]) /\ OnlyAt(c)
    BY <1>1, <1>9 DEF Fades, Fresh, Latest, OnlyAt
  <2>2. \A s \in Reqs : s # r => Once(s)'
    BY <1>1, <1>4, <1>5, <2>1, FadesStay
  <2>3. ASSUME NEW e \in Conns, e = c, Token(e, r)' PROVE Token(e, r)
    <3>1. Latest(kk) = r /\ Fresh(kk, net'[c])
      BY <2>3, TokenNext
    <3>. QED  BY <2>1, <2>3, <3>1 DEF Fades, Token
  <2>4. \A e \in Conns : Token(e, r)' => Token(e, r)
    BY <1>8, <2>3
  <2>5. Once(r)'
    BY <1>1, <1>2, <1>3, <1>9, <2>4, OnceMoves
  <2>. QED  BY <2>2, <2>5 DEF OnceInv
<1>10. CASE q.pc = "send" /\ qq.pc = "select" /\ kk.writech = r /\ kk.wrote = FALSE
  <2>1. Latest(kk) = r
    BY <1>6, <1>10 DEF Latest
  <2>2. ASSUME NEW s \in Reqs, s # r PROVE Once(s)'
    <3>1. ASSUME NEW e \in Conns, Token(e, s)' PROVE Token(e, s)
      <4>1. Latest(conn'[e]) = s
        BY <3>1, TokenNext
      <4>. QED  BY <1>8, <2>1, <2>2, <3>1, <4>1
    <3>2. ASSUME Unseen(s)' PROVE Unseen(s)
      <4>1. req'[s] = req[s]
        BY <1>1, <2>2 DEF Alone
      <4>2. CASE req[s].pc \in {"select", "map"}
        <5>1. Latest(conn'[req[s].conn]) = s /\ ~conn'[req[s].conn].wrote
          BY <3>2, <4>1, <4>2 DEF Unseen, Latest
        <5>2. conn'[req[s].conn] = conn[req[s].conn]
          BY <1>1, <1>6, <2>1, <2>2, <4>2, <5>1
        <5>. QED  BY <4>2, <5>1, <5>2 DEF Unseen
      <4>3. CASE req[s].pc \notin {"select", "map"}
        BY <3>2, <4>1, <4>3 DEF Unseen
      <4>. QED  BY <4>2, <4>3
    <3>. QED  BY <1>1, <1>4, <2>2, <3>1, <3>2, OnceStays
  <2>3. Once(r)'
    <3>1. handled'[r] = handled[r] /\ Exposed(qq)
      BY <1>1, <1>10 DEF Exposed
    <3>2. ASSUME ~isReplayable(r), NEW e \in Conns, Token(e, r)' PROVE e = c
      BY <1>3, <1>8, <3>2
    <3>3. Exposed(req[r])' = Exposed(req'[r])
      BY DEF Exposed
    <3>. QED  BY <1>1, <1>2, <1>3, <1>7, <1>10, <3>1, <3>2, <3>3 DEF Once
  <2>. QED  BY <2>2, <2>3 DEF OnceInv
<1>. QED  BY <1>1, <1>9, <1>10

\* In the beginning nothing has been sent.
LEMMA InitOnce == Init => OnceInv
<1>. SUFFICES ASSUME Init, NEW r \in Reqs PROVE Once(r)
  BY DEF OnceInv
<1>1. req[r].pc = "start" /\ req[r].answer = "none" /\ handled[r] = 0
  BY DEF Init, NewReq
<1>2. \A c \in Conns : Latest(conn[c]) = NoReq
  BY DEF Init, NewConn, Latest
<1>3. \A c \in Conns : ~Token(c, r)
  BY <1>2, ExchangeAssumption DEF Token
<1>. QED  BY <1>1, <1>3 DEF Once

\* The inductive invariant of the refinement.
Inv5 == Inv4 /\ OnceInv

\* Every step keeps it.
LEMMA NextOnce ==
  ASSUME Inv5, [Next]_vars PROVE Inv5'
<1>0. Inv4 /\ Inv3 /\ Inv2 /\ Inv1 /\ OnceInv
  BY DEF Inv5, Inv4, Inv3, Inv2
<1>1. Inv4'
  BY <1>0, NextCalls
<1>2. OnceInv'
  <2>1. CASE UNCHANGED vars
    <3>1. conn' = conn /\ req' = req /\ net' = net /\ env' = env /\ handled' = handled
      BY <2>1 DEF vars
    <3>2. \A s \in Reqs : Settled(s)
      BY <3>1 DEF Settled
    <3>. QED  BY <1>0, <3>1, <3>2, NoConnStays DEF OnceInv
  <2>2. ASSUME NEW r \in Reqs, Caller(r) \/ User(r) \/ Cancel(r) PROVE OnceInv'
    <3>1. CASE User(r) \/ Cancel(r)
      BY <1>0, <3>1, UserOnce, CancelOnce
    <3>2. CASE getConn(r) \/ roundTripEnter(r) \/ roundTripSend(r) \/ roundTripSelect(r)
      BY <1>0, <3>2, GetConnOnce, SendOnce, SelectOnce
    <3>3. CASE Caller(r) /\ ~(getConn(r) \/ roundTripEnter(r) \/ roundTripSend(r) \/ roundTripSelect(r))
      BY <1>0, <3>3, CallerOnce DEF Caller
    <3>. QED  BY <2>2, <3>1, <3>2, <3>3
  <2>3. ASSUME NEW c \in Conns, writeLoop(c) \/ readLoop(c) \/ closeConnIfStillIdle(c) \/ Server(c)
        PROVE  OnceInv'
    BY <1>0, <2>3, WriterOnce, ReaderOnce, ServerOnce
  <2>. QED  BY <2>1, <2>2, <2>3 DEF Next
<1>. QED  BY <1>1, <1>2 DEF Inv5

-----------------------------------------------------------------------------
(* Exchange implements RoundTripper.                                       *)

\* Nobody is answered.
Silent == \A r \in Reqs : req'[r].answer = req[r].answer

\* A step the caller and the server do not notice.
LEMMA StepUnseen ==
  ASSUME env' = env, handled' = handled, Silent PROVE UNCHANGED Promised!vars
BY DEF Silent, Promised!vars, isReplayable, hasBody

\* The server acts on a request.
LEMMA StepHandles ==
  ASSUME env' = env, Silent, NEW r \in Reqs, handled[r] = 0 \/ isReplayable(r),
         handled' = [handled EXCEPT ![r] = @ + 1]
  PROVE  Promised!Next
<1>1. Promised!Handle(r)
  BY DEF Silent, Promised!Handle, isReplayable, hasBody
<1>. QED  BY <1>1 DEF Promised!Next

\* A call returns.
LEMMA StepEnds ==
  ASSUME env' = env, handled' = handled, NEW r \in Reqs, Alone(r), req[r].answer = "none",
         NEW a, req'[r].answer = a, a \in {"error", "408"} \/ (a = r /\ handled[r] > 0)
  PROVE  Promised!Next
<1>1. [s \in Reqs |-> req[s].answer]' = [[s \in Reqs |-> req[s].answer] EXCEPT ![r] = a]
  BY DEF Alone
<1>2. {s \in Reqs : isReplayable(s)}' = {s \in Reqs : isReplayable(s)}
  BY DEF isReplayable, hasBody
<1>3. CASE a \in {"error", "408"}
  <2>1. Promised!Refuse(r)
    BY <1>1, <1>2, <1>3 DEF Promised!Refuse
  <2>. QED  BY <2>1 DEF Promised!Next
<1>4. CASE a = r /\ handled[r] > 0
  <2>1. Promised!Answer(r)
    BY <1>1, <1>2, <1>4 DEF Promised!Answer
  <2>. QED  BY <2>1 DEF Promised!Next
<1>. QED  BY <1>3, <1>4

\* A call goes on, or returns with what it may return.
LEMMA CallerPromised ==
  ASSUME Inv5, NEW r \in Reqs, Caller(r) PROVE Promised!Next \/ UNCHANGED Promised!vars
<1>. DEFINE q == req[r]
            qq == req'[r]
<1>0. Inv1 /\ WireInv /\ Once(r) /\ handled \in [Reqs -> Nat]
  BY DEF Inv5, Inv4, Inv3, Inv2, Inv1, TypeOK, OnceInv
<1>1. q.pc # "done" => q.answer = "none"
  BY <1>0 DEF Once
<1>2. ASSUME env' = env, handled' = handled, Alone(r), qq.answer = q.answer
      PROVE  UNCHANGED Promised!vars
  <2>1. Silent
    BY <1>2 DEF Silent, Alone
  <2>. QED  BY <1>2, <2>1, StepUnseen
<1>3. CASE \/ roundTripReject(r) \/ roundTripCached(r) \/ roundTripCachedEnd(r)
           \/ mapRoundTripError(r) \/ roundTripFailed(r)
  <2>1. /\ env' = env /\ Alone(r) /\ q.pc # "done"
        /\ handled' = handled \/ (q.pc = "start" /\ qq.pc = "cached" /\ handled' = [handled EXCEPT ![r] = @ + 1])
        /\ \/ Ends(r, "error") \/ (q.pc = "cached" /\ Ends(r, r))
           \/ qq.answer = q.answer
    BY <1>0, <1>3, CallerDoes
  <2>2. CASE handled' = handled /\ qq.answer = q.answer
    BY <1>2, <2>1, <2>2
  <2>3. CASE handled' = handled /\ Ends(r, "error")
    BY <1>1, <2>1, <2>3, StepEnds DEF Ends
  <2>4. CASE handled' = handled /\ q.pc = "cached" /\ Ends(r, r)
    <3>1. handled[r] > 0
      BY <1>0, <2>4 DEF Once
    <3>. QED  BY <1>1, <2>1, <2>4, <3>1, StepEnds DEF Ends
  <2>5. CASE q.pc = "start" /\ qq.pc = "cached" /\ handled' = [handled EXCEPT ![r] = @ + 1]
    <3>1. Silent
      BY <2>1, <2>5 DEF Ends, Silent, Alone
    <3>2. handled[r] = 0 \/ isReplayable(r)
      BY <1>0, <2>5 DEF Once, Unseen
    <3>. QED  BY <2>1, <2>5, <3>1, <3>2, StepHandles
  <2>. QED  BY <2>1, <2>2, <2>3, <2>4, <2>5
<1>4. CASE getConn(r)
  <2>1. /\ q.pc = "loop" /\ handled' = handled /\ env' = env /\ Alone(r)
        /\ Ends(r, "error") \/ qq.answer = q.answer
    BY <1>0, <1>4, GetConnDoes
  <2>2. CASE Ends(r, "error")
    BY <1>1, <2>1, <2>2, StepEnds DEF Ends
  <2>. QED  BY <1>2, <2>1, <2>2
<1>5. CASE roundTripEnter(r) \/ roundTripSend(r)
  BY <1>0, <1>2, <1>5, SendDoes
<1>6. CASE roundTripSelect(r)
  <2>. DEFINE c == q.conn
              k == conn[c]
  <2>1. /\ c \in Conns /\ q.pc = "select" /\ handled' = handled /\ env' = env /\ Alone(r)
        /\ \/ qq.answer = q.answer
           \/ k.rl = "deliver" /\ k.rc = r /\ k.resp # ErrResp /\ qq.answer = k.resp.of
    BY <1>0, <1>6, SelectDoes DEF Alone
  <2>2. CASE k.rl = "deliver" /\ k.rc = r /\ k.resp # ErrResp /\ qq.answer = k.resp.of
    <3>1. Own(handled, k)
      BY <1>0, <2>1 DEF WireInv, WireAt
    <3>2. k.resp = Gone \/ (k.resp \in Final(r) /\ handled[r] > 0)
      BY <2>2, <3>1 DEF Own
    <3>3. k.resp.of = "408" \/ (k.resp.of = r /\ handled[r] > 0)
      BY <3>2, MessageFacts DEF Final
    <3>. QED  BY <1>1, <2>1, <2>2, <3>3, StepEnds
  <2>. QED  BY <1>2, <2>1, <2>2
<1>. QED  BY <1>3, <1>4, <1>5, <1>6 DEF Caller

\* The loops of a connection answer nobody by themselves, and the server acts
\* on a request as often as it may.
LEMMA ConnPromised ==
  ASSUME Inv5, NEW c \in Conns,
         writeLoop(c) \/ readLoop(c) \/ closeConnIfStillIdle(c) \/ Server(c)
  PROVE  Promised!Next \/ UNCHANGED Promised!vars
<1>0. Inv1 /\ Inv2 /\ WireInv /\ OnceInv
  BY DEF Inv5, Inv4, Inv3, Inv2
<1>1. CASE writeLoop(c)
  <2>1. WriterAt(c)
    BY <1>0, <1>1, NoWriteDoes, WriteDoes DEF writeLoop
  <2>2. env' = env /\ handled' = handled /\ Silent
    BY <2>1 DEF WriterAt, Silent
  <2>. QED  BY <2>2, StepUnseen
<1>2. CASE readLoop(c) \/ closeConnIfStillIdle(c)
  <2>1. ASSUME LoopAt(c) PROVE UNCHANGED Promised!vars
    <3>1. env' = env /\ handled' = handled /\ Silent
      BY <2>1 DEF LoopAt, Untouched, Silent
    <3>. QED  BY <3>1, StepUnseen
  <2>2. CASE readResponse(c)
    <3>1. env' = env /\ handled' = handled /\ Silent
      BY <2>2 DEF readResponse, Silent
    <3>. QED  BY <3>1, StepUnseen
  <2>3. CASE readLoopPeek(c) \/ readLoopExpect(c) \/ readResponseFails(c)
    BY <1>0, <2>1, <2>3, PeekDoes, ExpectDoes, ReadFailsDoes
  <2>4. CASE readLoopBodyWait(c) \/ closeConnIfStillIdle(c)
    BY <1>0, <2>1, <2>4, BodyWaitDoes, CloseIdleDoes
  <2>5. CASE wroteRequest(c) \/ tryPutIdleConnCheck(c) \/ tryPutIdleConn(c)
    BY <1>0, <2>1, <2>5, RecycleDoes
  <2>6. CASE readLoopCallerGone(c) \/ readLoopExit(c) \/ readLoopClose(c) \/ removeIdleConn(c)
    BY <1>0, <2>1, <2>6, EndDoes
  <2>. QED  BY <1>2, <2>2, <2>3, <2>4, <2>5, <2>6 DEF readLoop
<1>3. CASE Server(c)
  <2>1. env' = env /\ Silent
    BY <1>3 DEF Server, serverRead, serverReply, serverHint, serverTimeout, serverClose, Silent
  <2>2. CASE handled' = handled
    BY <2>1, <2>2, StepUnseen
  <2>3. CASE handled' # handled
    <3>. DEFINE l == Latest(conn[c])
    <3>1. serverRead(c)
      BY <1>3, <2>3 DEF Server, serverReply, serverHint, serverTimeout, serverClose
    <3>2. /\ net[c].fin = "no" /\ l \in Reqs /\ HasHead(net[c])
          /\ handled' = [handled EXCEPT ![l] = @ + 1]
      BY <1>0, <2>3, <3>1, ServerReadDoes
    <3>3. Token(c, l) /\ Once(l)
      BY <1>0, <3>2 DEF Token, Fresh, OnceInv
    <3>4. handled[l] = 0 \/ isReplayable(l)
      BY <3>3 DEF Once
    <3>5. PICK r \in Reqs : r = l
      BY <3>2
    <3>. HIDE DEF l
    <3>. QED  BY <2>1, <3>2, <3>4, <3>5, StepHandles
  <2>. QED  BY <2>2, <2>3
<1>. QED  BY <1>1, <1>2, <1>3

\* Every step of Exchange is a step of RoundTripper, or none.
LEMMA NextPromised ==
  ASSUME Inv5, [Next]_vars PROVE [Promised!Next]_(Promised!vars)
<1>0. Inv1
  BY DEF Inv5, Inv4, Inv3, Inv2
<1>1. CASE UNCHANGED vars
  <2>1. env' = env /\ handled' = handled /\ Silent
    BY <1>1 DEF vars, Silent
  <2>. QED  BY <2>1, StepUnseen
<1>2. ASSUME NEW r \in Reqs, User(r) \/ Cancel(r) PROVE UNCHANGED Promised!vars
  <2>1. CASE User(r)
    <3>1. env' = env /\ handled' = handled /\ Silent
      BY <1>0, <2>1, UserDoes DEF Silent
    <3>. QED  BY <3>1, StepUnseen
  <2>2. CASE Cancel(r)
    <3>1. req \in [Reqs -> ReqType]
      BY <1>0 DEF Inv1, TypeOK
    <3>2. env' = env /\ handled' = handled /\ Silent
      BY <2>2, <3>1 DEF Cancel, Silent, ReqType
    <3>. QED  BY <3>2, StepUnseen
  <2>. QED  BY <1>2, <2>1, <2>2
<1>. QED  BY <1>1, <1>2, CallerPromised, ConnPromised DEF Next

\* The invariant of Exchange behind the refinement: what is on every wire
\* belongs to the request that was sent last, callers wait for their own
\* request, and what must not be repeated is on one connection at most.
THEOREM Exchanges == Spec => []Inv5
<1>1. Init => Inv5
  BY InitLane, InitFrame, InitWire, InitCalls, InitOnce DEF Inv5, Inv4, Inv3, Inv2
<1>2. Inv5 /\ [Next]_vars => Inv5'
  BY NextOnce
<1>. QED  BY <1>1, <1>2, PTL DEF Spec

\* Transport.roundTrip keeps the promise of a RoundTripper, for any number of
\* requests and connections: whoever gets a response gets that of its own
\* request, the server having acted on it, and the server acts more than once
\* only on a request that may be repeated.
THEOREM Promise == Spec => ImplementsRoundTripper
<1>1. Init => Promised!Init
  BY DEF Init, Promised!Init, NewReq
<1>2. Inv5 /\ [Next]_vars => [Promised!Next]_(Promised!vars)
  BY NextPromised
<1>. QED  BY <1>1, <1>2, Exchanges, PTL DEF Spec, ImplementsRoundTripper, Promised!Spec

-----------------------------------------------------------------------------
(* The request bodies.                                                     *)

\* The write loop has the request, or it waits in writech.
InHand(k) == k.writech # NoReq \/ k.wl \in {"head", "wait", "body"}

\* The write loop has yet to close the body of r.
Has(k, r) == k.wr = r /\ k.wl \in {"head", "wait", "body"}

\* The caller of r waits for what the loops of c do.
Selecting(c, r) == r \in Reqs /\ req[r].conn = c /\ req[r].pc = "select"

\* The read loop works for a caller that has not been answered.
Occupied(k) == k.rl \in {"response", "deliver"} \/ (k.rl \in Finishing /\ ~k.resp.body)

\* While the connection is whole, the caller it works for is there.
Attended(c) ==
    LET k == conn[c] IN
    ~isBroken(k) =>
        /\ k.reqch # NoReq => Selecting(c, k.reqch)
        /\ Occupied(k) => Selecting(c, k.rc)

\* The request that comes next is not the one whose response is handed out.
Apart(k) == Recycled(k) /\ k.reqch # NoReq => k.rc # k.reqch

\* A response to a request comes after something of it was written.
Written(k) ==
    k.rl \in {"deliver", "bodyWait"} \cup Finishing /\ ~Recycled(k) /\ k.resp \notin {ErrResp, Gone}
        => k.wrote

\* The caller of r is in the way of no response of an earlier attempt; while it
\* waits, a body that is not closed is in the hands of the write loop, and when
\* it has returned the write loop has it.
Closing(r) ==
    LET q == req[r]
        k == conn[q.conn]
    IN
    /\ q.pc \in {"enter", "send"} => ~(Recycled(k) /\ k.rc = r)
    /\ hasBody(r) /\ ~q.didClose =>
          /\ q.pc = "select" => Latest(k) = r /\ InHand(k) /\ ~(Recycled(k) /\ k.rc = r)
          /\ q.pc = "done" /\ q.answer # "408" => \E c \in Conns : Has(conn[c], r)

CloseInv ==
    /\ \A c \in Conns : Attended(c) /\ Apart(conn[c]) /\ Written(conn[c])
    /\ \A r \in Reqs : Closing(r)

\* What a step does to a connection that hands no request to its read loop.
Follows(k, kk) ==
    /\ isBroken(k) => isBroken(kk)
    /\ kk.reqch # NoReq => kk.reqch = k.reqch
    /\ Occupied(kk) => \/ Occupied(k) /\ kk.rc = k.rc
                       \/ k.reqch # NoReq /\ kk.rc = k.reqch
    /\ Recycled(kk) => kk.idle \/ (Recycled(k) /\ kk.rc = k.rc)
    /\ Written(k) => Written(kk)

\* Nothing happens.
LEMMA FollowsSame ==
  ASSUME NEW k PROVE Follows(k, k)
BY DEF Follows

\* The callers that wait on connections go on waiting.
LEMMA AttendStep ==
  ASSUME Inv1', NEW c \in Conns, Attended(c), Apart(conn[c]), Written(conn[c]),
         Follows(conn[c], conn'[c]),
         \A s : /\ Selecting(c, s) /\ ~isBroken(conn'[c])
                /\ s = conn'[c].reqch \/ (Occupied(conn'[c]) /\ s = conn'[c].rc)
                => Selecting(c, s)'
  PROVE  Attended(c)' /\ Apart(conn'[c]) /\ Written(conn'[c])
<1>. DEFINE k == conn[c]
            kk == conn'[c]
<1>1. kk.idle => kk.reqch = NoReq
  BY DEF Inv1, LaneInv, Good, OneUse, Fit
<1>2. Attended(c)'
  <2>. SUFFICES ASSUME ~isBroken(kk)
                PROVE  /\ kk.reqch # NoReq => \E s : s = kk.reqch /\ Selecting(c, s)'
                       /\ Occupied(kk) => \E s : s = kk.rc /\ Selecting(c, s)'
    BY DEF Attended, isBroken, Occupied, Selecting
  <2>1. ~isBroken(k)
    BY DEF Follows
  <2>2. (k.reqch # NoReq => Selecting(c, k.reqch)) /\ (Occupied(k) => Selecting(c, k.rc))
    BY <2>1 DEF Attended
  <2>3. kk.reqch # NoReq => Selecting(c, kk.reqch)
    BY <2>2 DEF Follows
  <2>4. Occupied(kk) => Selecting(c, kk.rc)
    BY <2>2 DEF Follows
  <2>. QED  BY <2>3, <2>4
<1>3. Apart(kk)
  BY <1>1 DEF Apart, Follows
<1>4. Written(kk)
  BY DEF Follows
<1>. QED  BY <1>2, <1>3, <1>4

\* The call of r stays where it is, and its body stays closed.
Remains(r) ==
    /\ req'[r].pc = req[r].pc /\ req'[r].conn = req[r].conn /\ req'[r].answer = req[r].answer
    /\ req[r].didClose => req'[r].didClose

\* A step of a connection keeps the body of r in hand, or closes it.
Binds(k, kk, r) ==
    /\ Recycled(kk) => kk.idle \/ (Recycled(k) /\ kk.rc = k.rc)
    /\ ~req'[r].didClose => /\ Has(k, r) => Has(kk, r)
                            /\ Latest(k) = r /\ InHand(k) => Latest(kk) = r /\ InHand(kk)

\* ... so it is still to be closed.
LEMMA CloseStays ==
  ASSUME Inv1, Inv1', env' = env, NEW r \in Reqs, Closing(r), Remains(r),
         \A d \in Conns : Binds(conn[d], conn'[d], r)
  PROVE  Closing(r)'
<1>. DEFINE c == req[r].conn
            k == conn[c]
            kk == conn'[c]
            q == req[r]
            qq == req'[r]
<1>1. qq.pc = q.pc /\ qq.conn = c /\ qq.answer = q.answer /\ (q.didClose => qq.didClose)
  BY DEF Remains
<1>2. q.pc \in {"enter", "send", "select"} => c \in Conns
  BY AtReq DEF Placed
<1>3. q.pc \in {"enter", "send"} => ~kk.idle
  <2>. SUFFICES ASSUME q.pc \in {"enter", "send"} PROVE ~kk.idle
    OBVIOUS
  <2>1. PICK d \in Conns : d = c
    BY <1>2
  <2>2. Pre(d, r)'
    BY <1>1, <2>1 DEF Pre
  <2>. QED  BY <2>1, <2>2 DEF Inv1, LaneInv, Claim
<1>4. c \in Conns /\ InHand(kk) => ~kk.idle
  BY DEF Inv1, LaneInv, Good, OneUse, Fit, InHand
<1>5. c \in Conns => Binds(k, kk, r)
  OBVIOUS
<1>7. hasBody(r)' = hasBody(r)
  BY DEF hasBody
<1>8. q.pc \in {"enter", "send"} => ~(Recycled(kk) /\ kk.rc = r)
  BY <1>2, <1>3, <1>5 DEF Binds, Closing
<1>9. ASSUME hasBody(r), ~qq.didClose, q.pc = "select"
      PROVE  Latest(kk) = r /\ InHand(kk) /\ ~(Recycled(kk) /\ kk.rc = r)
  <2>1. Latest(k) = r /\ InHand(k) /\ ~(Recycled(k) /\ k.rc = r) /\ c \in Conns
    BY <1>1, <1>2, <1>9 DEF Closing
  <2>. QED  BY <1>4, <1>5, <1>9, <2>1 DEF Binds
<1>10. ASSUME hasBody(r), ~qq.didClose, q.pc = "done", q.answer # "408"
       PROVE  \E d \in Conns : Has(conn'[d], r)
  <2>1. PICK d \in Conns : Has(conn[d], r)
    BY <1>1, <1>10 DEF Closing
  <2>. QED  BY <1>10, <2>1 DEF Binds
<1>. QED  BY <1>1, <1>7, <1>8, <1>9, <1>10 DEF Closing, Latest, InHand, Recycled, Has

\* The read loop leaves the request bodies alone.
LEMMA ReaderShuts ==
  ASSUME Inv1, NEW c \in Conns, readLoop(c) \/ closeConnIfStillIdle(c)
  PROVE  \A s \in Reqs : req'[s].didClose = req[s].didClose
<1>1. req \in [Reqs -> ReqType]
  BY DEF Inv1, TypeOK
<1>2. ASSUME NEW k, NEW alive, AfterRecycle(c, k, alive)
      PROVE  \A s \in Reqs : req'[s].didClose = req[s].didClose
  BY <1>1, <1>2 DEF AfterRecycle, ReqType
<1>3. CASE readLoopPeek(c) \/ readLoopExpect(c) \/ readResponse(c) \/ readResponseFails(c)
  BY <1>3 DEF readLoopPeek, readLoopExpect, readResponse, readResponseFails
<1>4. CASE readLoopCallerGone(c) \/ readLoopBodyWait(c) \/ closeConnIfStillIdle(c)
  BY <1>4 DEF readLoopCallerGone, readLoopBodyWait, closeConnIfStillIdle
<1>5. CASE readLoopClose(c) \/ removeIdleConn(c)
  BY <1>5 DEF readLoopClose, removeIdleConn
<1>6. CASE wroteRequest(c)
  BY <1>2, <1>6 DEF wroteRequest
<1>7. CASE tryPutIdleConnCheck(c) \/ tryPutIdleConn(c)
  BY <1>2, <1>7 DEF tryPutIdleConnCheck, tryPutIdleConn
<1>8. CASE readLoopExit(c)
  BY <1>1, <1>8 DEF readLoopExit, ReqType
<1>. QED  BY <1>3, <1>4, <1>5, <1>6, <1>7, <1>8 DEF readLoop

\* The read loop takes requests one by one, and puts the connection back into
\* the pool before it hands out the response.
LEMMA ReaderFollows ==
  ASSUME Inv1, WireInv, NEW c \in Conns, readLoop(c) \/ closeConnIfStillIdle(c)
  PROVE  /\ Follows(conn[c], conn'[c]) /\ SameWriter(conn[c], conn'[c])
         /\ OnlyAt(c) /\ env' = env
         /\ \A s \in Reqs : Remains(s)
<1>. DEFINE k == conn[c]
            kk == conn'[c]
<1>1. k \in ConnType /\ Good(k)
  BY AtConn
<1>2. \A s \in Reqs : req'[s].didClose = req[s].didClose
  BY ReaderShuts
<1>3. ASSUME LoopAt(c), Follows(k, kk)
      PROVE  /\ Follows(k, kk) /\ SameWriter(k, kk) /\ OnlyAt(c) /\ env' = env
             /\ \A s \in Reqs : Remains(s)
  BY <1>2, <1>3 DEF LoopAt, Untouched, Remains
<1>4. CASE readLoopPeek(c)
  <2>1. LoopAt(c) /\ kk.rl = "peeked" /\ kk.reqch = k.reqch /\ SameWriter(k, kk)
    BY <1>4, PeekDoes DEF LoopAt
  <2>2. Follows(k, kk)
    BY <2>1 DEF Follows, Occupied, Recycled, Written, Finishing, SameWriter
  <2>. QED  BY <1>3, <2>1, <2>2
<1>5. CASE readLoopExpect(c)
  <2>1. /\ LoopAt(c) /\ SameWriter(k, kk)
        /\ \/ kk.rl = "exit" /\ kk.reqch = k.reqch
           \/ /\ k.reqch # NoReq /\ kk.reqch = NoReq /\ kk.rc = k.reqch
              /\ kk.rl = "response" \/ (kk.rl = "deliver" /\ kk.resp = ErrResp)
    BY <1>5, ExpectDoes DEF LoopAt
  <2>2. Follows(k, kk)
    BY <2>1 DEF Follows, Occupied, Recycled, Written, Finishing, SameWriter
  <2>. QED  BY <1>3, <2>1, <2>2
<1>6. CASE readResponseFails(c)
  <2>1. /\ LoopAt(c) /\ SameWriter(k, kk) /\ k.rl = "response" /\ kk.rl = "deliver" /\ kk.resp = ErrResp
        /\ kk.rc = k.rc /\ kk.reqch = k.reqch
    BY <1>6, ReadFailsDoes DEF LoopAt
  <2>2. Follows(k, kk)
    BY <2>1 DEF Follows, Occupied, Recycled, Written, SameWriter
  <2>. QED  BY <1>3, <2>1, <2>2
<1>7. CASE readLoopCallerGone(c) \/ readLoopExit(c) \/ readLoopClose(c) \/ removeIdleConn(c)
  <2>1. LoopAt(c) /\ SameWriter(k, kk) /\ kk.rl \in Ending /\ kk.reqch = k.reqch
    BY <1>7, EndDoes DEF LoopAt
  <2>2. Follows(k, kk)
    BY <2>1 DEF Follows, Occupied, Recycled, Written, Finishing, Ending, SameWriter
  <2>. QED  BY <1>3, <2>1, <2>2
<1>8. CASE closeConnIfStillIdle(c)
  <2>1. LoopAt(c) /\ SameWriter(k, kk) /\ SameReader(k, kk)
    BY <1>8, CloseIdleDoes DEF LoopAt
  <2>2. Follows(k, kk)
    BY <2>1 DEF Follows, Occupied, Recycled, Written, SameReader, SameWriter
  <2>. QED  BY <1>3, <2>1, <2>2
<1>9. CASE readLoopBodyWait(c)
  <2>1. /\ LoopAt(c) /\ SameWriter(k, kk) /\ k.rl = "bodyWait" /\ kk.reqch = k.reqch
        /\ (kk.rl = "recycle" /\ kk.resp = k.resp) \/ kk.rl = "exit"
    BY <1>9, BodyWaitDoes DEF LoopAt
  <2>2. k.resp.body
    BY <1>1, <2>1 DEF Good, Reading
  <2>3. Follows(k, kk)
    BY <2>1, <2>2 DEF Follows, Occupied, Recycled, Written, Finishing, SameWriter
  <2>. QED  BY <1>3, <2>1, <2>3
<1>10. CASE wroteRequest(c) \/ tryPutIdleConnCheck(c) \/ tryPutIdleConn(c)
  <2>1. /\ LoopAt(c) /\ SameWriter(k, kk) /\ k.rl \in Finishing /\ kk.reqch = k.reqch /\ kk.rc = k.rc
        /\ kk.resp = k.resp
        /\ \/ kk.rl \in {"put", "putLocked"}
           \/ kk.rl = (IF k.resp.body THEN "exit" ELSE "deliver") /\ kk.alive = FALSE
           \/ kk.rl = (IF k.resp.body THEN "peek" ELSE "deliver") /\ kk.alive = TRUE /\ kk.idle = TRUE
    BY <1>10, RecycleDoes DEF LoopAt
  <2>2. Follows(k, kk)
    BY <2>1 DEF Follows, Occupied, Recycled, Written, Finishing, SameWriter
  <2>. QED  BY <1>3, <2>1, <2>2
<1>11. CASE readResponse(c)
  <2>. DEFINE m == Head(net[c].down)
  <2>1. /\ k.rl = "response" /\ net[c].down # <<>>
        /\ OnlyAt(c) /\ req' = req /\ env' = env
        /\ kk.writech = k.writech /\ kk.wl = k.wl /\ kk.wr = k.wr /\ kk.wrote = k.wrote
        /\ kk.werr = k.werr /\ kk.open = k.open /\ kk.closed = k.closed
        /\ kk.reqch = k.reqch /\ kk.rc = k.rc
        /\ \/ kk.rl = "response"
           \/ kk.rl = "deliver" /\ kk.resp = ErrResp
           \/ kk.resp = m /\ kk.rl = IF m.body THEN "deliver" ELSE "recycle"
    BY <1>11, ReadResponseDoes
  <2>2. m # Gone => k.wrote
    <3>1. Belongs(handled, Latest(k), k.wrote, net[c]) /\ net[c].down \in Seq(Message)
      BY AtConn DEF WireInv, WireAt, Wire, NetType
    <3>2. 1 \in 1 .. Len(net[c].down) /\ m = net[c].down[1]
      BY <2>1, <3>1
    <3>. QED  BY <3>1, <3>2 DEF Belongs
  <2>. HIDE DEF m
  <2>3. SameWriter(k, kk)
    BY <2>1 DEF SameWriter, isBroken
  <2>4. Follows(k, kk)
    BY <2>1, <2>2, <2>3 DEF Follows, Occupied, Recycled, Written, Finishing, SameWriter
  <2>5. \A s \in Reqs : Remains(s)
    BY <2>1 DEF Remains
  <2>. QED  BY <2>1, <2>3, <2>4, <2>5
<1>. QED  BY <1>4, <1>5, <1>6, <1>7, <1>8, <1>9, <1>10, <1>11 DEF readLoop

\* Who has a request in hand keeps it while the writer's side is as it was.
LEMMA SameBinds ==
  ASSUME NEW k, NEW kk, SameWriter(k, kk), Follows(k, kk), NEW r PROVE Binds(k, kk, r)
BY DEF SameWriter, Follows, Binds, Has, Latest, InHand

\* Nothing happens.
LEMMA BindsSame ==
  ASSUME NEW k, NEW r PROVE Binds(k, k, r)
BY DEF Binds

\* A step at one connection, in which nobody's call goes on.
LEMMA CloseStep ==
  ASSUME Inv1, Inv1', CloseInv, NEW c \in Conns, OnlyAt(c), env' = env,
         Follows(conn[c], conn'[c]),
         \A s \in Reqs : Remains(s) /\ Binds(conn[c], conn'[c], s)
  PROVE  CloseInv'
<1>1. ASSUME NEW d \in Conns PROVE Attended(d)' /\ Apart(conn'[d]) /\ Written(conn'[d])
  <2>1. Follows(conn[d], conn'[d])
    BY FollowsSame DEF OnlyAt
  <2>2. \A s : Selecting(d, s) => Selecting(d, s)'
    BY DEF Remains, Selecting
  <2>. QED  BY <2>1, <2>2, AttendStep DEF CloseInv
<1>2. ASSUME NEW r \in Reqs PROVE Closing(r)'
  <2>1. \A d \in Conns : Binds(conn[d], conn'[d], r)
    BY BindsSame DEF OnlyAt
  <2>. QED  BY <2>1, CloseStays DEF CloseInv
<1>. QED  BY <1>1, <1>2 DEF CloseInv, Apart, Written, Recycled

\* ... by the read loop.
LEMMA ReaderCloses ==
  ASSUME Inv3, Inv1', CloseInv, NEW c \in Conns, readLoop(c) \/ closeConnIfStillIdle(c) PROVE CloseInv'
<1>1. Inv1 /\ WireInv
  BY DEF Inv3, Inv2
<1>. QED  BY <1>1, ReaderFollows, SameBinds, CloseStep

\* ... by the user of a response.
LEMMA UserCloses ==
  ASSUME Inv1, Inv1', CloseInv, NEW r \in Reqs, User(r) PROVE CloseInv'
<1>. DEFINE c == req[r].conn
            k == conn[c]
            kk == conn'[c]
<1>1. /\ c \in Conns /\ OnlyAt(c) /\ env' = env /\ SameWriter(k, kk)
      /\ kk.rl = k.rl /\ kk.rc = k.rc /\ kk.reqch = k.reqch /\ kk.resp = k.resp /\ kk.alive = k.alive
      /\ Alone(r) /\ req'[r].pc = req[r].pc /\ req'[r].conn = c /\ req'[r].answer = req[r].answer
  BY UserDoes DEF Alone
<1>2. req'[r].didClose = req[r].didClose
  <2>1. req \in [Reqs -> ReqType]
    BY DEF Inv1, TypeOK
  <2>. QED  BY <2>1 DEF User, bodyReadEOF, bodyReadErr, bodyClose, ReqType
<1>3. \A s \in Reqs : Remains(s)
  BY <1>1, <1>2 DEF Remains, Alone
<1>4. Follows(k, kk)
  BY <1>1 DEF Follows, Occupied, Recycled, Written, SameWriter
<1>5. \A s \in Reqs : Binds(k, kk, s)
  BY <1>1, <1>4, SameBinds
<1>. HIDE DEF c
<1>. QED  BY <1>1, <1>3, <1>4, <1>5, CloseStep

\* The write loop closes the body of a request it is done with.
LEMMA WriterShuts ==
  ASSUME Inv1, NEW c \in Conns, writeLoop(c)
  PROVE  /\ \A s \in Reqs : req[s].didClose => req'[s].didClose
         /\ \/ conn[c].wl \notin {"head", "wait", "body"}
            \/ conn'[c].wl \in {"head", "wait", "body"}
            \/ \A s \in Reqs : s = conn[c].wr => req'[s].didClose
<1>1. req \in [Reqs -> ReqType] /\ conn \in [Conns -> ConnType] /\ conn[c] \in ConnType
  BY DEF Inv1, TypeOK
<1>2. CASE writeLoopSelect(c) \/ writeLoopReport(c) \/ writeLoopClose(c)
  <2>1. conn[c].wl \in {"idle", "report", "close"}
    BY <1>2 DEF writeLoopSelect, writeLoopReport, writeLoopClose
  <2>2. ASSUME writeLoopReport(c), NEW s \in Reqs PROVE req'[s].didClose = req[s].didClose
    BY <1>1, <2>2 DEF writeLoopReport, ReqType
  <2>3. ~writeLoopReport(c) => req' = req
    BY <1>2 DEF writeLoopSelect, writeLoopClose
  <2>. QED  BY <2>1, <2>2, <2>3
<1>3. CASE writeRequestHead(c) \/ waitForContinue(c)
  <2>1. CASE req' = req /\ conn'[c].wl \in {"wait", "body"}
    BY <2>1
  <2>2. CASE req' = [req EXCEPT ![conn[c].wr] = closeBody(@)]
    BY <1>1, <2>2 DEF closeBody, ReqType
  <2>. QED  BY <1>1, <1>3, <2>1, <2>2 DEF writeRequestHead, waitForContinue, ConnType
<1>4. CASE writeRequestBody(c)
  BY <1>1, <1>4 DEF writeRequestBody, ReqType
<1>5. CASE writeRequestFails(c)
  BY <1>1, <1>5 DEF writeRequestFails, ReqType
<1>. QED  BY <1>2, <1>3, <1>4, <1>5 DEF writeLoop

\* ... and keeps the others.
LEMMA WriterCloses ==
  ASSUME Inv2, Inv1', CloseInv, NEW c \in Conns, writeLoop(c) PROVE CloseInv'
<1>. DEFINE k == conn[c]
            kk == conn'[c]
            Stages == {"head", "wait", "body"}
<1>0. Inv1 /\ k \in ConnType /\ Good(k)
  BY AtConn DEF Inv2
<1>1. /\ WriterAt(c) /\ (k.wrote => kk.wrote)
      /\ \/ /\ k.wl = "idle" /\ k.writech # NoReq /\ kk.writech = NoReq /\ kk.wr = k.writech
            /\ kk.wl \in Stages
         \/ kk.writech = k.writech /\ kk.wr = k.wr
  <2>1. CASE writeLoopSelect(c) \/ waitForContinue(c) \/ writeLoopReport(c) \/ writeLoopClose(c)
    BY <1>0, <2>1, NoWriteDoes
  <2>2. CASE writeRequestHead(c) \/ writeRequestBody(c) \/ writeRequestFails(c)
    BY <2>2, WriteDoes DEF Writes
  <2>. QED  BY <2>1, <2>2 DEF writeLoop
<1>2. /\ \A s \in Reqs : req[s].didClose => req'[s].didClose
      /\ k.wl \in Stages /\ kk.wl \notin Stages => \A s \in Reqs : s = k.wr => req'[s].didClose
  BY <1>0, WriterShuts
<1>3. \A s \in Reqs : Remains(s)
  BY <1>1, <1>2 DEF WriterAt, Remains
<1>4. Follows(k, kk)
  BY <1>1 DEF Follows, Occupied, Recycled, Written, WriterAt, SameReader
<1>5. ASSUME NEW s \in Reqs PROVE Binds(k, kk, s)
  <2>1. k.wl \in Stages => k.writech = NoReq
    BY <1>0 DEF Good, WriteStages
  <2>2. Recycled(kk) => kk.idle \/ (Recycled(k) /\ kk.rc = k.rc)
    BY <1>4 DEF Follows
  <2>3. ASSUME ~req'[s].didClose, Has(k, s) PROVE Has(kk, s)
    BY <1>1, <1>2, <2>1, <2>3 DEF Has
  <2>4. ASSUME ~req'[s].didClose, Latest(k) = s, InHand(k) PROVE InHand(kk)
    BY <1>1, <1>2, <2>1, <2>4 DEF InHand, Latest
  <2>5. Latest(kk) = Latest(k)
    BY <1>1 DEF WriterAt
  <2>. QED  BY <2>2, <2>3, <2>4, <2>5 DEF Binds
<1>. QED  BY <1>0, <1>1, <1>3, <1>4, <1>5, CloseStep DEF WriterAt

\* A step that concerns the callers other than r only at a connection that
\* stays as it is for them.
LEMMA OthersClose ==
  ASSUME Inv1, Inv1', CloseInv, env' = env, NEW r, Alone(r),
         \A d \in Conns : Follows(conn[d], conn'[d]),
         \A d \in Conns : \A s \in Reqs : s # r => Binds(conn[d], conn'[d], s),
         \A d \in Conns :
            ~isBroken(conn'[d]) /\ Selecting(d, r)
            /\ (r = conn'[d].reqch \/ (Occupied(conn'[d]) /\ r = conn'[d].rc)) => Selecting(d, r)',
         r \in Reqs => Closing(r)'
  PROVE  CloseInv'
<1>1. ASSUME NEW d \in Conns PROVE Attended(d)' /\ Apart(conn'[d]) /\ Written(conn'[d])
  <2>1. \A s : s # r => (Selecting(d, s) => Selecting(d, s)')
    BY DEF Alone, Selecting
  <2>2. \A s : /\ Selecting(d, s) /\ ~isBroken(conn'[d])
               /\ s = conn'[d].reqch \/ (Occupied(conn'[d]) /\ s = conn'[d].rc)
               => Selecting(d, s)'
    BY <2>1
  <2>. QED  BY <2>2, AttendStep DEF CloseInv
<1>2. ASSUME NEW s \in Reqs, s # r PROVE Closing(s)'
  <2>1. Remains(s)
    BY <1>2 DEF Remains, Alone
  <2>. QED  BY <1>2, <2>1, CloseStays DEF CloseInv
<1>. QED  BY <1>1, <1>2 DEF CloseInv, Apart, Written, Recycled

\* A step that leaves the connections alone.
LEMMA NoConnClose ==
  ASSUME Inv1, Inv1', CloseInv, env' = env, conn' = conn, NEW r, Alone(r),
         r \in Reqs => req[r].pc # "select" /\ Closing(r)'
  PROVE  CloseInv'
<1>1. \A d \in Conns : Follows(conn[d], conn'[d]) /\ \A s \in Reqs : Binds(conn[d], conn'[d], s)
  BY FollowsSame, BindsSame
<1>2. \A d \in Conns : ~Selecting(d, r)
  BY DEF Selecting
<1>. QED  BY <1>1, <1>2, OthersClose

\* ... by the server, or when a caller gives up.
LEMMA ServerCloses ==
  ASSUME Inv1, Inv1', CloseInv, UNCHANGED <<conn, env>>,
         \A s \in Reqs : Remains(s)
  PROVE  CloseInv'
<1>1. \A d \in Conns : Follows(conn[d], conn'[d]) /\ \A s \in Reqs : Binds(conn[d], conn'[d], s)
  BY FollowsSame, BindsSame
<1>2. \A d \in Conns : \A s : Selecting(d, s) => Selecting(d, s)'
  BY DEF Selecting, Remains
<1>3. ASSUME NEW d \in Conns PROVE Attended(d)' /\ Apart(conn'[d]) /\ Written(conn'[d])
  BY <1>1, <1>2, AttendStep DEF CloseInv
<1>4. \A s \in Reqs : Closing(s)'
  BY <1>1, CloseStays DEF CloseInv
<1>. QED  BY <1>3, <1>4 DEF CloseInv, Apart, Written, Recycled

\* A caller that has no connection, or no longer needs it, closes the body
\* when it returns.
LEMMA CallerShuts ==
  ASSUME Inv1, NEW r \in Reqs,
         \/ roundTripReject(r) \/ roundTripCached(r) \/ roundTripCachedEnd(r)
         \/ mapRoundTripError(r) \/ roundTripFailed(r) \/ getConn(r),
         req'[r].pc = "done"
  PROVE  req'[r].didClose
<1>1. req \in [Reqs -> ReqType] /\ req[r] \in ReqType
  BY DEF Inv1, TypeOK
<1>2. ASSUME NEW q \in ReqType, NEW a, req' = [req EXCEPT ![r] = Return(closeBody(q), a)]
      PROVE  req'[r].didClose
  BY <1>1, <1>2 DEF Return, closeBody, ReqType
<1>3. ASSUME NEW q \in ReqType, NEW qq \in rewindBody(r, q, "loop"), req' = [req EXCEPT ![r] = qq]
      PROVE  req'[r].didClose
  <2>1. CASE qq = Return(closeBody(q), "error")
    BY <1>2, <1>3, <2>1
  <2>2. CASE qq.pc = "loop"
    BY <1>1, <1>3, <2>2
  <2>. QED  BY <1>3, <2>1, <2>2 DEF rewindBody, ReqType
<1>4. CASE roundTripReject(r)
  BY <1>1, <1>2, <1>4 DEF roundTripReject
<1>5. CASE roundTripCached(r)
  <2>1. [closeBody(req[r]) EXCEPT !.didRead = TRUE] \in ReqType
    BY <1>1 DEF closeBody, ReqType
  <2>2. ASSUME NEW qq \in rewindBody(r, [closeBody(req[r]) EXCEPT !.didRead = TRUE], "loop"),
               req' = [req EXCEPT ![r] = qq]
        PROVE  req'[r].didClose
    BY <1>3, <2>1, <2>2
  <2>3. CASE req' = [req EXCEPT ![r].pc = "loop"] \/ req' = [req EXCEPT ![r].pc = "cached"]
    BY <1>1, <2>3 DEF ReqType
  <2>. QED  BY <1>5, <2>2, <2>3 DEF roundTripCached
<1>6. CASE roundTripCachedEnd(r)
  BY <1>1, <1>6 DEF roundTripCachedEnd, Return, closeBody, ReqType
<1>7. CASE mapRoundTripError(r)
  BY <1>1, <1>7 DEF mapRoundTripError, ReqType
<1>8. CASE roundTripFailed(r)
  BY <1>1, <1>2, <1>3, <1>8 DEF roundTripFailed
<1>9. CASE getConn(r)
  <2>1. CASE req' = [req EXCEPT ![r] = Return(closeBody(@), "error")]
    BY <1>1, <1>2, <2>1
  <2>2. ASSUME NEW c, req' = [req EXCEPT ![r].pc = "enter", ![r].conn = c] PROVE FALSE
    BY <1>1, <2>2 DEF ReqType
  <2>. QED  BY <1>9, <2>1, <2>2 DEF getConn
<1>. QED  BY <1>4, <1>5, <1>6, <1>7, <1>8, <1>9

\* ... so there is nothing to be closed.
LEMMA CallerCloses ==
  ASSUME Inv1, Inv1', CloseInv, NEW r \in Reqs,
         \/ roundTripReject(r) \/ roundTripCached(r) \/ roundTripCachedEnd(r)
         \/ mapRoundTripError(r) \/ roundTripFailed(r)
  PROVE  CloseInv'
<1>1. /\ conn' = conn /\ env' = env /\ Alone(r) /\ req[r].pc # "select"
      /\ req'[r].pc \in {"done", "loop", "cached", "failed"}
  BY CallerDoes DEF Ends
<1>2. req'[r].pc = "done" => req'[r].didClose
  BY CallerShuts
<1>3. Closing(r)'
  BY <1>1, <1>2 DEF Closing
<1>. QED  BY <1>1, <1>3, NoConnClose

\* A caller gets a connection: the response it may still hand out is not that
\* of an earlier attempt, whose caller would be waiting for it.
LEMMA GetConnCloses ==
  ASSUME Inv1, Inv1', CloseInv, NEW r \in Reqs, getConn(r) PROVE CloseInv'
<1>1. req[r].pc = "loop" /\ env' = env /\ Alone(r)
  BY GetConnDoes
<1>2. CASE conn' = conn /\ Ends(r, "error")
  <2>1. req'[r].didClose /\ req'[r].pc = "done"
    BY <1>2, CallerShuts DEF Ends
  <2>2. Closing(r)'
    BY <2>1 DEF Closing
  <2>. QED  BY <1>1, <1>2, <2>2, NoConnClose
<1>3. ASSUME NEW c \in Conns,
             conn[c].open => conn[c].idle,
             ~isBroken(conn[c]),
             \A d \in Conns : d # c => conn'[d] = conn[d],
             conn'[c] = [conn[c] EXCEPT !.open = TRUE, !.idle = FALSE],
             req'[r].pc = "enter", req'[r].conn = c
      PROVE  CloseInv'
  <2>. DEFINE k == conn[c]
              kk == conn'[c]
  <2>1. /\ kk.writech = k.writech /\ kk.wl = k.wl /\ kk.wr = k.wr /\ kk.wrote = k.wrote
        /\ kk.rl = k.rl /\ kk.rc = k.rc /\ kk.reqch = k.reqch /\ kk.resp = k.resp /\ kk.alive = k.alive
        /\ kk.closed = k.closed
    BY <1>3, AtConn DEF ConnType
  <2>2. Follows(k, kk)
    BY <2>1 DEF Follows, Occupied, Recycled, Written, isBroken
  <2>3. \A s \in Reqs : Binds(k, kk, s)
    BY <2>1 DEF Binds, Recycled, Has, Latest, InHand
  <2>4. \A d \in Conns : Follows(conn[d], conn'[d]) /\ \A s \in Reqs : Binds(conn[d], conn'[d], s)
    BY <1>3, <2>2, <2>3, FollowsSame, BindsSame
  <2>5. \A d \in Conns : ~Selecting(d, r)
    BY <1>1 DEF Selecting
  <2>6. ~(Recycled(k) /\ k.rc = r)
    BY <1>3, <2>5 DEF CloseInv, Attended, Occupied, Recycled
  <2>7. Closing(r)'
    BY <1>3, <2>1, <2>6 DEF Closing, Recycled
  <2>. QED  BY <1>1, <2>4, <2>5, <2>7, OthersClose
<1>. QED  BY <1>2, <1>3, GetConnDoes

\* The request is handed to both loops: what was there before is out of hand.
LEMMA SendCloses ==
  ASSUME Inv1, Inv1', CloseInv, NEW r \in Reqs, roundTripEnter(r) \/ roundTripSend(r) PROVE CloseInv'
<1>. DEFINE c == req[r].conn
            k == conn[c]
            kk == conn'[c]
            q == req[r]
            qq == req'[r]
<1>1. /\ env' = env /\ Alone(r) /\ c \in Conns /\ Pre(c, r)
      /\ \A d \in Conns : d # c => conn'[d] = conn[d]
      /\ qq.conn = c /\ SameReader(k, [kk EXCEPT !.reqch = k.reqch])
      /\ kk.wl = k.wl /\ kk.wr = k.wr /\ kk.closed = k.closed
      /\ \/ /\ q.pc = "enter" /\ qq.pc = "send"
            /\ kk.reqch = k.reqch /\ kk.writech = k.writech /\ kk.wrote = k.wrote
         \/ /\ q.pc = "send" /\ qq.pc = "select" /\ kk.reqch = r /\ kk.writech = r
  BY SendDoes
<1>2. PICK d \in Conns : d = c
  BY <1>1
<1>3. Fit(k) /\ kk \in ConnType /\ r # NoReq /\ ~(Recycled(k) /\ k.rc = r)
  BY <1>1, <1>2, ExchangeAssumption DEF Inv1, TypeOK, LaneInv, Claim, Pre, CloseInv, Closing
<1>4. kk.rl = k.rl /\ kk.rc = k.rc /\ kk.resp = k.resp /\ kk.alive = k.alive
  BY <1>1, <1>3 DEF SameReader, ConnType
<1>5. Recycled(kk) <=> Recycled(k)
  BY <1>4 DEF Recycled
<1>6. \A s \in Reqs : Binds(k, kk, s)
  BY <1>1, <1>3, <1>4, <1>5 DEF Binds, Has, InHand, Fit
<1>7. \A e \in Conns : \A s \in Reqs : Binds(conn[e], conn'[e], s)
  BY <1>1, <1>6, BindsSame
<1>8. \A e \in Conns : ~Selecting(e, r)
  BY <1>1 DEF Selecting
<1>. HIDE DEF c
<1>9. CASE /\ q.pc = "enter" /\ qq.pc = "send"
           /\ kk.reqch = k.reqch /\ kk.writech = k.writech /\ kk.wrote = k.wrote
  <2>1. Follows(k, kk)
    BY <1>1, <1>4, <1>5, <1>9 DEF Follows, Occupied, Written, isBroken
  <2>2. \A e \in Conns : Follows(conn[e], conn'[e])
    BY <1>1, <2>1, FollowsSame
  <2>3. Closing(r)'
    BY <1>1, <1>3, <1>5, <1>4, <1>9 DEF Closing, Recycled
  <2>. QED  BY <1>1, <1>7, <1>8, <2>2, <2>3, OthersClose
<1>10. CASE q.pc = "send" /\ qq.pc = "select" /\ kk.reqch = r /\ kk.writech = r
  <2>1. ASSUME NEW e \in Conns, e # c PROVE Attended(e)' /\ Apart(conn'[e]) /\ Written(conn'[e])
    <3>1. \A s : s # r => (Selecting(e, s) => Selecting(e, s)')
      BY <1>1 DEF Alone, Selecting
    <3>2. \A s : Selecting(e, s) => Selecting(e, s)'
      BY <1>8, <3>1
    <3>3. Follows(conn[e], conn'[e])
      BY <1>1, <2>1, FollowsSame
    <3>. QED  BY <3>2, <3>3, AttendStep DEF CloseInv
  <2>2. Attended(d)' /\ Apart(kk) /\ Written(kk)
    <3>1. Apart(kk)
      BY <1>3, <1>4, <1>5, <1>10 DEF Apart
    <3>2. Written(kk)
      BY <1>3, <1>4, <1>5 DEF Written, Fit, Resting, Ending, Finishing
    <3>3. Selecting(d, r)'
      BY <1>1, <1>2, <1>10 DEF Selecting
    <3>4. ASSUME ~isBroken(kk), Occupied(kk) PROVE \E s : s = kk.rc /\ Selecting(d, s)'
      <4>1. ~isBroken(k) /\ Occupied(k)
        BY <1>1, <1>4, <3>4 DEF isBroken, Occupied
      <4>2. Selecting(d, k.rc)
        BY <1>2, <4>1 DEF CloseInv, Attended
      <4>. QED  BY <1>1, <1>2, <1>4, <1>8, <4>2 DEF Selecting, Alone
    <3>5. Attended(d)'
      BY <1>2, <1>10, <3>3, <3>4 DEF Attended, isBroken, Occupied, Selecting
    <3>. QED  BY <3>1, <3>2, <3>5
  <2>3. Closing(r)'
    <3>1. Latest(kk) = r /\ InHand(kk) /\ ~(Recycled(kk) /\ kk.rc = r)
      BY <1>3, <1>4, <1>5, <1>10 DEF Latest, InHand
    <3>. QED  BY <1>1, <1>10, <3>1 DEF Closing, Latest, InHand, Recycled
  <2>4. ASSUME NEW s \in Reqs, s # r PROVE Closing(s)'
    <3>1. Remains(s)
      BY <1>1, <2>4 DEF Remains, Alone
    <3>. QED  BY <1>1, <1>7, <3>1, CloseStays DEF CloseInv
  <2>. QED  BY <1>2, <2>1, <2>2, <2>3, <2>4 DEF CloseInv, Apart, Written, Recycled
<1>. QED  BY <1>1, <1>9, <1>10

\* The caller takes its response: something of its request was written, so the
\* write loop has closed the body or has it still.
LEMMA SelectCloses ==
  ASSUME Inv1, Inv1', CloseInv, NEW r \in Reqs, roundTripSelect(r) PROVE CloseInv'
<1>. DEFINE c == req[r].conn
            k == conn[c]
            kk == conn'[c]
            q == req[r]
            qq == req'[r]
<1>1. /\ c \in Conns /\ q.pc = "select" /\ OnlyAt(c) /\ env' = env /\ Alone(r)
      /\ qq.conn = c /\ SameWriter(k, kk)
      /\ kk.reqch = k.reqch /\ kk.rc = k.rc /\ kk.resp = k.resp /\ kk.alive = k.alive
      /\ \/ /\ qq.pc = "select" \/ (qq.pc \in {"map", "failed"} /\ isBroken(kk))
            /\ kk.rl = k.rl /\ qq.answer = q.answer
         \/ k.rl = "deliver" /\ k.rc = r /\ k.resp = ErrResp /\ kk.rl = "exit" /\ qq.pc = "map"
         \/ /\ k.rl = "deliver" /\ k.rc = r /\ k.resp # ErrResp
            /\ kk.rl = IF k.resp.body THEN "bodyWait" ELSE IF k.alive THEN "peek" ELSE "exit"
            /\ qq.pc = "done" /\ qq.answer = k.resp.of
  BY SelectDoes DEF Alone
<1>2. qq.didClose = q.didClose
  <2>1. req \in [Reqs -> ReqType]
    BY DEF Inv1, TypeOK
  <2>2. CASE handleResponse(c, r)
    <3>1. CASE k.resp = ErrResp
      BY <2>1, <2>2, <3>1 DEF handleResponse, ReqType
    <3>2. CASE k.resp # ErrResp
      <4>1. PICK b, x : req' = [req EXCEPT ![r] = [Return(req[r], k.resp.of) EXCEPT !.respBody = b, !.ctx = x]]
        BY <2>2, <3>2 DEF handleResponse
      <4>. QED  BY <2>1, <4>1 DEF Return, ReqType
    <3>. QED  BY <3>1, <3>2
  <2>3. CASE ~handleResponse(c, r)
    BY <2>1, <2>3 DEF roundTripSelect, ReqType
  <2>. QED  BY <2>2, <2>3
<1>3. PICK e \in Conns : e = c
  BY <1>1
<1>4. /\ k \in ConnType /\ Good(k) /\ Apart(k) /\ Written(k) /\ Closing(r) /\ r # NoReq
  BY <1>1, AtConn, ExchangeAssumption DEF CloseInv
<1>5. Follows(k, kk)
  BY <1>1 DEF Follows, Occupied, Recycled, Written, Finishing, SameWriter
<1>6. \A s \in Reqs : Binds(k, kk, s)
  BY <1>1, <1>5, SameBinds
<1>7. \A d \in Conns : Follows(conn[d], conn'[d]) /\ \A s \in Reqs : Binds(conn[d], conn'[d], s)
  BY <1>1, <1>5, <1>6, FollowsSame, BindsSame DEF OnlyAt
<1>8. k.rl = "deliver" /\ k.rc = r => k.reqch # r
  BY <1>4 DEF Apart, Good, OneUse, Resting, Ending
<1>9. ASSUME NEW d \in Conns, ~isBroken(conn'[d]), Selecting(d, r),
             r = conn'[d].reqch \/ (Occupied(conn'[d]) /\ r = conn'[d].rc)
      PROVE  Selecting(d, r)'
  <2>1. d = c
    BY <1>9 DEF Selecting
  <2>2. qq.pc = "select"
    BY <1>1, <1>8, <1>9, <2>1 DEF Occupied, Finishing
  <2>. QED  BY <1>1, <2>1, <2>2 DEF Selecting
<1>10. Closing(r)'
  <2>1. CASE qq.pc = "select"
    <3>1. Remains(r)
      BY <1>1, <1>2, <2>1 DEF Remains
    <3>. QED  BY <1>1, <1>4, <1>7, <3>1, CloseStays
  <2>2. CASE qq.pc \in {"map", "failed"}
    BY <2>2 DEF Closing
  <2>3. CASE qq.pc = "done"
    <3>1. ASSUME hasBody(r), ~qq.didClose, qq.answer # "408" PROVE Has(conn'[e], r)
      <4>1. /\ Latest(k) = r /\ InHand(k) /\ ~Recycled(k)
            /\ k.rl = "deliver" /\ k.resp # ErrResp /\ k.resp.of # "408"
        BY <1>1, <1>2, <1>4, <2>3, <3>1 DEF Closing
      <4>2. k.resp # Gone
        BY <4>1 DEF Gone, Response
      <4>3. k.wrote
        BY <1>4, <4>1, <4>2 DEF Written
      <4>4. k.writech = NoReq
        BY <1>4, <4>3 DEF Good, WriteStages
      <4>. QED  BY <1>1, <1>3, <4>1, <4>4 DEF Has, Latest, InHand, SameWriter
    <3>2. hasBody(r)' = hasBody(r)
      BY <1>1 DEF hasBody
    <3>. QED  BY <2>3, <3>1, <3>2 DEF Closing, Has
  <2>. QED  BY <1>1, <2>1, <2>2, <2>3
<1>. QED  BY <1>1, <1>7, <1>9, <1>10, OthersClose

\* In the beginning nobody has returned.
LEMMA InitCloses == Init => CloseInv
<1>. SUFFICES ASSUME Init PROVE CloseInv
  OBVIOUS
<1>1. \A r \in Reqs : req[r].pc = "start"
  BY DEF Init, NewReq
<1>2. \A c \in Conns : conn[c].rl = "peek" /\ conn[c].reqch = NoReq
  BY DEF Init, NewConn
<1>. QED  BY <1>1, <1>2 DEF CloseInv, Attended, Apart, Written, Closing, Occupied, Recycled, Finishing

\* The inductive invariant of the request bodies.
Inv6 == Inv5 /\ CloseInv

\* Every step keeps it.
LEMMA NextCloses ==
  ASSUME Inv6, [Next]_vars PROVE Inv6'
<1>0. Inv5 /\ Inv3 /\ Inv2 /\ Inv1 /\ CloseInv
  BY DEF Inv6, Inv5, Inv4, Inv3, Inv2
<1>1. Inv5' /\ Inv1'
  BY <1>0, NextOnce DEF Inv5, Inv4, Inv3, Inv2
<1>2. CloseInv'
  <2>1. CASE UNCHANGED vars
    <3>1. \A s \in Reqs : Remains(s)
      BY <2>1 DEF vars, Remains
    <3>. QED  BY <1>0, <1>1, <2>1, <3>1, ServerCloses DEF vars
  <2>2. ASSUME NEW r \in Reqs, Caller(r) \/ User(r) \/ Cancel(r) PROVE CloseInv'
    <3>1. CASE Cancel(r)
      <4>1. req \in [Reqs -> ReqType]
        BY <1>0 DEF Inv1, TypeOK
      <4>2. \A s \in Reqs : Remains(s)
        BY <3>1, <4>1 DEF Cancel, Remains, ReqType
      <4>. QED  BY <1>0, <1>1, <3>1, <4>2, ServerCloses DEF Cancel
    <3>2. CASE User(r)
      BY <1>0, <1>1, <3>2, UserCloses
    <3>3. CASE getConn(r) \/ roundTripEnter(r) \/ roundTripSend(r) \/ roundTripSelect(r)
      BY <1>0, <1>1, <3>3, GetConnCloses, SendCloses, SelectCloses
    <3>4. CASE Caller(r) /\ ~(getConn(r) \/ roundTripEnter(r) \/ roundTripSend(r) \/ roundTripSelect(r))
      BY <1>0, <1>1, <3>4, CallerCloses DEF Caller
    <3>. QED  BY <2>2, <3>1, <3>2, <3>3, <3>4
  <2>3. ASSUME NEW c \in Conns, Server(c) PROVE CloseInv'
    <3>1. conn' = conn /\ req' = req /\ env' = env
      BY <2>3 DEF Server, serverRead, serverReply, serverHint, serverTimeout, serverClose
    <3>2. \A s \in Reqs : Remains(s)
      BY <3>1 DEF Remains
    <3>. QED  BY <1>0, <1>1, <3>1, <3>2, ServerCloses
  <2>4. ASSUME NEW c \in Conns, writeLoop(c) \/ readLoop(c) \/ closeConnIfStillIdle(c) PROVE CloseInv'
    BY <1>0, <1>1, <2>4, WriterCloses, ReaderCloses
  <2>. QED  BY <2>1, <2>2, <2>3, <2>4 DEF Next
<1>. QED  BY <1>1, <1>2 DEF Inv6

\* When Transport.roundTrip has returned, the body of the request is closed or
\* in the hands of a write loop that closes it, whatever reuse, retries, early
\* responses and closing connections did; the exception is an unasked 408.
THEOREM BodiesClosed == Spec => []BodyReleased
<1>1. Init => Inv6
  BY InitLane, InitFrame, InitWire, InitCalls, InitOnce, InitCloses DEF Inv6, Inv5, Inv4, Inv3, Inv2
<1>2. Inv6 /\ [Next]_vars => Inv6'
  BY NextCloses
<1>3. Inv6 => BodyReleased
  <2>. SUFFICES ASSUME Inv6, NEW r \in Reqs, req[r].pc = "done", hasBody(r), req[r].answer # "408",
                       ~req[r].didClose
                PROVE  Writing(r)
    BY DEF BodyReleased
  <2>1. \E c \in Conns : Has(conn[c], r)
    BY DEF Inv6, CloseInv, Closing
  <2>. QED  BY <2>1 DEF Has, Writing
<1>. QED  BY <1>1, <1>2, <1>3, PTL DEF Spec
=============================================================================
