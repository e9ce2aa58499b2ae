--------------------------- MODULE ExchangeProofs ---------------------------
(***************************************************************************)
(* Proofs about the HTTP/1 exchange, for any number of requests and        *)
(* connections, any server and any way of things to go wrong: one request  *)
(* at a time has a connection, and an idle connection is fit for the next; *)
(* and the server never reads the bytes of one request inside another.     *)
(***************************************************************************)
EXTENDS Exchange, SequenceTheorems, TLAPS

-----------------------------------------------------------------------------
(* Types.                                                                  *)

CloseReasons == {"canceled", "write", "timeout", "serverClosedIdle", "peekFail", "readLoop",
                 "readFromServer", "callerOwnsConn", "pool", "idleClosed"}
ReadErrors   == {"readErr", "EOF", "readFromServer", "too many 1xx", "read"}
CallErrors   == CloseReasons \cup ReadErrors \cup {"nil", "bodyRead", "nothingWritten"}

\* The messages on their way to the client, and what the read loop has of them.
HintCodes  == {"100", "1xx"}
FinalCodes == {"final", "101"}
Gone == Response("408", "408", TRUE, FALSE)
Hint(r) == [of : {r}, code : HintCodes, close : {FALSE}, body : {FALSE}]
Final(r) == [of : {r}, code : FinalCodes, close : BOOLEAN, body : BOOLEAN]
Rest(r) == Response(r, "body", FALSE, FALSE)
Message == {Gone} \cup UNION {Hint(r) \cup Final(r) \cup {Rest(r)} : r \in Reqs}

MaybeReq   == Reqs \cup {NoReq}
WriteErrs  == {"none", "nil", "err"}
PcStates   == {"start", "cached", "loop", "enter", "send", "select", "map", "failed", "done"}
CtxStates  == {"live", "canceled", "done"}
Answers    == Reqs \cup {"none", "error", "408"}
BodyStates == {"none", "open", "failed", "EOFWait", "earlyWait", "done"}

ReqType ==
    [pc : PcStates, conn : Conns \cup {NoReq}, ctx : CtxStates, err : CallErrors,
     writeErrCh : WriteErrs, timer : BOOLEAN, setError : BOOLEAN,
     didRead : BOOLEAN, didClose : BOOLEAN, answer : Answers, respBody : BodyStates]

Closings   == {"no"} \cup CloseReasons
Continues  == {"nil", "empty", "go", "closed"}
Signals    == {"none", "EOF", "early"}
WlStates   == {"idle", "head", "wait", "body", "report", "close", "done"}
RlStates   == {"peek", "peeked", "response", "deliver", "bodyWait", "recycle", "put", "putLocked",
               "exit", "close", "remove", "dead"}
Peeks      == {"nil"} \cup ReadErrors
Responses  == {NoResp, ErrResp} \cup Message
EndReasons == {"readLoop", "readFromServer", "callerOwnsConn", "pool"}

ConnType ==
    [open : BOOLEAN, idle : BOOLEAN, closed : Closings, canceled : BOOLEAN, reused : BOOLEAN,
     numExpectedResponses : Nat, writech : MaybeReq, reqch : MaybeReq,
     writeErrCh : WriteErrs, continueCh : Continues, waitForBodyRead : Signals,
     wl : WlStates, wr : MaybeReq, wrote : BOOLEAN, werr : {"nil", "err"},
     rl : RlStates, rc : MaybeReq, peek : Peeks, resp : Responses,
     alive : BOOLEAN, sawEOF : BOOLEAN, num1xx : Nat, closeErr : EndReasons]

Item == [of : Reqs, part : {"head", "body"}]
Fins == {"no", "eof", "reset"}

NetType ==
    [up : Seq(Item), down : Seq(Message), fin : Fins, srv : MaybeReq, owed : Seq(Reqs),
     hinted : BOOLEAN]

TypeOK ==
    /\ env \in Scenarios
    /\ req \in [Reqs -> ReqType]
    /\ conn \in [Conns -> ConnType]
    /\ net \in [Conns -> NetType]
    /\ handled \in [Reqs -> Nat]
    /\ mixed \in BOOLEAN

-----------------------------------------------------------------------------
(* One request at a time has a connection: it is idle, or somebody took it *)
(* from the pool and has not sent yet, or a request waits for the read     *)
(* loop, or the read loop is at work on one.                               *)

\* The response was delivered to the pool before the caller: the connection
\* may already serve another request.
Recycled(k) == k.rl = "deliver" /\ k.resp # ErrResp /\ ~k.resp.body /\ k.alive

Ending == {"exit", "close", "remove", "dead"}

\* The read loop is between two exchanges, or at its end.
Resting(k) == k.rl \in {"peek", "peeked"} \cup Ending \/ Recycled(k)

\* r has the connection c and has not sent its request.
Pre(c, r) == req[r].conn = c /\ req[r].pc \in {"enter", "send"}

\* Nothing of an earlier exchange is left at the client's end.
Fit(k) ==
    /\ k.open /\ Resting(k)
    /\ k.reqch = NoReq /\ k.writech = NoReq
    /\ k.wl \in {"idle", "done"} /\ k.writeErrCh = "none" /\ k.werr = "nil"

\* The pool has the connection, or a request waits for the read loop, or the
\* read loop is at work on one.
OneUse(k) ==
    /\ k.idle => Fit(k) /\ k.numExpectedResponses = 0 /\ k.rl # "dead"
    /\ k.reqch # NoReq => k.open /\ ~k.idle /\ Resting(k) /\ k.numExpectedResponses = 1
    /\ ~Resting(k) => k.open /\ ~k.idle /\ k.reqch = NoReq /\ k.rc # NoReq

\* How far the read loop is with the response that is expected.
Reading(k) ==
    /\ k.rl = "response" => k.numExpectedResponses = 1
    /\ k.rl \in {"recycle", "put", "putLocked", "bodyWait"} =>
          k.numExpectedResponses = 0 /\ k.resp \in Message
    /\ k.rl = "deliver" => \/ k.resp = ErrResp
                           \/ k.resp \in Message /\ (Recycled(k) \/ k.numExpectedResponses = 0)
    /\ k.rl = "bodyWait" => k.resp.body
    /\ k.rl \in {"put", "putLocked"} =>
          /\ k.alive /\ k.writech = NoReq /\ k.writeErrCh = "none"
          /\ k.wl \in {"idle", "done"} /\ k.werr = "nil"
    /\ k.rl \in {"remove", "dead"} => isBroken(k)

\* The stages of the write loop.
WriteStages(k) ==
    /\ k.writech # NoReq =>
          k.open /\ k.wl \in {"idle", "done"} /\ k.writeErrCh = "none" /\ ~k.wrote
    /\ k.wl \notin {"idle", "done"} => k.open /\ k.writech = NoReq /\ k.wr # NoReq
    /\ k.wl \in {"head", "wait", "body", "report"} => k.writeErrCh = "none"
    /\ k.writeErrCh = "nil" => k.wl \in {"idle", "done"} /\ k.werr = "nil"
    /\ k.writeErrCh = "err" => k.wl \in {"close", "done"} /\ k.werr = "err"
    /\ k.wl = "close" => k.werr = "err"
    /\ k.wl = "done" => k.open /\ isBroken(k)

Good(k) == OneUse(k) /\ Reading(k) /\ WriteStages(k)

\* A request that has not sent yet has the connection for itself.
Claim(c, r) ==
    Pre(c, r) =>
        /\ Fit(conn[c]) /\ ~conn[c].idle
        /\ conn[c].numExpectedResponses = IF req[r].pc = "send" THEN 1 ELSE 0
        /\ \A s \in Reqs : Pre(c, s) => s = r

Unopened(c) == ~conn[c].open => conn[c] = NewConn /\ net[c] = NewNet

\* Whoever needs a connection has one.
Placed(q) ==
    q.pc \in {"enter", "send", "select", "map", "failed"}
    \/ q.respBody \in {"open", "failed", "EOFWait", "earlyWait"}
       => q.conn \in Conns

\* ... and it has been made.
Opened(r) == req[r].conn \in Conns => conn[req[r].conn].open

LaneInv ==
    /\ \A r \in Reqs : Placed(req[r]) /\ Opened(r)
    /\ \A c \in Conns : Good(conn[c]) /\ Unopened(c)
    /\ \A c \in Conns : \A r \in Reqs : Claim(c, r)

-----------------------------------------------------------------------------
(* Facts about the helpers of the model.                                   *)

\* What a scenario is made of.
LEMMA EnvFacts ==
  ASSUME env \in Scenarios
  PROVE  /\ \A r \in Reqs : /\ hasBody(r) \in BOOLEAN /\ isReplayable(r) \in BOOLEAN
                            /\ env.profile[r].close \in BOOLEAN
                            /\ env.profile[r].expect \in BOOLEAN
                            /\ env.profile[r].getBody \in BOOLEAN
         /\ \A p \in env.replies : p.code \in FinalCodes /\ p.close \in BOOLEAN /\ p.body \in BOOLEAN
BY ExchangeAssumption DEF ScenarioOK, Profile, hasBody, isReplayable, FinalCodes

\* The messages by their codes.
LEMMA MessageFacts ==
  /\ \A m \in Message :
        /\ m # ErrResp /\ m # NoResp
        /\ m.body \in BOOLEAN /\ m.close \in BOOLEAN
        /\ m.code \in HintCodes \cup FinalCodes \cup {"body", "408"}
        /\ m.code = "408" <=> m = Gone
        /\ m # Gone => m.of \in Reqs
        /\ m.of \in Reqs \cup {"408"}
        /\ m.code \in HintCodes => ~m.body
        /\ m.code \in FinalCodes => m \in Final(m.of)
        /\ m.code = "body" => m = Rest(m.of)
  /\ Gone \in Message /\ Gone.of = "408" /\ ~Gone.body /\ Gone.close
  /\ \A r \in Reqs : /\ Rest(r) \in Message /\ Rest(r).code = "body" /\ Rest(r).of = r
                     /\ Rest(r) # Gone
  /\ \A r \in Reqs : \A code \in FinalCodes : \A close, body \in BOOLEAN :
        LET m == Response(r, code, close, body) IN
        m \in Message /\ m.of = r /\ m.code = code /\ m.close = close /\ m.body = body
  /\ \A r \in Reqs : \A code \in HintCodes :
        LET m == Response(r, code, FALSE, FALSE) IN m \in Message /\ m.of = r /\ m.code = code
  /\ NoResp # ErrResp /\ ~NoResp.body
<1>1. ASSUME NEW m \in Message
      PROVE  /\ m # ErrResp /\ m # NoResp
             /\ m.body \in BOOLEAN /\ m.close \in BOOLEAN
             /\ m.code \in HintCodes \cup FinalCodes \cup {"body", "408"}
             /\ m.code = "408" <=> m = Gone
             /\ m # Gone => m.of \in Reqs
             /\ m.of \in Reqs \cup {"408"}
             /\ m.code \in HintCodes => ~m.body
             /\ m.code \in FinalCodes => m \in Final(m.of)
             /\ m.code = "body" => m = Rest(m.of)
  <2>1. CASE m = Gone
    BY <2>1 DEF Gone, Response, HintCodes, FinalCodes, NoResp, ErrResp
  <2>2. ASSUME NEW r \in Reqs, m \in Hint(r) PROVE <1>1!2
    <3>1. m.of = r /\ m.code \in HintCodes /\ m.body = FALSE /\ m.close = FALSE
      BY <2>2 DEF Hint
    <3>2. m # ErrResp /\ m # NoResp /\ m # Gone
      BY <3>1 DEF Gone, Response, HintCodes, NoResp, ErrResp
    <3>. QED  BY <3>1, <3>2 DEF HintCodes, FinalCodes
  <2>3. ASSUME NEW r \in Reqs, m \in Final(r) PROVE <1>1!2
    <3>1. m.of = r /\ m.code \in FinalCodes /\ m.body \in BOOLEAN /\ m.close \in BOOLEAN
      BY <2>3 DEF Final
    <3>2. m # ErrResp /\ m # NoResp /\ m # Gone
      BY <3>1 DEF Gone, Response, FinalCodes, NoResp, ErrResp
    <3>. QED  BY <2>3, <3>1, <3>2 DEF HintCodes, FinalCodes
  <2>4. ASSUME NEW r \in Reqs, m = Rest(r) PROVE <1>1!2
    BY <2>4 DEF Rest, Gone, Response, HintCodes, FinalCodes, NoResp, ErrResp
  <2>. QED  BY <2>1, <2>2, <2>3, <2>4 DEF Message
<1>2. Gone \in Message /\ Gone.of = "408" /\ ~Gone.body /\ Gone.close
  BY DEF Message, Gone, Response
<1>3. ASSUME NEW r \in Reqs
      PROVE  Rest(r) \in Message /\ Rest(r).code = "body" /\ Rest(r).of = r /\ Rest(r) # Gone
  BY DEF Message, Gone, Rest, Response
<1>4. ASSUME NEW r \in Reqs, NEW code \in FinalCodes, NEW close \in BOOLEAN, NEW body \in BOOLEAN
      PROVE  LET m == Response(r, code, close, body) IN
             m \in Message /\ m.of = r /\ m.code = code /\ m.close = close /\ m.body = body
  <2>1. Response(r, code, close, body) \in Final(r)
    BY DEF Response, Final
  <2>. QED  BY <2>1 DEF Message, Response
<1>5. ASSUME NEW r \in Reqs, NEW code \in HintCodes
      PROVE  LET m == Response(r, code, FALSE, FALSE) IN m \in Message /\ m.of = r /\ m.code = code
  <2>1. Response(r, code, FALSE, FALSE) \in Hint(r)
    BY DEF Response, Hint
  <2>. QED  BY <2>1 DEF Message, Response
<1>6. NoResp # ErrResp /\ ~NoResp.body
  BY DEF NoResp, ErrResp, Response
<1>. QED  BY <1>1, <1>2, <1>3, <1>4, <1>5, <1>6

\* Closing a connection changes nothing else of it.
LEMMA CloseFacts ==
  ASSUME NEW k \in ConnType, NEW reason \in CloseReasons
  PROVE  LET kk == closeLocked(k, reason) IN
         /\ kk \in ConnType /\ isBroken(kk)
         /\ kk = [k EXCEPT !.closed = IF @ = "no" THEN reason ELSE @]
         /\ Resting(kk) = Resting(k)
         /\ Good(k) => Good(kk)
         /\ Fit(k) => Fit(kk)
<1>. DEFINE kk == closeLocked(k, reason)
<1>1. kk \in ConnType /\ isBroken(kk) /\ kk = [k EXCEPT !.closed = IF @ = "no" THEN reason ELSE @]
  BY DEF ConnType, closeLocked, isBroken, Closings, CloseReasons
<1>2. Recycled(kk) = Recycled(k) /\ Resting(kk) = Resting(k)
  BY DEF ConnType, closeLocked, Recycled, Resting
<1>3. Fit(k) => Fit(kk)
  BY <1>2 DEF ConnType, closeLocked, Fit
<1>4. Good(k) => Good(kk)
  BY <1>1, <1>2, <1>3 DEF ConnType, closeLocked, Good, OneUse, Reading, WriteStages
<1>. QED  BY <1>1, <1>2, <1>3, <1>4

-----------------------------------------------------------------------------
(* Types, and one user at a time.                                          *)

Inv1 == TypeOK /\ LaneInv

\* A step of a connection that has been opened and that keeps it fit for
\* whoever holds it.
Moves(k, kk) ==
    /\ kk \in ConnType /\ Good(kk) /\ kk.open
    /\ Fit(k) /\ ~k.idle =>
          Fit(kk) /\ ~kk.idle /\ kk.numExpectedResponses = k.numExpectedResponses

\* The step concerns no connection but c.
OnlyAt(c) == \A d \in Conns : d # c => conn'[d] = conn[d] /\ net'[d] = net[d]

\* Nobody takes a connection or goes on with one it has not used.
Calm ==
    /\ req' \in [Reqs -> ReqType]
    /\ \A r \in Reqs :
          /\ Placed(req'[r]) /\ req'[r].conn = req[r].conn
          /\ req'[r].pc = req[r].pc \/ req'[r].pc \notin {"enter", "send"}

\* Steps of this kind keep the connections to one user each.
LEMMA LaneStep ==
  ASSUME Inv1, NEW c \in Conns, conn[c].open, Moves(conn[c], conn'[c]), OnlyAt(c), Calm
  PROVE  LaneInv'
<1>1. ASSUME NEW d \in Conns PROVE Good(conn'[d]) /\ Unopened(d)'
  BY DEF Inv1, LaneInv, Moves, OnlyAt, Unopened
<1>2. ASSUME NEW d \in Conns, NEW r \in Reqs, Pre(d, r)' PROVE Pre(d, r) /\ req'[r].pc = req[r].pc
  BY <1>2 DEF Calm, Pre
<1>3. ASSUME NEW d \in Conns, NEW r \in Reqs PROVE Claim(d, r)'
  <2>. SUFFICES ASSUME Pre(d, r)' PROVE Claim(d, r)'
    BY DEF Claim
  <2>1. Claim(d, r) /\ Pre(d, r) /\ req'[r].pc = req[r].pc
    BY <1>2 DEF Inv1, LaneInv
  <2>2. \A s \in Reqs : Pre(d, s)' => s = r
    BY <2>1, <1>2 DEF Claim
  <2>3. /\ Fit(conn'[d]) /\ ~conn'[d].idle
        /\ conn'[d].numExpectedResponses = conn[d].numExpectedResponses
    BY <2>1 DEF Claim, Moves, OnlyAt
  <2>. QED  BY <2>1, <2>2, <2>3 DEF Claim
<1>4. ASSUME NEW r \in Reqs PROVE Opened(r)'
  BY DEF Inv1, LaneInv, Opened, Moves, OnlyAt, Calm
<1>. QED  BY <1>1, <1>3, <1>4 DEF LaneInv, Calm

\* A request that stays where it is.
LEMMA CalmReq ==
  ASSUME Inv1, req' = req PROVE Calm
BY DEF Calm, Inv1, TypeOK, LaneInv

\* A state of a connection as the steps use it.
LEMMA AtConn ==
  ASSUME Inv1, NEW c \in Conns
  PROVE  conn[c] \in ConnType /\ Good(conn[c]) /\ net[c] \in NetType
BY DEF Inv1, TypeOK, LaneInv

\* A step of one connection and of its wire.
LEMMA ConnNetStep ==
  ASSUME Inv1, NEW c \in Conns, conn[c].open,
         NEW kk, conn' = [conn EXCEPT ![c] = kk], Moves(conn[c], kk),
         NEW nn \in NetType, net' = [net EXCEPT ![c] = nn],
         Calm, env' = env, handled' \in [Reqs -> Nat], mixed' \in BOOLEAN
  PROVE  Inv1' /\ Calm
<1>1. conn' \in [Conns -> ConnType] /\ conn'[c] = kk /\ OnlyAt(c) /\ net' \in [Conns -> NetType]
  BY DEF Inv1, TypeOK, Moves, OnlyAt
<1>2. TypeOK'
  BY <1>1 DEF Inv1, TypeOK, Calm
<1>. QED  BY <1>1, <1>2, LaneStep DEF Inv1

\* A step of one connection that leaves the wire alone.
LEMMA ConnStep ==
  ASSUME Inv1, NEW c \in Conns, conn[c].open, NEW kk, conn' = [conn EXCEPT ![c] = kk],
         Moves(conn[c], kk), Calm, net' = net, env' = env, handled' = handled, mixed' = mixed
  PROVE  Inv1' /\ Calm
<1>1. conn' \in [Conns -> ConnType] /\ conn'[c] = kk /\ OnlyAt(c)
  BY DEF Inv1, TypeOK, Moves, OnlyAt
<1>2. TypeOK'
  BY <1>1 DEF Inv1, TypeOK, Calm
<1>. QED  BY <1>1, <1>2, LaneStep DEF Inv1

\* A step of the server.
LEMMA NetStep ==
  ASSUME Inv1, NEW c \in Conns, conn[c].open, conn' = conn, req' = req,
         NEW nn \in NetType, net' = [net EXCEPT ![c] = nn],
         env' = env, handled' \in [Reqs -> Nat], mixed' \in BOOLEAN
  PROVE  Inv1' /\ Calm
<1>1. net' \in [Conns -> NetType] /\ \A d \in Conns : d # c => net'[d] = net[d]
  BY DEF Inv1, TypeOK
<1>2. TypeOK'
  BY <1>1 DEF Inv1, TypeOK
<1>3. \A d \in Conns : Unopened(d)'
  BY <1>1 DEF Inv1, LaneInv, Unopened
<1>4. \A d \in Conns : \A r \in Reqs : Claim(d, r)'
  BY DEF Inv1, LaneInv, Claim, Pre
<1>. QED  BY <1>2, <1>3, <1>4, CalmReq DEF Inv1, LaneInv, Opened

\* A step of a caller that has no connection or does not touch it.
LEMMA ReqStep ==
  ASSUME Inv1, Calm, conn' = conn, net' = net, env' = env,
         handled' \in [Reqs -> Nat], mixed' \in BOOLEAN
  PROVE  Inv1' /\ Calm
<1>1. TypeOK'
  BY DEF Inv1, TypeOK, Calm
<1>2. ASSUME NEW d \in Conns, NEW r \in Reqs, Pre(d, r)' PROVE Pre(d, r) /\ req'[r].pc = req[r].pc
  BY <1>2 DEF Calm, Pre
<1>3. ASSUME NEW d \in Conns, NEW r \in Reqs PROVE Claim(d, r)'
  BY <1>2 DEF Inv1, LaneInv, Claim
<1>. QED  BY <1>1, <1>3 DEF Inv1, LaneInv, Calm, Unopened, Opened

\* One caller changes.
LEMMA CalmSet ==
  ASSUME Inv1, NEW r \in Reqs, NEW q \in ReqType, req' = [req EXCEPT ![r] = q], Placed(q),
         q.conn = req[r].conn, q.pc = req[r].pc \/ q.pc \notin {"enter", "send"}
  PROVE  Calm
BY DEF Calm, Inv1, TypeOK, LaneInv

\* A caller as the steps use it.
LEMMA AtReq ==
  ASSUME Inv1, NEW r \in Reqs
  PROVE  req[r] \in ReqType /\ Placed(req[r])
BY DEF Inv1, TypeOK, LaneInv

-----------------------------------------------------------------------------
(* ... under the steps of the read loop.                                   *)

\* What AfterRecycle makes of the connection.
Onward(k, alive) ==
    [k EXCEPT !.alive = alive,
              !.rl = IF k.resp.body THEN IF alive THEN "peek" ELSE "exit" ELSE "deliver"]

\* ... is a connection.
LEMMA OnwardType ==
  ASSUME NEW k \in ConnType, NEW alive \in BOOLEAN
  PROVE  Onward(k, alive) \in ConnType
<1>. DEFINE x == IF k.resp.body THEN IF alive THEN "peek" ELSE "exit" ELSE "deliver"
<1>1. x \in {"peek", "exit", "deliver"}
  OBVIOUS
<1>2. Onward(k, alive) = [k EXCEPT !.alive = alive, !.rl = x]
  BY DEF Onward
<1>. HIDE DEF x
<1>. QED  BY ZenonT(40), <1>1, <1>2 DEF ConnType, RlStates

\* AfterRecycle leaves the callers where they are.
LEMMA AfterRecycleFacts ==
  ASSUME Inv1, NEW c \in Conns, NEW k \in ConnType, k.rc \in Reqs, k.resp.body \in BOOLEAN,
         NEW alive \in BOOLEAN, AfterRecycle(c, k, alive)
  PROVE  conn' = [conn EXCEPT ![c] = Onward(k, alive)] /\ Calm
<1>1. CASE k.resp.body
  <2>1. conn' = [conn EXCEPT ![c] = Onward(k, alive)]
    BY <1>1 DEF AfterRecycle, Onward
  <2>. DEFINE x == IF req[k.rc].ctx = "live" THEN "done" ELSE req[k.rc].ctx
              q == [req[k.rc] EXCEPT !.respBody = "done", !.ctx = x]
  <2>0. req[k.rc] \in ReqType /\ Placed(req[k.rc])
    BY AtReq
  <2>2. req' = [req EXCEPT ![k.rc] = q] /\ x \in CtxStates
    BY <1>1, <2>0 DEF AfterRecycle, ReqType, CtxStates
  <2>. HIDE DEF x
  <2>3. q \in ReqType /\ q.pc = req[k.rc].pc /\ q.conn = req[k.rc].conn
    BY <2>0, <2>2 DEF ReqType, BodyStates
  <2>4. Placed(q)
    BY <2>0 DEF Placed, ReqType
  <2>5. Calm
    BY <2>2, <2>3, <2>4, CalmSet
  <2>. QED  BY <2>1, <2>5
<1>2. CASE ~k.resp.body
  BY <1>2, CalmReq DEF AfterRecycle, Onward
<1>. QED  BY <1>1, <1>2

\* wroteRequest gives the connection up, or goes on to the pool.
LEMMA WroteRequestLane ==
  ASSUME Inv1, NEW c \in Conns, wroteRequest(c)
  PROVE  Inv1' /\ Calm
<1>. DEFINE k == conn[c]
<1>1. k \in ConnType /\ Good(k) /\ k.open /\ k.rc \in Reqs /\ k.rl = "recycle"
      /\ k.resp.body \in BOOLEAN
  BY AtConn, MessageFacts DEF wroteRequest, Good, OneUse, Resting, Recycled, ConnType, Ending, Reading, MaybeReq
<1>2. CASE AfterRecycle(c, k, FALSE)
  <2>. DEFINE kk == Onward(k, FALSE)
  <2>a. kk \in ConnType /\ kk.open
    <3>1. kk \in ConnType
      BY <1>1, OnwardType
    <3>2. kk.open
      BY <1>1 DEF ConnType, Onward
    <3>. QED  BY <3>1, <3>2
  <2>b. OneUse(kk)
    BY <1>1 DEF ConnType, Good, OneUse, Fit, Reading, Resting, Recycled, Ending, Onward
  <2>c. Reading(kk)
    BY <1>1 DEF ConnType, Good, OneUse, Reading, WriteStages, Resting, Recycled, Ending, isBroken, Onward
  <2>d. WriteStages(kk)
    BY <1>1 DEF ConnType, Good, OneUse, WriteStages, Fit, isBroken, Onward
  <2>e. Fit(k) /\ ~k.idle => Fit(kk) /\ ~kk.idle /\ kk.numExpectedResponses = k.numExpectedResponses
    BY <1>1 DEF ConnType, Fit, Resting, Recycled, Ending, Onward
  <2>m. Moves(k, kk)
    BY <2>a, <2>b, <2>c, <2>d, <2>e DEF Moves, Good
  <2>. QED  BY <1>1, <1>2, <2>m, AfterRecycleFacts, ConnStep DEF wroteRequest
<1>3. CASE AfterRecycle(c, [k EXCEPT !.writeErrCh = "none"], FALSE)
  <2>. DEFINE kj == [k EXCEPT !.writeErrCh = "none"]
              kk == Onward(kj, FALSE)
  <2>1. kj \in ConnType /\ kj.rc \in Reqs /\ kj.resp.body \in BOOLEAN
    BY <1>1 DEF ConnType, WriteErrs, EndReasons
  <2>a. kk \in ConnType /\ kk.open
    <3>1. kk \in ConnType
      BY <1>1, <2>1, OnwardType
    <3>2. kk.open
      BY <1>1, <2>1 DEF ConnType, Onward
    <3>. QED  BY <3>1, <3>2
  <2>b. OneUse(kk)
    BY <1>1 DEF ConnType, Good, OneUse, Fit, Reading, Resting, Recycled, Ending, Onward
  <2>c. Reading(kk)
    BY <1>1 DEF ConnType, Good, OneUse, Reading, WriteStages, Resting, Recycled, Ending, isBroken, Onward
  <2>d. WriteStages(kk)
    BY <1>1 DEF ConnType, Good, OneUse, WriteStages, Fit, isBroken, Onward
  <2>e. Fit(k) /\ ~k.idle => Fit(kk) /\ ~kk.idle /\ kk.numExpectedResponses = k.numExpectedResponses
    BY <1>1 DEF ConnType, Fit, Resting, Recycled, Ending, Onward
  <2>m. Moves(k, kk)
    BY <2>a, <2>b, <2>c, <2>d, <2>e DEF Moves, Good
  <2>. QED  BY <1>1, <1>3, <2>1, <2>m, AfterRecycleFacts, ConnStep DEF wroteRequest
<1>4. CASE /\ k.alive /\ ~k.sawEOF /\ k.writeErrCh = "nil"
           /\ conn' = [conn EXCEPT ![c].writeErrCh = "none", ![c].rl = "put"]
           /\ UNCHANGED req
  <2>. DEFINE kk == [k EXCEPT !.writeErrCh = "none", !.rl = "put"]
  <2>1. conn' = [conn EXCEPT ![c] = kk]
    BY <1>4
  <2>a. kk \in ConnType /\ kk.open
    BY <1>1, <1>4 DEF ConnType, RlStates, WlStates, WriteErrs
  <2>b. OneUse(kk)
    BY <1>1, <1>4 DEF ConnType, Good, OneUse, Fit, Reading, Resting, Recycled, Ending
  <2>c. Reading(kk)
    BY <1>1, <1>4 DEF ConnType, Good, OneUse, Reading, WriteStages, Resting, Recycled, Ending, isBroken
  <2>d. WriteStages(kk)
    BY <1>1, <1>4 DEF ConnType, Good, OneUse, WriteStages, Fit, isBroken
  <2>e. Fit(k) /\ ~k.idle => Fit(kk) /\ ~kk.idle /\ kk.numExpectedResponses = k.numExpectedResponses
    BY <1>1, <1>4 DEF ConnType, Fit, Resting, Recycled, Ending
  <2>m. Moves(k, kk)
    BY <2>a, <2>b, <2>c, <2>d, <2>e DEF Moves, Good
  <2>. QED  BY <1>1, <1>4, <2>1, <2>m, CalmReq, ConnStep DEF wroteRequest
<1>. QED  BY <1>2, <1>3, <1>4 DEF wroteRequest

\* tryPutIdleConn, before idleMu.
LEMMA PutCheckLane ==
  ASSUME Inv1, NEW c \in Conns, tryPutIdleConnCheck(c)
  PROVE  Inv1' /\ Calm
<1>. DEFINE k == conn[c]
<1>1. k \in ConnType /\ Good(k) /\ k.open /\ k.rc \in Reqs /\ k.rl = "put"
      /\ k.resp.body \in BOOLEAN
  BY AtConn, MessageFacts DEF tryPutIdleConnCheck, Good, OneUse, Resting, Recycled, ConnType, Ending, Reading, MaybeReq
<1>2. CASE AfterRecycle(c, k, FALSE)
  <2>. DEFINE kk == Onward(k, FALSE)
  <2>a. kk \in ConnType /\ kk.open
    <3>1. kk \in ConnType
      BY <1>1, OnwardType
    <3>2. kk.open
      BY <1>1 DEF ConnType, Onward
    <3>. QED  BY <3>1, <3>2
  <2>b. OneUse(kk)
    BY <1>1 DEF ConnType, Good, OneUse, Fit, Reading, Resting, Recycled, Ending, Onward
  <2>c. Reading(kk)
    BY <1>1 DEF ConnType, Good, OneUse, Reading, WriteStages, Resting, Recycled, Ending, isBroken, Onward
  <2>d. WriteStages(kk)
    BY <1>1 DEF ConnType, Good, OneUse, WriteStages, Fit, isBroken, Onward
  <2>e. Fit(k) /\ ~k.idle => Fit(kk) /\ ~kk.idle /\ kk.numExpectedResponses = k.numExpectedResponses
    BY <1>1 DEF ConnType, Fit, Resting, Recycled, Ending, Onward
  <2>m. Moves(k, kk)
    BY <2>a, <2>b, <2>c, <2>d, <2>e DEF Moves, Good
  <2>. QED  BY <1>1, <1>2, <2>m, AfterRecycleFacts, ConnStep DEF tryPutIdleConnCheck
<1>3. CASE ~isBroken(k) 
  <2>. DEFINE kk == [k EXCEPT !.reused = TRUE, !.rl = "putLocked"]
  <2>1. conn' = [conn EXCEPT ![c] = kk] /\ req' = req
    BY <1>3 DEF tryPutIdleConnCheck
  <2>a. kk \in ConnType /\ kk.open
    BY <1>1, <1>3 DEF ConnType, RlStates, WlStates, WriteErrs
  <2>b. OneUse(kk)
    BY <1>1, <1>3 DEF ConnType, Good, OneUse, Fit, Reading, Resting, Recycled, Ending
  <2>c. Reading(kk)
    BY <1>1, <1>3 DEF ConnType, Good, OneUse, Reading, WriteStages, Resting, Recycled, Ending, isBroken
  <2>d. WriteStages(kk)
    BY <1>1, <1>3 DEF ConnType, Good, OneUse, WriteStages, Fit, isBroken
  <2>e. Fit(k) /\ ~k.idle => Fit(kk) /\ ~kk.idle /\ kk.numExpectedResponses = k.numExpectedResponses
    BY <1>1, <1>3 DEF ConnType, Fit, Resting, Recycled, Ending
  <2>m. Moves(k, kk)
    BY <2>a, <2>b, <2>c, <2>d, <2>e DEF Moves, Good
  <2>. QED  BY <1>1, <1>3, <2>1, <2>m, CalmReq, ConnStep DEF tryPutIdleConnCheck
<1>. QED  BY <1>2, <1>3 DEF tryPutIdleConnCheck

\* tryPutIdleConn under idleMu: the pool gets a connection that is fit.
LEMMA PutLane ==
  ASSUME Inv1, NEW c \in Conns, tryPutIdleConn(c)
  PROVE  Inv1' /\ Calm
<1>. DEFINE k == conn[c]
<1>1. k \in ConnType /\ Good(k) /\ k.open /\ k.rc \in Reqs /\ k.rl = "putLocked"
      /\ k.resp.body \in BOOLEAN /\ k.resp # ErrResp
  BY AtConn, MessageFacts DEF tryPutIdleConn, Good, OneUse, Resting, Recycled, ConnType, Ending, Reading, MaybeReq
<1>2. CASE AfterRecycle(c, [k EXCEPT !.idle = TRUE], TRUE)
  <2>. DEFINE kj == [k EXCEPT !.idle = TRUE]
              kk == Onward(kj, TRUE)
  <2>1. kj \in ConnType /\ kj.rc \in Reqs /\ kj.resp.body \in BOOLEAN
    BY <1>1 DEF ConnType, WriteErrs, EndReasons
  <2>a. kk \in ConnType /\ kk.open
    <3>1. kk \in ConnType
      BY <1>1, <2>1, OnwardType
    <3>2. kk.open
      BY <1>1, <2>1 DEF ConnType, Onward
    <3>. QED  BY <3>1, <3>2
  <2>b. OneUse(kk)
    BY <1>1 DEF ConnType, Good, OneUse, Fit, Reading, Resting, Recycled, Ending, Onward
  <2>c. Reading(kk)
    BY <1>1 DEF ConnType, Good, OneUse, Reading, WriteStages, Resting, Recycled, Ending, isBroken, Onward
  <2>d. WriteStages(kk)
    BY <1>1 DEF ConnType, Good, OneUse, WriteStages, Fit, isBroken, Onward
  <2>e. Fit(k) /\ ~k.idle => Fit(kk) /\ ~kk.idle /\ kk.numExpectedResponses = k.numExpectedResponses
    BY <1>1 DEF ConnType, Fit, Resting, Recycled, Ending, Onward
  <2>m. Moves(k, kk)
    BY <2>a, <2>b, <2>c, <2>d, <2>e DEF Moves, Good
  <2>. QED  BY <1>1, <1>2, <2>1, <2>m, AfterRecycleFacts, ConnStep DEF tryPutIdleConn
<1>3. CASE AfterRecycle(c, [k EXCEPT !.closeErr = "pool"], FALSE)
  <2>. DEFINE kj == [k EXCEPT !.closeErr = "pool"]
              kk == Onward(kj, FALSE)
  <2>1. kj \in ConnType /\ kj.rc \in Reqs /\ kj.resp.body \in BOOLEAN
    BY <1>1 DEF ConnType, WriteErrs, EndReasons
  <2>a. kk \in ConnType /\ kk.open
    <3>1. kk \in ConnType
      BY <1>1, <2>1, OnwardType
    <3>2. kk.open
      BY <1>1, <2>1 DEF ConnType, Onward
    <3>. QED  BY <3>1, <3>2
  <2>b. OneUse(kk)
    BY <1>1 DEF ConnType, Good, OneUse, Fit, Reading, Resting, Recycled, Ending, Onward
  <2>c. Reading(kk)
    BY <1>1 DEF ConnType, Good, OneUse, Reading, WriteStages, Resting, Recycled, Ending, isBroken, Onward
  <2>d. WriteStages(kk)
    BY <1>1 DEF ConnType, Good, OneUse, WriteStages, Fit, isBroken, Onward
  <2>e. Fit(k) /\ ~k.idle => Fit(kk) /\ ~kk.idle /\ kk.numExpectedResponses = k.numExpectedResponses
    BY <1>1 DEF ConnType, Fit, Resting, Recycled, Ending, Onward
  <2>m. Moves(k, kk)
    BY <2>a, <2>b, <2>c, <2>d, <2>e DEF Moves, Good
  <2>. QED  BY <1>1, <1>3, <2>1, <2>m, AfterRecycleFacts, ConnStep DEF tryPutIdleConn
<1>. QED  BY <1>2, <1>3 DEF tryPutIdleConn

\* Peek changes nothing but the read loop's own notes.
LEMMA PeekLane ==
  ASSUME Inv1, NEW c \in Conns, readLoopPeek(c)
  PROVE  Inv1' /\ Calm
<1>. DEFINE k == conn[c]
            x == IF isBroken(k) \/ net[c].fin = "reset" THEN "readErr"
                 ELSE IF net[c].down # <<>> THEN "nil" ELSE "EOF"
            kk == [k EXCEPT !.rl = "peeked", !.rc = NoReq, !.resp = NoResp, !.peek = x]
<1>1. k \in ConnType /\ Good(k) /\ k.open /\ k.rl = "peek"
  BY AtConn DEF readLoopPeek
<1>2. x \in Peeks /\ conn' = [conn EXCEPT ![c] = kk]
  BY DEF readLoopPeek, Peeks, ReadErrors
<1>. HIDE DEF x
<1>3. Moves(k, kk)
  <2>a. kk \in ConnType /\ kk.open
    BY <1>1, <1>2, ZenonT(40) DEF ConnType, RlStates, MaybeReq, Responses
  <2>b. OneUse(kk)
    BY <1>1, <1>2 DEF ConnType, Good, OneUse, Fit, Reading, Resting, Recycled, Ending
  <2>c. Reading(kk)
    BY <1>1, <1>2 DEF ConnType, Good, OneUse, Reading, WriteStages, Resting, Recycled, Ending, isBroken
  <2>d. WriteStages(kk)
    BY <1>1, <1>2 DEF ConnType, Good, OneUse, WriteStages, Fit, isBroken
  <2>e. Fit(k) /\ ~k.idle => Fit(kk) /\ ~kk.idle /\ kk.numExpectedResponses = k.numExpectedResponses
    BY <1>1, <1>2 DEF ConnType, Fit, Resting, Recycled, Ending
  <2>m. Moves(k, kk)
    BY <2>a, <2>b, <2>c, <2>d, <2>e DEF Moves, Good
  <2>. QED  BY <2>m
<1>. QED  BY <1>1, <1>2, <1>3, CalmReq, ConnStep DEF readLoopPeek

\* The request is fetched, or the connection closed.
LEMMA ExpectLane ==
  ASSUME Inv1, NEW c \in Conns, readLoopExpect(c)
  PROVE  Inv1' /\ Calm
<1>. DEFINE k == conn[c]
<1>1. k \in ConnType /\ Good(k) /\ k.rl = "peeked"
  BY AtConn DEF readLoopExpect
<1>0. k.open
  <2>1. k # NewConn
    BY <1>1 DEF NewConn
  <2>. QED  BY <2>1 DEF Inv1, LaneInv, Unopened
<1>2. CASE k.numExpectedResponses = 0
  <2>. DEFINE e == IF k.peek = "EOF" \/ (k.peek = "nil" /\ is408Message(Head(net[c].down)))
                   THEN "serverClosedIdle" ELSE "peekFail"
              kj == closeLocked(k, e)
              kk == [kj EXCEPT !.rl = "exit"]
  <2>1. e \in CloseReasons
    BY DEF CloseReasons
  <2>2. conn' = [conn EXCEPT ![c] = kk]
    BY <1>1, <1>2 DEF readLoopExpect, readLoopPeekFailLocked, ConnType
  <2>. HIDE DEF e
  <2>3. kj \in ConnType /\ Good(kj) /\ isBroken(kj) /\ (Fit(k) => Fit(kj)) /\ kj.open
        /\ kj.rl = "peeked" /\ kj.idle = k.idle /\ kj.numExpectedResponses = k.numExpectedResponses
    BY <1>0, <1>1, <2>1, CloseFacts DEF ConnType
  <2>. HIDE DEF kj
  <2>4. Moves(kj, kk)
  <3>a. kk \in ConnType /\ kk.open
    BY <2>3 DEF ConnType, RlStates, WlStates, WriteErrs
  <3>b. OneUse(kk)
    BY <2>3 DEF ConnType, Good, OneUse, Fit, Reading, Resting, Recycled, Ending
  <3>c. Reading(kk)
    BY <2>3 DEF ConnType, Good, OneUse, Reading, WriteStages, Resting, Recycled, Ending, isBroken
  <3>d. WriteStages(kk)
    BY <2>3 DEF ConnType, Good, OneUse, WriteStages, Fit, isBroken
  <3>e. Fit(kj) /\ ~kj.idle => Fit(kk) /\ ~kk.idle /\ kk.numExpectedResponses = kj.numExpectedResponses
    BY <2>3 DEF ConnType, Fit, Resting, Recycled, Ending
  <3>m. Moves(kj, kk)
    BY <3>a, <3>b, <3>c, <3>d, <3>e DEF Moves, Good
    <3>. QED  BY <3>m
  <2>5. Moves(k, kk)
    BY <2>3, <2>4 DEF Moves
  <2>. QED  BY <1>0, <2>2, <2>5, CalmReq, ConnStep DEF readLoopExpect
<1>3. CASE k.numExpectedResponses > 0 /\ k.reqch # NoReq
  <2>. DEFINE x == IF k.peek = "nil" THEN "response" ELSE "deliver"
              y == IF k.peek = "nil" THEN NoResp ELSE ErrResp
              z == IF k.peek = "nil" THEN k.closeErr ELSE "readFromServer"
              w == IF k.peek = "nil" THEN k.peek ELSE "readFromServer"
              kk == [k EXCEPT !.rc = k.reqch, !.reqch = NoReq, !.num1xx = 0, !.rl = x,
                              !.resp = y, !.closeErr = z, !.peek = w]
  <2>1. conn' = [conn EXCEPT ![c] = kk]
    BY <1>1, <1>3 DEF readLoopExpect, ConnType
  <2>2. /\ x \in {"response", "deliver"} /\ y \in Responses /\ z \in EndReasons /\ w \in Peeks
        /\ x = "deliver" => y = ErrResp
    BY <1>1 DEF ConnType, Responses, EndReasons, Peeks, ReadErrors
  <2>. HIDE DEF x, y, z, w
  <2>a. kk \in ConnType /\ kk.open
    BY <1>0, <1>1, <2>2 DEF ConnType, RlStates, MaybeReq
  <2>b. OneUse(kk)
    BY <1>0, <1>1, <1>3, <2>2 DEF ConnType, Good, OneUse, Fit, Reading, Resting, Recycled, Ending
  <2>c. Reading(kk)
    BY <1>0, <1>1, <1>3, <2>2 DEF ConnType, Good, OneUse, Reading, WriteStages, Resting, Recycled, Ending, isBroken
  <2>d. WriteStages(kk)
    BY <1>0, <1>1, <1>3, <2>2 DEF ConnType, Good, OneUse, WriteStages, Fit, isBroken
  <2>e. Fit(k) /\ ~k.idle => Fit(kk) /\ ~kk.idle /\ kk.numExpectedResponses = k.numExpectedResponses
    BY <1>0, <1>1, <1>3, <2>2 DEF ConnType, Fit, Resting, Recycled, Ending
  <2>m. Moves(k, kk)
    BY <2>a, <2>b, <2>c, <2>d, <2>e DEF Moves, Good
  <2>. QED  BY <1>0, <2>1, <2>m, CalmReq, ConnStep DEF readLoopExpect
<1>. QED  BY <1>1, <1>2, <1>3 DEF readLoopExpect

\* The first message of what comes is a message, and so is each of the rest.
LEMMA PopFacts ==
  ASSUME NEW n \in NetType, n.down # <<>>
  PROVE  /\ Head(n.down) \in Message /\ Head(n.down) = n.down[1]
         /\ [n EXCEPT !.down = Tail(@)] \in NetType
<1>1. n.down \in Seq(Message)
  BY DEF NetType
<1>2. Head(n.down) \in Message /\ Head(n.down) = n.down[1] /\ Tail(n.down) \in Seq(Message)
  BY <1>1
<1>. QED  BY <1>2 DEF NetType

\* readResponse takes a message off the wire.
LEMMA ReadResponseLane ==
  ASSUME Inv1, NEW c \in Conns, readResponse(c)
  PROVE  Inv1' /\ Calm
<1>. DEFINE k == conn[c]
            m == Head(net[c].down)
            nn == [net[c] EXCEPT !.down = Tail(@)]
<1>1. k \in ConnType /\ Good(k) /\ k.open /\ k.rc \in Reqs /\ k.rl = "response"
  BY AtConn DEF readResponse, Good, OneUse, Resting, Recycled, ConnType, Ending, Reading, MaybeReq
<1>2. m \in Message /\ nn \in NetType /\ net' = [net EXCEPT ![c] = nn]
  <2>1. net[c] \in NetType /\ net[c].down # <<>>
    BY AtConn DEF readResponse
  <2>2. m \in Message /\ nn \in NetType
    BY <2>1, PopFacts
  <2>3. net' = [net EXCEPT ![c] = nn]
    BY <2>1 DEF readResponse
  <2>. QED  BY <2>2, <2>3
<1>3. m.body \in BOOLEAN /\ m # ErrResp
  BY <1>2, MessageFacts
<1>. HIDE DEF nn
<1>4. PICK eof \in SeesEOF(net[c]) :
         \/ /\ m.code \in {"100", "1xx"}
            /\ conn' = [conn EXCEPT
                 ![c].num1xx = @ + 1, ![c].sawEOF = eof,
                 ![c].continueCh = IF m.code = "100" /\ @ = "empty" THEN "go" ELSE @,
                 ![c].rl = IF k.num1xx = Max1xx THEN "deliver" ELSE @,
                 ![c].resp = IF k.num1xx = Max1xx THEN ErrResp ELSE @,
                 ![c].peek = IF k.num1xx = Max1xx THEN "too many 1xx" ELSE @]
         \/ /\ m.code \notin {"100", "1xx"}
            /\ LET close == m.close \/ env.profile[k.rc].close IN
               conn' = [conn EXCEPT
                 ![c].numExpectedResponses = @ - 1, ![c].sawEOF = eof, ![c].resp = m,
                 ![c].continueCh = CASE @ = "empty" /\ close -> "closed"
                                     [] @ = "empty" /\ ~close -> "go"
                                     [] OTHER -> @,
                 ![c].alive = ~close /\ m.code # "101",
                 ![c].closeErr = IF m.code = "101" THEN "callerOwnsConn" ELSE @,
                 ![c].rl = IF m.body THEN "deliver" ELSE "recycle"]
  BY DEF readResponse
<1>5. eof \in BOOLEAN
  BY DEF SeesEOF
<1>. HIDE DEF m
<1>6. CASE m.code \in {"100", "1xx"}
  <2>. DEFINE o == k.num1xx = Max1xx
              u == IF m.code = "100" /\ k.continueCh = "empty" THEN "go" ELSE k.continueCh
              x == IF o THEN "deliver" ELSE k.rl
              y == IF o THEN ErrResp ELSE k.resp
              w == IF o THEN "too many 1xx" ELSE k.peek
              v == k.num1xx + 1
              kk == [k EXCEPT !.num1xx = v, !.sawEOF = eof, !.continueCh = u,
                              !.rl = x, !.resp = y, !.peek = w]
  <2>1. conn' = [conn EXCEPT ![c] = kk]
    BY <1>1, <1>4, <1>6 DEF ConnType
  <2>2. /\ x \in {"response", "deliver"} /\ y \in Responses /\ u \in Continues /\ w \in Peeks
        /\ v \in Nat
        /\ x = "deliver" => y = ErrResp
    <3>1. v \in Nat
      BY <1>1 DEF ConnType
    <3>. QED  BY <1>1, <3>1 DEF ConnType, Responses, Continues, Peeks, ReadErrors
  <2>. HIDE DEF x, y, u, w, v
  <2>a. kk \in ConnType /\ kk.open
    BY <1>1, <1>5, <2>2 DEF ConnType, RlStates
  <2>b. OneUse(kk)
    BY <1>1, <1>5, <2>2 DEF ConnType, Good, OneUse, Fit, Reading, Resting, Recycled, Ending
  <2>c. Reading(kk)
    BY <1>1, <1>5, <2>2 DEF ConnType, Good, OneUse, Reading, WriteStages, Resting, Recycled, Ending, isBroken
  <2>d. WriteStages(kk)
    BY <1>1, <1>5, <2>2 DEF ConnType, Good, OneUse, WriteStages, Fit, isBroken
  <2>e. Fit(k) /\ ~k.idle => Fit(kk) /\ ~kk.idle /\ kk.numExpectedResponses = k.numExpectedResponses
    BY <1>1, <1>5, <2>2 DEF ConnType, Fit, Resting, Recycled, Ending
  <2>m. Moves(k, kk)
    BY <2>a, <2>b, <2>c, <2>d, <2>e DEF Moves, Good
  <2>. QED  BY <1>1, <1>2, <2>1, <2>m, CalmReq, ConnNetStep DEF readResponse, Inv1, TypeOK
<1>7. CASE m.code \notin {"100", "1xx"}
  <2>. DEFINE close == m.close \/ env.profile[k.rc].close
              u == CASE k.continueCh = "empty" /\ close -> "closed"
                     [] k.continueCh = "empty" /\ ~close -> "go"
                     [] OTHER -> k.continueCh
              x == IF m.body THEN "deliver" ELSE "recycle"
              z == IF m.code = "101" THEN "callerOwnsConn" ELSE k.closeErr
              a == ~close /\ m.code # "101"
              e == k.numExpectedResponses - 1
              kk == [k EXCEPT !.numExpectedResponses = e, !.sawEOF = eof,
                              !.resp = m, !.continueCh = u, !.alive = a, !.closeErr = z, !.rl = x]
  <2>1. conn' = [conn EXCEPT ![c] = kk]
    BY ZenonT(40), <1>1, <1>4, <1>7 DEF ConnType
  <2>2. /\ x \in {"deliver", "recycle"} /\ u \in Continues /\ z \in EndReasons /\ a \in BOOLEAN
        /\ x = "deliver" => m.body
        /\ e = 0
    <3>1. u \in Continues
      BY <1>1 DEF ConnType, Continues
    <3>. QED  BY <1>1, <3>1 DEF ConnType, EndReasons, Good, Reading
  <2>. HIDE DEF x, u, z, a, e
  <2>a. kk \in ConnType /\ kk.open
    <3>1. m \in Responses /\ e \in Nat /\ x \in RlStates
      BY <1>2, <2>2 DEF Responses, RlStates
    <3>. QED  BY ZenonT(40), <1>1, <1>5, <2>2, <3>1 DEF ConnType
  <2>b. OneUse(kk)
    BY <1>1, <1>2, <1>3, <1>5, <2>2 DEF ConnType, Good, OneUse, Fit, Reading, Resting, Recycled, Ending
  <2>c. Reading(kk)
    BY <1>1, <1>2, <1>3, <1>5, <2>2 DEF ConnType, Good, OneUse, Reading, WriteStages, Resting, Recycled, Ending, isBroken
  <2>d. WriteStages(kk)
    BY <1>1, <1>2, <1>3, <1>5, <2>2 DEF ConnType, Good, OneUse, WriteStages, Fit, isBroken
  <2>e. Fit(k) /\ ~k.idle => Fit(kk) /\ ~kk.idle /\ kk.numExpectedResponses = k.numExpectedResponses
    BY <1>1, <1>2, <1>3, <1>5, <2>2 DEF ConnType, Fit, Resting, Recycled, Ending
  <2>m. Moves(k, kk)
    BY <2>a, <2>b, <2>c, <2>d, <2>e DEF Moves, Good
  <2>. QED  BY <1>1, <1>2, <2>1, <2>m, CalmReq, ConnNetStep DEF readResponse, Inv1, TypeOK
<1>. QED  BY <1>6, <1>7

\* A response that cannot be read is offered as an error.
LEMMA ReadFailsLane ==
  ASSUME Inv1, NEW c \in Conns, readResponseFails(c)
  PROVE  Inv1' /\ Calm
<1>. DEFINE k == conn[c]
            kk == [k EXCEPT !.rl = "deliver", !.resp = ErrResp, !.peek = "read"]
<1>1. k \in ConnType /\ Good(k) /\ k.rl = "response"
  BY AtConn DEF readResponseFails
<1>0. k.open
  <2>1. k # NewConn
    BY <1>1 DEF NewConn
  <2>. QED  BY <2>1 DEF Inv1, LaneInv, Unopened
<1>2. conn' = [conn EXCEPT ![c] = kk]
  BY <1>1 DEF readResponseFails, ConnType
<1>3. Moves(k, kk)
  <2>a. kk \in ConnType /\ kk.open
    BY <1>0, <1>1 DEF ConnType, RlStates, Responses, Peeks, ReadErrors
  <2>b. OneUse(kk)
    BY <1>0, <1>1 DEF ConnType, Good, OneUse, Fit, Reading, Resting, Recycled, Ending
  <2>c. Reading(kk)
    BY <1>0, <1>1 DEF ConnType, Good, OneUse, Reading, WriteStages, Resting, Recycled, Ending, isBroken
  <2>d. WriteStages(kk)
    BY <1>0, <1>1 DEF ConnType, Good, OneUse, WriteStages, Fit, isBroken
  <2>e. Fit(k) /\ ~k.idle => Fit(kk) /\ ~kk.idle /\ kk.numExpectedResponses = k.numExpectedResponses
    BY <1>0, <1>1 DEF ConnType, Fit, Resting, Recycled, Ending
  <2>m. Moves(k, kk)
    BY <2>a, <2>b, <2>c, <2>d, <2>e DEF Moves, Good
  <2>. QED  BY <2>m
<1>. QED  BY <1>0, <1>1, <1>2, <1>3, CalmReq, ConnStep DEF readResponseFails

\* Nobody takes the response.
LEMMA CallerGoneLane ==
  ASSUME Inv1, NEW c \in Conns, readLoopCallerGone(c)
  PROVE  Inv1' /\ Calm
<1>. DEFINE k == conn[c]
            kk == [k EXCEPT !.rl = "exit", !.resp = ErrResp]
<1>1. k \in ConnType /\ Good(k) /\ k.rl = "deliver"
  BY AtConn DEF readLoopCallerGone
<1>0. k.open
  <2>1. k # NewConn
    BY <1>1 DEF NewConn
  <2>. QED  BY <2>1 DEF Inv1, LaneInv, Unopened
<1>2. conn' = [conn EXCEPT ![c] = kk]
  BY <1>1 DEF readLoopCallerGone, ConnType
<1>3. Moves(k, kk)
  <2>a. kk \in ConnType /\ kk.open
    BY <1>0, <1>1 DEF ConnType, RlStates, Responses
  <2>b. OneUse(kk)
    BY <1>0, <1>1 DEF ConnType, Good, OneUse, Fit, Reading, Resting, Recycled, Ending
  <2>c. Reading(kk)
    BY <1>0, <1>1 DEF ConnType, Good, OneUse, Reading, WriteStages, Resting, Recycled, Ending, isBroken
  <2>d. WriteStages(kk)
    BY <1>0, <1>1 DEF ConnType, Good, OneUse, WriteStages, Fit, isBroken
  <2>e. Fit(k) /\ ~k.idle => Fit(kk) /\ ~kk.idle /\ kk.numExpectedResponses = k.numExpectedResponses
    BY <1>0, <1>1 DEF ConnType, Fit, Resting, Recycled, Ending
  <2>m. Moves(k, kk)
    BY <2>a, <2>b, <2>c, <2>d, <2>e DEF Moves, Good
  <2>. QED  BY <2>m
<1>. QED  BY <1>0, <1>1, <1>2, <1>3, CalmReq, ConnStep DEF readLoopCallerGone

\* The connection leaves the idle list.
LEMMA RemoveLane ==
  ASSUME Inv1, NEW c \in Conns, removeIdleConn(c)
  PROVE  Inv1' /\ Calm
<1>. DEFINE k == conn[c]
            kk == [k EXCEPT !.rl = "dead", !.idle = FALSE]
<1>1. k \in ConnType /\ Good(k) /\ k.rl = "remove"
  BY AtConn DEF removeIdleConn
<1>0. k.open
  <2>1. k # NewConn
    BY <1>1 DEF NewConn
  <2>. QED  BY <2>1 DEF Inv1, LaneInv, Unopened
<1>2. conn' = [conn EXCEPT ![c] = kk]
  BY <1>1 DEF removeIdleConn, ConnType
<1>3. Moves(k, kk)
  <2>a. kk \in ConnType /\ kk.open
    BY <1>0, <1>1 DEF ConnType, RlStates, WlStates, WriteErrs
  <2>b. OneUse(kk)
    BY <1>0, <1>1 DEF ConnType, Good, OneUse, Fit, Reading, Resting, Recycled, Ending
  <2>c. Reading(kk)
    BY <1>0, <1>1 DEF ConnType, Good, OneUse, Reading, WriteStages, Resting, Recycled, Ending, isBroken
  <2>d. WriteStages(kk)
    BY <1>0, <1>1 DEF ConnType, Good, OneUse, WriteStages, Fit, isBroken
  <2>e. Fit(k) /\ ~k.idle => Fit(kk) /\ ~kk.idle /\ kk.numExpectedResponses = k.numExpectedResponses
    BY <1>0, <1>1 DEF ConnType, Fit, Resting, Recycled, Ending
  <2>m. Moves(k, kk)
    BY <2>a, <2>b, <2>c, <2>d, <2>e DEF Moves, Good
  <2>. QED  BY <2>m
<1>. QED  BY <1>0, <1>1, <1>2, <1>3, CalmReq, ConnStep DEF removeIdleConn

\* A connection that is closed while somebody moves on: closing does no harm.
LEMMA CloseMoves ==
  ASSUME NEW k \in ConnType, NEW kk, Moves(k, kk), NEW reason \in CloseReasons
  PROVE  Moves(k, closeLocked(kk, reason))
<1>1. closeLocked(kk, reason) = [kk EXCEPT !.closed = IF @ = "no" THEN reason ELSE @]
  BY DEF closeLocked
<1>. QED  BY <1>1, CloseFacts DEF Moves, ConnType

\* cancelRequest as well.
LEMMA CancelMoves ==
  ASSUME NEW k \in ConnType, NEW kk, Moves(k, kk)
  PROVE  Moves(k, cancelRequest(kk))
<1>. DEFINE kj == closeLocked(kk, "canceled")
<1>1. Moves(k, kj)
  BY CloseMoves DEF CloseReasons
<1>2. cancelRequest(kk) = [kj EXCEPT !.canceled = TRUE]
  BY DEF cancelRequest
<1>. HIDE DEF kj
<1>. DEFINE kl == [kj EXCEPT !.canceled = TRUE]
<1>3. kl \in ConnType /\ kl.open
  BY <1>1 DEF Moves, ConnType
<1>4. Recycled(kl) = Recycled(kj) /\ Resting(kl) = Resting(kj)
  BY <1>1 DEF Moves, ConnType, Recycled, Resting
<1>5. Fit(kl) = Fit(kj)
  BY <1>1, <1>4 DEF Moves, ConnType, Fit
<1>6. Good(kl)
  BY <1>1, <1>4, <1>5 DEF Moves, ConnType, Good, OneUse, Reading, WriteStages, isBroken
<1>7. kl.idle = kj.idle /\ kl.numExpectedResponses = kj.numExpectedResponses
  BY <1>1 DEF Moves, ConnType
<1>. QED  BY <1>1, <1>2, <1>3, <1>5, <1>6, <1>7 DEF Moves

\* Standing still.
LEMMA SameMoves ==
  ASSUME NEW k \in ConnType, Good(k), k.open PROVE Moves(k, k)
BY DEF Moves

\* closeConnIfStillIdle and CloseIdleConnections.
LEMMA CloseIdleLane ==
  ASSUME Inv1, NEW c \in Conns, closeConnIfStillIdle(c)
  PROVE  Inv1' /\ Calm
<1>. DEFINE k == conn[c]
            kj == closeLocked(k, "idleClosed")
            kk == [kj EXCEPT !.idle = FALSE]
<1>1. k \in ConnType /\ Good(k) /\ k.idle /\ k.open
  BY AtConn DEF closeConnIfStillIdle, Good, OneUse, Fit
<1>2. conn' = [conn EXCEPT ![c] = kk]
  BY <1>1 DEF closeConnIfStillIdle, ConnType
<1>3. Moves(k, kj)
  BY <1>1, SameMoves, CloseMoves DEF CloseReasons
<1>4. kj.idle
  BY <1>1 DEF closeLocked, ConnType
<1>. HIDE DEF kj
<1>5. kk \in ConnType /\ kk.open
  BY <1>3 DEF Moves, ConnType
<1>6. Recycled(kk) = Recycled(kj) /\ Resting(kk) = Resting(kj)
  BY <1>3 DEF Moves, ConnType, Recycled, Resting
<1>7. Good(kk)
  BY <1>3, <1>6 DEF Moves, ConnType, Good, OneUse, Reading, WriteStages, isBroken
<1>8. Moves(k, kk)
  BY <1>1, <1>5, <1>7 DEF Moves
<1>. QED  BY <1>1, <1>2, <1>8, CalmReq, ConnStep DEF closeConnIfStillIdle

\* The deferred calls of readLoop: the connection is closed.
LEMMA LoopCloseLane ==
  ASSUME Inv1, NEW c \in Conns, readLoopClose(c)
  PROVE  Inv1' /\ Calm
<1>. DEFINE k == conn[c]
            kj == closeLocked(k, k.closeErr)
            kk == [kj EXCEPT !.rl = "remove"]
<1>1. k \in ConnType /\ Good(k) /\ k.rl = "close"
  BY AtConn DEF readLoopClose
<1>0. k.open
  <2>1. k # NewConn
    BY <1>1 DEF NewConn
  <2>. QED  BY <2>1 DEF Inv1, LaneInv, Unopened
<1>2. conn' = [conn EXCEPT ![c] = kk]
  BY <1>1 DEF readLoopClose, ConnType
<1>3. Moves(k, kj) /\ isBroken(kj)
  <2>1. k.closeErr \in CloseReasons
    BY <1>1 DEF ConnType, EndReasons, CloseReasons
  <2>. QED  BY <1>0, <1>1, <2>1, SameMoves, CloseMoves, CloseFacts
<1>4. kj.rl = "close"
  BY <1>1 DEF closeLocked, ConnType
<1>. HIDE DEF kj
<1>5. kk \in ConnType /\ kk.open
  BY <1>3 DEF Moves, ConnType, RlStates
<1>6. Resting(kk) /\ Resting(kj)
  BY <1>3, <1>4 DEF Moves, ConnType, Resting, Ending
<1>7. Good(kk)
  BY <1>3, <1>4, <1>6 DEF Moves, ConnType, Good, OneUse, Fit, Reading, WriteStages, isBroken
<1>8. Moves(kj, kk)
  BY <1>3, <1>5, <1>6, <1>7 DEF Moves, Fit, ConnType
<1>9. Moves(k, kk)
  BY <1>3, <1>8 DEF Moves
<1>. QED  BY <1>0, <1>2, <1>9, CalmReq, ConnStep DEF readLoopClose

\* The deferred calls of readLoop: eofc is closed.
LEMMA LoopExitLane ==
  ASSUME Inv1, NEW c \in Conns, readLoopExit(c)
  PROVE  Inv1' /\ Calm
<1>. DEFINE k == conn[c]
            kk == [k EXCEPT !.rl = "close"]
<1>1. k \in ConnType /\ Good(k) /\ k.rl = "exit"
  BY AtConn DEF readLoopExit
<1>0. k.open
  <2>1. k # NewConn
    BY <1>1 DEF NewConn
  <2>. QED  BY <2>1 DEF Inv1, LaneInv, Unopened
<1>2. conn' = [conn EXCEPT ![c] = kk]
  BY <1>1 DEF readLoopExit
<1>3. Moves(k, kk)
  <2>a. kk \in ConnType /\ kk.open
    BY <1>0, <1>1 DEF ConnType, RlStates, WlStates, WriteErrs
  <2>b. OneUse(kk)
    BY <1>0, <1>1 DEF ConnType, Good, OneUse, Fit, Reading, Resting, Recycled, Ending
  <2>c. Reading(kk)
    BY <1>0, <1>1 DEF ConnType, Good, OneUse, Reading, WriteStages, Resting, Recycled, Ending, isBroken
  <2>d. WriteStages(kk)
    BY <1>0, <1>1 DEF ConnType, Good, OneUse, WriteStages, Fit, isBroken
  <2>e. Fit(k) /\ ~k.idle => Fit(kk) /\ ~kk.idle /\ kk.numExpectedResponses = k.numExpectedResponses
    BY <1>0, <1>1 DEF ConnType, Fit, Resting, Recycled, Ending
  <2>m. Moves(k, kk)
    BY <2>a, <2>b, <2>c, <2>d, <2>e DEF Moves, Good
  <2>. QED  BY <2>m
<1>4. Calm
  <2>1. CASE k.rc = NoReq
    BY <2>1, CalmReq DEF readLoopExit
  <2>2. CASE k.rc # NoReq
    <3>. DEFINE r == k.rc
                x == IF req[r].respBody \in {"EOFWait", "earlyWait"} THEN "done" ELSE req[r].respBody
                y == IF req[r].ctx = "live" /\ k.resp # ErrResp THEN "done" ELSE req[r].ctx
                q == [req[r] EXCEPT !.respBody = x, !.ctx = y]
    <3>1. r \in Reqs
      BY <1>1, <2>2 DEF ConnType, MaybeReq
    <3>2. req[r] \in ReqType /\ Placed(req[r])
      BY <3>1, AtReq
    <3>3. req' = [req EXCEPT ![r] = q]
      BY <2>2, <3>1, <3>2 DEF readLoopExit, ReqType
    <3>4. x \in BodyStates /\ y \in CtxStates /\ (x = req[r].respBody \/ x = "done")
      BY <3>2 DEF ReqType, BodyStates, CtxStates
    <3>. HIDE DEF x, y
    <3>5. q \in ReqType /\ q.pc = req[r].pc /\ q.conn = req[r].conn
      BY <3>2, <3>4 DEF ReqType
    <3>6. Placed(q)
      BY <3>2, <3>4 DEF ReqType, Placed
    <3>. QED  BY <3>1, <3>3, <3>5, <3>6, CalmSet
  <2>. QED  BY <2>1, <2>2
<1>. QED  BY <1>0, <1>2, <1>3, <1>4, ConnStep DEF readLoopExit

\* The select of readLoop behind a response with a body.
LEMMA BodyWaitLane ==
  ASSUME Inv1, NEW c \in Conns, readLoopBodyWait(c)
  PROVE  Inv1' /\ Calm
<1>. DEFINE k == conn[c]
<1>1. k \in ConnType /\ Good(k) /\ k.open /\ k.rl = "bodyWait"
  BY AtConn DEF readLoopBodyWait, Good, OneUse, Resting, Recycled, ConnType, Ending, Reading, MaybeReq
<1>2. CASE conn' = [conn EXCEPT ![c].rl = "recycle", ![c].waitForBodyRead = "none"]
  <2>. DEFINE kk == [k EXCEPT !.rl = "recycle", !.waitForBodyRead = "none"]
  <2>a. kk \in ConnType /\ kk.open
    BY <1>1 DEF ConnType, RlStates, Signals
  <2>b. OneUse(kk)
    BY <1>1 DEF ConnType, Good, OneUse, Fit, Reading, Resting, Recycled, Ending
  <2>c. Reading(kk)
    BY <1>1 DEF ConnType, Good, OneUse, Reading, WriteStages, Resting, Recycled, Ending, isBroken
  <2>d. WriteStages(kk)
    BY <1>1 DEF ConnType, Good, OneUse, WriteStages, Fit, isBroken
  <2>e. Fit(k) /\ ~k.idle => Fit(kk) /\ ~kk.idle /\ kk.numExpectedResponses = k.numExpectedResponses
    BY <1>1 DEF ConnType, Fit, Resting, Recycled, Ending
  <2>m. Moves(k, kk)
    BY <2>a, <2>b, <2>c, <2>d, <2>e DEF Moves, Good
  <2>. QED  BY ZenonT(40), <1>1, <1>2, <2>m, CalmReq, ConnStep DEF readLoopBodyWait
<1>. DEFINE kj == [k EXCEPT !.rl = "exit", !.alive = FALSE]
<1>3. Moves(k, kj)
  <2>. DEFINE kk == kj
  <2>a. kk \in ConnType /\ kk.open
    BY <1>1 DEF ConnType, RlStates, WlStates, WriteErrs
  <2>b. OneUse(kk)
    BY <1>1 DEF ConnType, Good, OneUse, Fit, Reading, Resting, Recycled, Ending
  <2>c. Reading(kk)
    BY <1>1 DEF ConnType, Good, OneUse, Reading, WriteStages, Resting, Recycled, Ending, isBroken
  <2>d. WriteStages(kk)
    BY <1>1 DEF ConnType, Good, OneUse, WriteStages, Fit, isBroken
  <2>e. Fit(k) /\ ~k.idle => Fit(kk) /\ ~kk.idle /\ kk.numExpectedResponses = k.numExpectedResponses
    BY <1>1 DEF ConnType, Fit, Resting, Recycled, Ending
  <2>m. Moves(k, kk)
    BY <2>a, <2>b, <2>c, <2>d, <2>e DEF Moves, Good
  <2>. QED  BY <2>m
<1>4. CASE conn' = [conn EXCEPT ![c].rl = "exit", ![c].alive = FALSE]
  BY ZenonT(40), <1>1, <1>3, <1>4, CalmReq, ConnStep DEF readLoopBodyWait
<1>5. CASE conn' = [conn EXCEPT ![c] = [cancelRequest(@) EXCEPT !.rl = "exit", !.alive = FALSE]]
  <2>1. [cancelRequest(k) EXCEPT !.rl = "exit", !.alive = FALSE] = cancelRequest(kj)
    BY <1>1 DEF cancelRequest, closeLocked, ConnType
  <2>2. conn' = [conn EXCEPT ![c] = cancelRequest(kj)]
    BY <1>5, <2>1
  <2>3. Moves(k, cancelRequest(kj))
    BY <1>1, <1>3, CancelMoves
  <2>4. Calm
    BY CalmReq DEF readLoopBodyWait
  <2>. HIDE DEF kj
  <2>. QED  BY <1>1, <2>2, <2>3, <2>4, ConnStep DEF readLoopBodyWait
<1>. QED  BY <1>2, <1>4, <1>5 DEF readLoopBodyWait

-----------------------------------------------------------------------------
(* ... under the steps of the write loop.                                  *)

\* What is sent are items of requests.
LEMMA SentFacts ==
  ASSUME NEW n \in NetType, NEW s \in Seq(Item)
  PROVE  Sent(n, s) \in NetType
<1>1. n.up \o s \in Seq(Item)
  BY DEF NetType
<1>. QED  BY <1>1 DEF NetType, Sent

\* The messages of the write loop.
LEMMA ItemFacts ==
  ASSUME NEW r \in Reqs
  PROVE  /\ Head1(r) \in Item /\ Body1(r) \in Item
         /\ <<>> \in Seq(Item) /\ <<Head1(r)>> \in Seq(Item) /\ <<Body1(r)>> \in Seq(Item)
         /\ <<Head1(r)>> \o <<Body1(r)>> \in Seq(Item)
<1>1. Head1(r) \in Item /\ Body1(r) \in Item
  BY DEF Head1, Body1, Item
<1>. QED  BY <1>1

\* Closing the request body moves nobody.
LEMMA CalmClose ==
  ASSUME Inv1, NEW r \in Reqs, req' = [req EXCEPT ![r] = closeBody(@)] PROVE Calm
<1>1. PICK q : q = closeBody(req[r])
  OBVIOUS
<1>2. req[r] \in ReqType /\ Placed(req[r])
  BY AtReq
<1>3. q \in ReqType /\ q.pc = req[r].pc /\ q.conn = req[r].conn /\ q.respBody = req[r].respBody
  BY <1>1, <1>2 DEF closeBody, ReqType
<1>4. Placed(q)
  BY <1>2, <1>3 DEF Placed
<1>. QED  BY <1>1, <1>3, <1>4, CalmSet

\* The select of writeLoop.
LEMMA WriteSelectLane ==
  ASSUME Inv1, NEW c \in Conns, writeLoopSelect(c)
  PROVE  Inv1' /\ Calm
<1>. DEFINE k == conn[c]
<1>1. k \in ConnType /\ Good(k) /\ k.open /\ k.wl = "idle"
  BY AtConn DEF writeLoopSelect
<1>2. CASE k.writech # NoReq /\ conn' = [conn EXCEPT ![c].wl = IF k.continueCh = "nil" THEN "body" ELSE "head",
                                  ![c].wr = k.writech, ![c].writech = NoReq]
  <2>. DEFINE x == IF k.continueCh = "nil" THEN "body" ELSE "head"
              kk == [k EXCEPT !.wl = x, !.wr = k.writech, !.writech = NoReq]
  <2>1. x \in {"body", "head"} /\ conn' = [conn EXCEPT ![c] = kk]
    BY <1>2
  <2>. HIDE DEF x
  <2>a. kk \in ConnType /\ kk.open
    BY <1>1, <2>1 DEF ConnType, WlStates, MaybeReq
  <2>b. OneUse(kk)
    BY <1>1, <1>2, <2>1 DEF ConnType, Good, OneUse, Fit, Reading, Resting, Recycled, Ending
  <2>c. Reading(kk)
    BY <1>1, <1>2, <2>1 DEF ConnType, Good, OneUse, Reading, WriteStages, Resting, Recycled, Ending, isBroken
  <2>d. WriteStages(kk)
    BY <1>1, <1>2, <2>1 DEF ConnType, Good, OneUse, WriteStages, Fit, isBroken
  <2>e. Fit(k) /\ ~k.idle => Fit(kk) /\ ~kk.idle /\ kk.numExpectedResponses = k.numExpectedResponses
    BY <1>1, <1>2, <2>1 DEF ConnType, Fit, Resting, Recycled, Ending
  <2>m. Moves(k, kk)
    BY <2>a, <2>b, <2>c, <2>d, <2>e DEF Moves, Good
  <2>. QED  BY <1>1, <2>1, <2>m, CalmReq, ConnStep DEF writeLoopSelect
<1>3. CASE isBroken(k) /\ conn' = [conn EXCEPT ![c].wl = "done"]
  <2>. DEFINE kk == [k EXCEPT !.wl = "done"]
  <2>a. kk \in ConnType /\ kk.open
    BY <1>1, <1>3 DEF ConnType, RlStates, WlStates, WriteErrs
  <2>b. OneUse(kk)
    BY <1>1, <1>3 DEF ConnType, Good, OneUse, Fit, Reading, Resting, Recycled, Ending
  <2>c. Reading(kk)
    BY <1>1, <1>3 DEF ConnType, Good, OneUse, Reading, WriteStages, Resting, Recycled, Ending, isBroken
  <2>d. WriteStages(kk)
    BY <1>1, <1>3 DEF ConnType, Good, OneUse, WriteStages, Fit, isBroken
  <2>e. Fit(k) /\ ~k.idle => Fit(kk) /\ ~kk.idle /\ kk.numExpectedResponses = k.numExpectedResponses
    BY <1>1, <1>3 DEF ConnType, Fit, Resting, Recycled, Ending
  <2>m. Moves(k, kk)
    BY <2>a, <2>b, <2>c, <2>d, <2>e DEF Moves, Good
  <2>. QED  BY <1>1, <1>3, <2>m, CalmReq, ConnStep DEF writeLoopSelect
<1>. QED  BY <1>2, <1>3 DEF writeLoopSelect

\* A write loop at work has a request.
LEMMA AtWriter ==
  ASSUME Inv1, NEW c \in Conns, conn[c].wl \notin {"idle", "done"}
  PROVE  conn[c].open /\ conn[c].wr \in Reqs
BY AtConn DEF Good, WriteStages, ConnType, MaybeReq

\* writeRequest up to the flush.
LEMMA WriteHeadLane ==
  ASSUME Inv1, NEW c \in Conns, writeRequestHead(c)
  PROVE  Inv1' /\ Calm
<1>. DEFINE k == conn[c]
            kk == [k EXCEPT !.wl = "wait", !.wrote = TRUE]
            nn == Sent(net[c], <<Head1(k.wr)>>)
<1>1. k \in ConnType /\ Good(k) /\ k.wl = "head"
  BY AtConn DEF writeRequestHead
<1>0. k.open /\ k.wr \in Reqs
  BY <1>1, AtWriter
<1>2. conn' = [conn EXCEPT ![c] = kk] /\ net' = [net EXCEPT ![c] = nn]
  BY DEF writeRequestHead
<1>3. Moves(k, kk)
  <2>a. kk \in ConnType /\ kk.open
    BY <1>0, <1>1 DEF ConnType, RlStates, WlStates, WriteErrs
  <2>b. OneUse(kk)
    BY <1>0, <1>1 DEF ConnType, Good, OneUse, Fit, Reading, Resting, Recycled, Ending
  <2>c. Reading(kk)
    BY <1>0, <1>1 DEF ConnType, Good, OneUse, Reading, WriteStages, Resting, Recycled, Ending, isBroken
  <2>d. WriteStages(kk)
    BY <1>0, <1>1 DEF ConnType, Good, OneUse, WriteStages, Fit, isBroken
  <2>e. Fit(k) /\ ~k.idle => Fit(kk) /\ ~kk.idle /\ kk.numExpectedResponses = k.numExpectedResponses
    BY <1>0, <1>1 DEF ConnType, Fit, Resting, Recycled, Ending
  <2>m. Moves(k, kk)
    BY <2>a, <2>b, <2>c, <2>d, <2>e DEF Moves, Good
  <2>. QED  BY <2>m
<1>4. nn \in NetType
  BY <1>0, AtConn, SentFacts, ItemFacts
<1>. HIDE DEF nn, kk
<1>. QED  BY <1>0, <1>2, <1>3, <1>4, CalmReq, ConnNetStep DEF writeRequestHead, Inv1, TypeOK

\* waitForContinue.
LEMMA ContinueLane ==
  ASSUME Inv1, NEW c \in Conns, waitForContinue(c)
  PROVE  Inv1' /\ Calm
<1>. DEFINE k == conn[c]
<1>1. k \in ConnType /\ Good(k) /\ k.wl = "wait"
  BY AtConn DEF waitForContinue
<1>0. k.open /\ k.wr \in Reqs
  BY <1>1, AtWriter
<1>2. CASE conn' = [conn EXCEPT ![c].wl = "body"] /\ UNCHANGED req
  <2>. DEFINE kk == [k EXCEPT !.wl = "body"]
  <2>a. kk \in ConnType /\ kk.open
    BY <1>0, <1>1 DEF ConnType, RlStates, WlStates, WriteErrs
  <2>b. OneUse(kk)
    BY <1>0, <1>1 DEF ConnType, Good, OneUse, Fit, Reading, Resting, Recycled, Ending
  <2>c. Reading(kk)
    BY <1>0, <1>1 DEF ConnType, Good, OneUse, Reading, WriteStages, Resting, Recycled, Ending, isBroken
  <2>d. WriteStages(kk)
    BY <1>0, <1>1 DEF ConnType, Good, OneUse, WriteStages, Fit, isBroken
  <2>e. Fit(k) /\ ~k.idle => Fit(kk) /\ ~kk.idle /\ kk.numExpectedResponses = k.numExpectedResponses
    BY <1>0, <1>1 DEF ConnType, Fit, Resting, Recycled, Ending
  <2>m. Moves(k, kk)
    BY <2>a, <2>b, <2>c, <2>d, <2>e DEF Moves, Good
  <2>. QED  BY <1>0, <1>2, <2>m, CalmReq, ConnStep DEF waitForContinue
<1>3. CASE /\ conn' = [conn EXCEPT ![c].wl = "report", ![c].werr = "nil"]
           /\ req' = [req EXCEPT ![k.wr] = closeBody(@)]
  <2>. DEFINE kk == [k EXCEPT !.wl = "report", !.werr = "nil"]
  <2>a. kk \in ConnType /\ kk.open
    BY <1>0, <1>1 DEF ConnType, RlStates, WlStates, WriteErrs
  <2>b. OneUse(kk)
    BY <1>0, <1>1 DEF ConnType, Good, OneUse, Fit, Reading, Resting, Recycled, Ending
  <2>c. Reading(kk)
    BY <1>0, <1>1 DEF ConnType, Good, OneUse, Reading, WriteStages, Resting, Recycled, Ending, isBroken
  <2>d. WriteStages(kk)
    BY <1>0, <1>1 DEF ConnType, Good, OneUse, WriteStages, Fit, isBroken
  <2>e. Fit(k) /\ ~k.idle => Fit(kk) /\ ~kk.idle /\ kk.numExpectedResponses = k.numExpectedResponses
    BY <1>0, <1>1 DEF ConnType, Fit, Resting, Recycled, Ending
  <2>m. Moves(k, kk)
    BY <2>a, <2>b, <2>c, <2>d, <2>e DEF Moves, Good
  <2>. QED  BY <1>0, <1>3, <2>m, CalmClose, ConnStep DEF waitForContinue
<1>. QED  BY <1>2, <1>3 DEF waitForContinue

\* The body and the flush.
LEMMA WriteBodyLane ==
  ASSUME Inv1, NEW c \in Conns, writeRequestBody(c)
  PROVE  Inv1' /\ Calm
<1>. DEFINE k == conn[c]
            head == IF k.wrote THEN <<>> ELSE <<Head1(k.wr)>>
            items == IF hasBody(k.wr) THEN head \o <<Body1(k.wr)>> ELSE head
            kk == [k EXCEPT !.wl = "report", !.werr = "nil", !.wrote = TRUE]
            nn == Sent(net[c], items)
<1>1. k \in ConnType /\ Good(k) /\ k.wl = "body"
  BY AtConn DEF writeRequestBody
<1>0. k.open /\ k.wr \in Reqs
  BY <1>1, AtWriter
<1>2. conn' = [conn EXCEPT ![c] = kk] /\ net' = [net EXCEPT ![c] = nn]
  BY DEF writeRequestBody
<1>3. Moves(k, kk)
  <2>a. kk \in ConnType /\ kk.open
    BY <1>0, <1>1 DEF ConnType, RlStates, WlStates, WriteErrs
  <2>b. OneUse(kk)
    BY <1>0, <1>1 DEF ConnType, Good, OneUse, Fit, Reading, Resting, Recycled, Ending
  <2>c. Reading(kk)
    BY <1>0, <1>1 DEF ConnType, Good, OneUse, Reading, WriteStages, Resting, Recycled, Ending, isBroken
  <2>d. WriteStages(kk)
    BY <1>0, <1>1 DEF ConnType, Good, OneUse, WriteStages, Fit, isBroken
  <2>e. Fit(k) /\ ~k.idle => Fit(kk) /\ ~kk.idle /\ kk.numExpectedResponses = k.numExpectedResponses
    BY <1>0, <1>1 DEF ConnType, Fit, Resting, Recycled, Ending
  <2>m. Moves(k, kk)
    BY <2>a, <2>b, <2>c, <2>d, <2>e DEF Moves, Good
  <2>. QED  BY <2>m
<1>4. nn \in NetType
  <2>1. head \in Seq(Item) /\ <<Body1(k.wr)>> \in Seq(Item)
    BY <1>0, ItemFacts
  <2>. HIDE DEF head
  <2>2. items \in Seq(Item)
    BY <2>1
  <2>. QED  BY <2>2, AtConn, SentFacts
<1>5. Calm
  <2>. DEFINE q == [req[k.wr] EXCEPT !.didRead = TRUE, !.didClose = TRUE]
  <2>r. k.wr \in Reqs /\ req[k.wr] \in ReqType /\ Placed(req[k.wr])
    BY <1>0, <1>1, AtReq DEF ConnType, MaybeReq
  <2>s. req' = [req EXCEPT ![k.wr] = q]
    BY <1>0, <1>1, <2>r DEF writeRequestBody
  <2>t. q \in ReqType /\ q.pc = req[k.wr].pc /\ q.conn = req[k.wr].conn
    BY <1>0, <1>1, <2>r DEF ReqType
  <2>u. Placed(q)
    BY <2>r DEF ReqType, Placed
  <2>. QED  BY <2>r, <2>s, <2>t, <2>u, CalmSet
<1>. HIDE DEF nn, kk
<1>. QED  BY <1>0, <1>2, <1>3, <1>4, <1>5, ConnNetStep DEF writeRequestBody, Inv1, TypeOK

\* writeRequest fails.
LEMMA WriteFailsLane ==
  ASSUME Inv1, NEW c \in Conns, writeRequestFails(c)
  PROVE  Inv1' /\ Calm
<1>. DEFINE k == conn[c]
<1>1. k \in ConnType /\ Good(k) /\ k.wl \in {"head", "body"}
  BY AtConn DEF writeRequestFails
<1>0. k.open /\ k.wr \in Reqs
  BY <1>1, AtWriter
<1>2. PICK cause \in {"invalid", "net", "bodyRead"}, out \in BOOLEAN :
        /\ conn' = [conn EXCEPT ![c].wl = "report", ![c].werr = "err", ![c].wrote = @ \/ out]
        /\ net' = [net EXCEPT ![c] = Sent(@, IF out THEN <<Head1(k.wr)>> ELSE <<>>)]
        /\ req' = [req EXCEPT ![k.wr].didRead = @ \/ k.wl = "body", ![k.wr].didClose = TRUE,
                              ![k.wr].setError = @ \/ cause = "bodyRead"]
  BY DEF writeRequestFails
<1>. DEFINE w == k.wrote \/ out
            kk == [k EXCEPT !.wl = "report", !.werr = "err", !.wrote = w]
            items == IF out THEN <<Head1(k.wr)>> ELSE <<>>
            nn == Sent(net[c], items)
<1>3. conn' = [conn EXCEPT ![c] = kk] /\ net' = [net EXCEPT ![c] = nn] /\ w \in BOOLEAN
  BY <1>2
<1>. HIDE DEF w
<1>4. Moves(k, kk)
  <2>a. kk \in ConnType /\ kk.open
    BY <1>0, <1>1, <1>3 DEF ConnType, RlStates, WlStates, WriteErrs
  <2>b. OneUse(kk)
    BY <1>0, <1>1, <1>3 DEF ConnType, Good, OneUse, Fit, Reading, Resting, Recycled, Ending
  <2>c. Reading(kk)
    BY <1>0, <1>1, <1>3 DEF ConnType, Good, OneUse, Reading, WriteStages, Resting, Recycled, Ending, isBroken
  <2>d. WriteStages(kk)
    BY <1>0, <1>1, <1>3 DEF ConnType, Good, OneUse, WriteStages, Fit, isBroken
  <2>e. Fit(k) /\ ~k.idle => Fit(kk) /\ ~kk.idle /\ kk.numExpectedResponses = k.numExpectedResponses
    BY <1>0, <1>1, <1>3 DEF ConnType, Fit, Resting, Recycled, Ending
  <2>m. Moves(k, kk)
    BY <2>a, <2>b, <2>c, <2>d, <2>e DEF Moves, Good
  <2>. QED  BY <2>m
<1>5. nn \in NetType
  <2>1. items \in Seq(Item)
    BY <1>0, ItemFacts
  <2>. HIDE DEF items
  <2>. QED  BY <2>1, AtConn, SentFacts
<1>6. Calm
  <2>. DEFINE x == req[k.wr].didRead \/ k.wl = "body"
              y == req[k.wr].setError \/ cause = "bodyRead"
              q == [req[k.wr] EXCEPT !.didRead = x, !.didClose = TRUE, !.setError = y]
  <2>1. req' = [req EXCEPT ![k.wr] = q] /\ x \in BOOLEAN /\ y \in BOOLEAN
    BY <1>2
  <2>. HIDE DEF x, y
  <2>2. req[k.wr] \in ReqType /\ Placed(req[k.wr])
    BY <1>0, AtReq
  <2>3. q \in ReqType /\ q.pc = req[k.wr].pc /\ q.conn = req[k.wr].conn
    BY <2>1, <2>2 DEF ReqType
  <2>4. Placed(q)
    BY <2>2 DEF ReqType, Placed
  <2>. QED  BY <1>0, <2>1, <2>3, <2>4, CalmSet
<1>. HIDE DEF nn, kk
<1>. QED  BY <1>0, <1>3, <1>4, <1>5, <1>6, ConnNetStep DEF writeRequestFails, Inv1, TypeOK

\* The write loop reports.
LEMMA ReportLane ==
  ASSUME Inv1, NEW c \in Conns, writeLoopReport(c)
  PROVE  Inv1' /\ Calm
<1>. DEFINE k == conn[c]
            x == IF k.werr = "nil" THEN "idle" ELSE "close"
            kk == [k EXCEPT !.writeErrCh = k.werr, !.wl = x]
<1>1. k \in ConnType /\ Good(k) /\ k.wl = "report"
  BY AtConn DEF writeLoopReport
<1>0. k.open /\ k.wr \in Reqs
  BY <1>1, AtWriter
<1>2. conn' = [conn EXCEPT ![c] = kk] /\ x \in {"idle", "close"} /\ (x = "idle" <=> k.werr = "nil")
  BY <1>1 DEF writeLoopReport, ConnType
<1>. HIDE DEF x
<1>3. Moves(k, kk)
  <2>a. kk \in ConnType /\ kk.open
    BY <1>0, <1>1, <1>2 DEF ConnType, RlStates, WlStates, WriteErrs
  <2>b. OneUse(kk)
    BY <1>0, <1>1, <1>2 DEF ConnType, Good, OneUse, Fit, Reading, Resting, Recycled, Ending
  <2>c. Reading(kk)
    BY <1>0, <1>1, <1>2 DEF ConnType, Good, OneUse, Reading, WriteStages, Resting, Recycled, Ending, isBroken
  <2>d. WriteStages(kk)
    BY <1>0, <1>1, <1>2 DEF ConnType, Good, OneUse, WriteStages, Fit, isBroken
  <2>e. Fit(k) /\ ~k.idle => Fit(kk) /\ ~kk.idle /\ kk.numExpectedResponses = k.numExpectedResponses
    BY <1>0, <1>1, <1>2 DEF ConnType, Fit, Resting, Recycled, Ending
  <2>m. Moves(k, kk)
    BY <2>a, <2>b, <2>c, <2>d, <2>e DEF Moves, Good
  <2>. QED  BY <2>m
<1>4. Calm
  <2>. DEFINE y == IF req[k.wr].conn = c /\ req[k.wr].pc = "select" THEN k.werr ELSE req[k.wr].writeErrCh
              q == [req[k.wr] EXCEPT !.writeErrCh = y]
  <2>2. req[k.wr] \in ReqType /\ Placed(req[k.wr])
    BY <1>0, AtReq
  <2>1. req' = [req EXCEPT ![k.wr] = q] /\ y \in WriteErrs
    BY <1>1, <2>2 DEF writeLoopReport, ReqType, ConnType, WriteErrs
  <2>. HIDE DEF y
  <2>3. q \in ReqType /\ q.pc = req[k.wr].pc /\ q.conn = req[k.wr].conn
    BY <2>1, <2>2 DEF ReqType
  <2>4. Placed(q)
    BY <2>2 DEF ReqType, Placed
  <2>. QED  BY <1>0, <2>1, <2>3, <2>4, CalmSet
<1>. QED  BY <1>0, <1>2, <1>3, <1>4, ConnStep DEF writeLoopReport

\* The write loop closes the connection.
LEMMA WriteCloseLane ==
  ASSUME Inv1, NEW c \in Conns, writeLoopClose(c)
  PROVE  Inv1' /\ Calm
<1>. DEFINE k == conn[c]
            kj == closeLocked(k, "write")
            kk == [kj EXCEPT !.wl = "done"]
<1>1. k \in ConnType /\ Good(k) /\ k.wl = "close"
  BY AtConn DEF writeLoopClose
<1>0. k.open /\ k.wr \in Reqs
  BY <1>1, AtWriter
<1>2. conn' = [conn EXCEPT ![c] = kk]
  BY <1>1 DEF writeLoopClose, ConnType
<1>3. Moves(k, kj) /\ isBroken(kj)
  BY <1>0, <1>1, SameMoves, CloseMoves, CloseFacts DEF CloseReasons
<1>4. kj.wl = "close"
  BY <1>1 DEF closeLocked, ConnType
<1>. HIDE DEF kj
<1>5. kk \in ConnType /\ kk.open
  BY <1>3 DEF Moves, ConnType, WlStates
<1>6. Recycled(kk) = Recycled(kj) /\ Resting(kk) = Resting(kj)
  BY <1>3 DEF Moves, ConnType, Recycled, Resting
<1>7. Good(kk)
  BY <1>3, <1>4, <1>6 DEF Moves, ConnType, Good, OneUse, Fit, Reading, WriteStages, isBroken
<1>8. Moves(kj, kk)
  BY <1>3, <1>4, <1>5, <1>6, <1>7 DEF Moves, Fit, ConnType
<1>9. Moves(k, kk)
  BY <1>3, <1>8 DEF Moves
<1>. QED  BY <1>0, <1>2, <1>9, CalmReq, ConnStep DEF writeLoopClose

-----------------------------------------------------------------------------
(* ... under the steps of the callers.                                     *)

\* The end of roundTrip.
LEMMA ReturnFacts ==
  ASSUME NEW q \in ReqType, NEW a \in Answers
  PROVE  LET x == Return(q, a) IN
         /\ x \in ReqType /\ x.pc = "done" /\ x.conn = q.conn /\ x.respBody = q.respBody
         /\ x.answer = a /\ x.didClose = q.didClose /\ x.err = q.err
<1>. DEFINE y == IF a = "error" /\ q.ctx = "live" THEN "done" ELSE q.ctx
            x == [q EXCEPT !.pc = "done", !.answer = a, !.ctx = y]
<1>1. y \in CtxStates /\ Return(q, a) = x
  BY DEF Return, ReqType, CtxStates
<1>. HIDE DEF y
<1>2. /\ x \in ReqType /\ x.pc = "done" /\ x.conn = q.conn /\ x.respBody = q.respBody
      /\ x.answer = a /\ x.didClose = q.didClose /\ x.err = q.err
  BY <1>1 DEF ReqType, PcStates
<1>. QED  BY <1>1, <1>2

\* Closing the request body.
LEMMA CloseBodyFacts ==
  ASSUME NEW q \in ReqType
  PROVE  LET x == closeBody(q) IN
         /\ x \in ReqType /\ x.pc = q.pc /\ x.conn = q.conn /\ x.respBody = q.respBody
         /\ x.answer = q.answer /\ x.didClose = TRUE /\ x.err = q.err
BY DEF closeBody, ReqType

\* Returning an error with the request body closed.
LEMMA FailFacts ==
  ASSUME NEW q \in ReqType
  PROVE  LET x == Return(closeBody(q), "error") IN
         /\ x \in ReqType /\ x.pc = "done" /\ x.conn = q.conn /\ x.respBody = q.respBody
         /\ x.answer = "error" /\ x.didClose = TRUE
<1>1. PICK y : y = closeBody(q)
  OBVIOUS
<1>2. y \in ReqType /\ y.conn = q.conn /\ y.respBody = q.respBody /\ y.didClose = TRUE
  BY <1>1, CloseBodyFacts
<1>3. "error" \in Answers
  BY DEF Answers
<1>. QED  BY <1>1, <1>2, <1>3, ReturnFacts

\* rewindBody returns with an error or lets the call go on.
LEMMA RewindFacts ==
  ASSUME NEW r \in Reqs, NEW q \in ReqType, NEW x \in rewindBody(r, q, "loop")
  PROVE  /\ x \in ReqType /\ x.conn = q.conn /\ x.respBody = q.respBody
         /\ \/ x.pc = "loop" /\ x.answer = q.answer
            \/ x.pc = "done" /\ x.answer = "error" /\ x.didClose = TRUE
<1>1. CASE x = [q EXCEPT !.pc = "loop"]
  BY <1>1 DEF ReqType, PcStates
<1>2. CASE x = Return(closeBody(q), "error")
  BY <1>2, FailFacts
<1>3. CASE x = [q EXCEPT !.pc = "loop", !.didRead = FALSE, !.didClose = FALSE]
  BY <1>3 DEF ReqType, PcStates
<1>. QED  BY <1>1, <1>2, <1>3 DEF rewindBody

\* A caller goes on with its loop or returns, its response body as it was.
LEMMA LeaveStep ==
  ASSUME Inv1, NEW r \in Reqs, NEW q \in ReqType, req' = [req EXCEPT ![r] = q],
         q.pc \in {"loop", "cached", "done"}, q.conn = req[r].conn, q.respBody = req[r].respBody,
         conn' = conn, net' = net, env' = env, handled' \in [Reqs -> Nat], mixed' = mixed
  PROVE  Inv1' /\ Calm
<1>1. Placed(req[r])
  BY AtReq
<1>2. Placed(q)
  BY <1>1 DEF Placed
<1>3. Calm
  BY <1>2, CalmSet
<1>. QED  BY <1>3, ReqStep DEF Inv1, TypeOK

\* Validation fails.
LEMMA RejectLane ==
  ASSUME Inv1, NEW r \in Reqs, roundTripReject(r) PROVE Inv1' /\ Calm
<1>1. req[r] \in ReqType /\ "error" \in Answers
  BY AtReq DEF Answers
<1>2. PICK q : q = Return(closeBody(req[r]), "error")
  OBVIOUS
<1>3. q \in ReqType /\ q.pc = "done" /\ q.conn = req[r].conn /\ q.respBody = req[r].respBody
  BY <1>1, <1>2, FailFacts
<1>. QED  BY <1>2, <1>3, LeaveStep DEF roundTripReject, Inv1, TypeOK

\* The cached HTTP/2 connection is tried.
LEMMA CachedLane ==
  ASSUME Inv1, NEW r \in Reqs, roundTripCached(r) PROVE Inv1' /\ Calm
<1>1. req[r] \in ReqType /\ handled \in [Reqs -> Nat]
  BY AtReq DEF Inv1, TypeOK
<1>2. CASE req' = [req EXCEPT ![r].pc = "loop"] /\ UNCHANGED handled
  <2>. DEFINE q == [req[r] EXCEPT !.pc = "loop"]
  <2>1. q \in ReqType /\ q.pc = "loop" /\ q.conn = req[r].conn /\ q.respBody = req[r].respBody
    BY <1>1 DEF ReqType, PcStates
  <2>. QED  BY <1>1, <1>2, <2>1, LeaveStep DEF roundTripCached
<1>3. CASE handled' = [handled EXCEPT ![r] = @ + 1] /\ req' = [req EXCEPT ![r].pc = "cached"]
  <2>. DEFINE q == [req[r] EXCEPT !.pc = "cached"]
  <2>1. q \in ReqType /\ q.pc = "cached" /\ q.conn = req[r].conn /\ q.respBody = req[r].respBody
    BY <1>1 DEF ReqType, PcStates
  <2>2. handled' \in [Reqs -> Nat]
    BY <1>1, <1>3
  <2>. QED  BY <1>3, <2>1, <2>2, LeaveStep DEF roundTripCached
<1>4. CASE /\ \E q \in rewindBody(r, [closeBody(req[r]) EXCEPT !.didRead = TRUE], "loop") :
                  req' = [req EXCEPT ![r] = q]
           /\ UNCHANGED handled
  <2>. DEFINE x == [closeBody(req[r]) EXCEPT !.didRead = TRUE]
  <2>1. x \in ReqType /\ x.conn = req[r].conn /\ x.respBody = req[r].respBody
    BY <1>1 DEF closeBody, ReqType
  <2>. HIDE DEF x
  <2>2. PICK q \in rewindBody(r, x, "loop") : req' = [req EXCEPT ![r] = q]
    BY <1>4 DEF x
  <2>3. /\ q \in ReqType /\ q.pc \in {"loop", "done"}
        /\ q.conn = req[r].conn /\ q.respBody = req[r].respBody
    BY <2>1, <2>2, RewindFacts
  <2>. QED  BY <1>1, <1>4, <2>2, <2>3, LeaveStep DEF roundTripCached
<1>. QED  BY <1>2, <1>3, <1>4 DEF roundTripCached

\* The cached HTTP/2 connection has the answer.
LEMMA CachedEndLane ==
  ASSUME Inv1, NEW r \in Reqs, roundTripCachedEnd(r) PROVE Inv1' /\ Calm
<1>1. req[r] \in ReqType
  BY AtReq
<1>2. PICK a \in {r, "error"} :
         req' = [req EXCEPT ![r] = Return([closeBody(@) EXCEPT !.didRead = TRUE], a)]
  BY DEF roundTripCachedEnd
<1>. DEFINE x == [closeBody(req[r]) EXCEPT !.didRead = TRUE]
<1>3. x \in ReqType /\ x.conn = req[r].conn /\ x.respBody = req[r].respBody /\ a \in Answers
  BY <1>1, <1>2 DEF closeBody, ReqType, Answers
<1>4. req' = [req EXCEPT ![r] = Return(x, a)]
  BY <1>2
<1>. HIDE DEF x
<1>5. /\ Return(x, a) \in ReqType /\ Return(x, a).pc = "done"
      /\ Return(x, a).conn = req[r].conn /\ Return(x, a).respBody = req[r].respBody
  BY <1>3, ReturnFacts
<1>. QED  BY <1>4, <1>5, LeaveStep DEF roundTripCachedEnd, Inv1, TypeOK

\* persistConn.roundTrip failed.
LEMMA FailedLane ==
  ASSUME Inv1, NEW r \in Reqs, roundTripFailed(r) PROVE Inv1' /\ Calm
<1>1. req[r] \in ReqType /\ "error" \in Answers
  BY AtReq DEF Answers
<1>2. PICK q : /\ req' = [req EXCEPT ![r] = q]
               /\ q \in rewindBody(r, req[r], "loop") \/ q = Return(closeBody(req[r]), "error")
  BY DEF roundTripFailed
<1>3. /\ q \in ReqType /\ q.pc \in {"loop", "done"}
      /\ q.conn = req[r].conn /\ q.respBody = req[r].respBody
  <2>1. CASE q \in rewindBody(r, req[r], "loop")
    <3>1. PICK y \in ReqType : y = req[r]
      BY <1>1
    <3>2. q \in rewindBody(r, y, "loop")
      BY <2>1, <3>1
    <3>3. q \in ReqType /\ q.conn = y.conn /\ q.respBody = y.respBody /\ q.pc \in {"loop", "done"}
      BY <3>2, RewindFacts
    <3>. QED  BY <3>1, <3>3
  <2>2. CASE q = Return(closeBody(req[r]), "error")
    BY <1>1, <2>2, FailFacts
  <2>. QED  BY <1>2, <2>1, <2>2
<1>. QED  BY <1>2, <1>3, LeaveStep DEF roundTripFailed, Inv1, TypeOK

\* The caller's context ends.
LEMMA CancelLane ==
  ASSUME Inv1, NEW r \in Reqs, Cancel(r) PROVE Inv1' /\ Calm
<1>. DEFINE q == [req[r] EXCEPT !.ctx = "canceled"]
<1>1. req[r] \in ReqType /\ Placed(req[r])
  BY AtReq
<1>2. q \in ReqType /\ q.pc = req[r].pc /\ q.conn = req[r].conn /\ Placed(q)
  BY <1>1 DEF ReqType, CtxStates, Placed
<1>3. Calm
  BY <1>2, CalmSet DEF Cancel
<1>. QED  BY <1>3, ReqStep DEF Cancel, Inv1, TypeOK

\* The error of persistConn.roundTrip is made up.
LEMMA MapLane ==
  ASSUME Inv1, NEW r \in Reqs, mapRoundTripError(r) PROVE Inv1' /\ Calm
<1>. DEFINE k == conn[req[r].conn]
            x == CASE k.canceled -> "canceled"
                   [] ~k.canceled /\ req[r].setError -> "bodyRead"
                   [] ~k.canceled /\ ~req[r].setError /\ req[r].err = "serverClosedIdle" -> req[r].err
                   [] ~k.canceled /\ ~req[r].setError /\ req[r].err # "serverClosedIdle" /\ ~k.wrote
                        /\ (req[r].err = "readFromServer" \/ isBroken(k)) -> "nothingWritten"
                   [] OTHER -> req[r].err
            q == [req[r] EXCEPT !.pc = "failed", !.err = x]
<1>1. req[r] \in ReqType /\ Placed(req[r]) /\ req[r].pc = "map"
  BY AtReq DEF mapRoundTripError
<1>2. req' = [req EXCEPT ![r] = q]
  BY DEF mapRoundTripError
<1>3. x \in CallErrors
  BY <1>1 DEF ReqType, CallErrors, CloseReasons
<1>. HIDE DEF x
<1>4. q \in ReqType /\ q.pc = "failed" /\ q.conn = req[r].conn /\ Placed(q)
  BY <1>1, <1>3 DEF ReqType, PcStates, Placed
<1>5. Calm
  BY <1>2, <1>4, CalmSet
<1>. QED  BY <1>5, ReqStep DEF mapRoundTripError, Inv1, TypeOK

\* getConn fails, or the caller has a connection for itself.
LEMMA GetConnLane ==
  ASSUME Inv1, NEW r \in Reqs, getConn(r) PROVE Inv1'
<1>1. req[r] \in ReqType /\ Placed(req[r]) /\ req[r].pc = "loop"
  BY AtReq DEF getConn
<1>2. CASE req' = [req EXCEPT ![r] = Return(closeBody(@), "error")] /\ UNCHANGED conn
  <2>1. PICK q : q = Return(closeBody(req[r]), "error")
    OBVIOUS
  <2>2. q \in ReqType /\ q.pc = "done" /\ q.conn = req[r].conn /\ q.respBody = req[r].respBody
    BY <1>1, <2>1, FailFacts
  <2>. QED  BY <1>2, <2>1, <2>2, LeaveStep DEF getConn, Inv1, TypeOK
<1>3. ASSUME NEW c \in Conns,
             IF conn[c].open THEN conn[c].idle /\ ~isBroken(conn[c])
             ELSE \A d \in Conns : ~(conn[d].idle /\ ~isBroken(conn[d])),
             conn' = [conn EXCEPT ![c].open = TRUE, ![c].idle = FALSE],
             req' = [req EXCEPT ![r].pc = "enter", ![r].conn = c]
      PROVE  Inv1'
  <2>. DEFINE k == conn[c]
              kk == [k EXCEPT !.open = TRUE, !.idle = FALSE]
              q == [req[r] EXCEPT !.pc = "enter", !.conn = c]
  <2>1. k \in ConnType /\ Good(k)
    BY AtConn
  <2>2. kk \in ConnType /\ kk.open /\ ~kk.idle
    BY <2>1 DEF ConnType
  <2>3. Fit(kk) /\ kk.numExpectedResponses = 0
    <3>1. CASE k.open
      <4>1. k.idle
        BY <3>1, <1>3
      <4>. QED  BY <3>1, <4>1, <2>1 DEF Good, OneUse, Fit, ConnType, Resting, Recycled
    <3>2. CASE ~k.open
      <4>1. k = NewConn
        BY <3>2 DEF Inv1, LaneInv, Unopened
      <4>. QED  BY <4>1 DEF NewConn, Fit, Resting
    <3>. QED  BY <3>1, <3>2, <2>1 DEF ConnType
  <2>4. Good(kk)
    <3>1. Recycled(kk) = Recycled(k) /\ Resting(kk) = Resting(k)
      BY <2>1 DEF ConnType, Recycled, Resting
    <3>. QED  BY <2>1, <2>2, <2>3, <3>1 DEF ConnType, Good, OneUse, Fit, Reading, WriteStages, isBroken
  <2>5. \A s \in Reqs : ~Pre(c, s)
    BY <1>3 DEF Inv1, LaneInv, Claim, Fit
  <2>6. q \in ReqType /\ q.pc = "enter" /\ q.conn = c /\ Placed(q)
    BY <1>1 DEF ReqType, PcStates, Placed
  <2>7. /\ conn' \in [Conns -> ConnType] /\ req' \in [Reqs -> ReqType]
        /\ conn'[c] = kk /\ req'[r] = q
        /\ \A d \in Conns : d # c => conn'[d] = conn[d]
        /\ \A s \in Reqs : s # r => req'[s] = req[s]
    BY <1>3, <2>2, <2>6 DEF Inv1, TypeOK
  <2>. HIDE DEF kk, q
  <2>8. TypeOK'
    BY <2>7 DEF getConn, Inv1, TypeOK
  <2>9. ASSUME NEW d \in Conns, NEW s \in Reqs, Pre(d, s)'
        PROVE  (d = c /\ s = r) \/ (d # c /\ s # r /\ Pre(d, s) /\ req'[s] = req[s])
    BY <2>5, <2>6, <2>7, <2>9 DEF Pre
  <2>10. ASSUME NEW d \in Conns, NEW s \in Reqs PROVE Claim(d, s)'
    <3>. SUFFICES ASSUME Pre(d, s)' PROVE Claim(d, s)'
      BY DEF Claim
    <3>1. CASE d = c /\ s = r
      BY <3>1, <2>2, <2>3, <2>6, <2>7, <2>9 DEF Claim
    <3>2. CASE d # c /\ s # r /\ Pre(d, s) /\ req'[s] = req[s]
      <4>1. Claim(d, s) /\ conn'[d] = conn[d]
        BY <3>2, <2>7 DEF Inv1, LaneInv
      <4>2. \A t \in Reqs : Pre(d, t)' => t = s
        BY <3>2, <4>1, <2>9 DEF Claim
      <4>. QED  BY <3>2, <4>1, <4>2 DEF Claim
    <3>. QED  BY <3>1, <3>2, <2>9
  <2>11. \A d \in Conns : Good(conn'[d]) /\ Unopened(d)'
    BY <2>2, <2>4, <2>7 DEF getConn, Inv1, LaneInv, Unopened
  <2>12. \A s \in Reqs : Placed(req'[s]) /\ Opened(s)'
    BY <2>2, <2>6, <2>7 DEF Inv1, LaneInv, Opened
  <2>. QED  BY <2>8, <2>10, <2>11, <2>12 DEF Inv1, LaneInv
<1>. QED  BY <1>2, <1>3 DEF getConn

\* Who has a connection and has not used it finds it fit.
LEMMA AtPre ==
  ASSUME Inv1, NEW r \in Reqs, req[r].pc \in {"enter", "send"}
  PROVE  LET c == req[r].conn IN
         /\ c \in Conns /\ Fit(conn[c]) /\ ~conn[c].idle
         /\ conn[c].numExpectedResponses = IF req[r].pc = "send" THEN 1 ELSE 0
         /\ \A s \in Reqs : Pre(c, s) => s = r
<1>1. req[r].conn \in Conns
  BY DEF Inv1, LaneInv, Placed
<1>. QED  BY <1>1 DEF Inv1, LaneInv, Claim, Pre

\* One more response is expected.
LEMMA EnterLane ==
  ASSUME Inv1, NEW r \in Reqs, roundTripEnter(r) PROVE Inv1'
<1>. DEFINE c == req[r].conn
            k == conn[c]
            v == k.numExpectedResponses + 1
            kk == [k EXCEPT !.numExpectedResponses = v]
            q == [req[r] EXCEPT !.pc = "send"]
<1>1. req[r] \in ReqType /\ Placed(req[r]) /\ req[r].pc = "enter"
  BY AtReq DEF roundTripEnter
<1>2. /\ c \in Conns /\ Fit(k) /\ ~k.idle /\ k.numExpectedResponses = 0
      /\ \A s \in Reqs : Pre(c, s) => s = r
  BY <1>1, AtPre
<1>3. k \in ConnType /\ Good(k)
  BY <1>2, AtConn
<1>4. v = 1
  BY <1>2
<1>5. /\ conn' = [conn EXCEPT ![c] = kk] /\ req' = [req EXCEPT ![r] = q]
  BY <1>2 DEF roundTripEnter
<1>. HIDE DEF v
<1>6. kk \in ConnType /\ kk.numExpectedResponses = 1 /\ ~kk.idle
  BY <1>2, <1>3, <1>4 DEF ConnType
<1>7. Recycled(kk) = Recycled(k) /\ Resting(kk) = Resting(k)
  BY <1>3 DEF ConnType, Recycled, Resting
<1>8. Fit(kk)
  BY <1>2, <1>3, <1>7 DEF ConnType, Fit
<1>9. Good(kk)
  BY <1>2, <1>3, <1>7, <1>8 DEF ConnType, Good, OneUse, Fit, Resting, Recycled, Ending, Reading, WriteStages, isBroken
<1>10. q \in ReqType /\ q.pc = "send" /\ q.conn = c /\ Placed(q)
  BY <1>1, <1>2 DEF ReqType, PcStates, Placed
<1>11. /\ conn' \in [Conns -> ConnType] /\ req' \in [Reqs -> ReqType]
       /\ conn'[c] = kk /\ req'[r] = q
       /\ \A d \in Conns : d # c => conn'[d] = conn[d]
       /\ \A s \in Reqs : s # r => req'[s] = req[s]
  BY <1>2, <1>5, <1>6, <1>10 DEF Inv1, TypeOK
<1>. HIDE DEF kk, q
<1>12. TypeOK'
  BY <1>11 DEF roundTripEnter, Inv1, TypeOK
<1>13. ASSUME NEW d \in Conns, NEW s \in Reqs, Pre(d, s)'
       PROVE  (d = c /\ s = r) \/ (d # c /\ s # r /\ Pre(d, s) /\ req'[s] = req[s])
  <2>1. CASE s = r
    BY <1>10, <1>11, <1>13, <2>1 DEF Pre
  <2>2. CASE s # r
    BY <1>2, <1>11, <1>13, <2>2 DEF Pre
  <2>. QED  BY <2>1, <2>2
<1>14. ASSUME NEW d \in Conns, NEW s \in Reqs PROVE Claim(d, s)'
  <2>. SUFFICES ASSUME Pre(d, s)' PROVE Claim(d, s)'
    BY DEF Claim
  <2>1. CASE d = c /\ s = r
    BY <2>1, <1>6, <1>8, <1>10, <1>11, <1>13 DEF Claim
  <2>2. CASE d # c /\ s # r /\ Pre(d, s) /\ req'[s] = req[s]
    <3>1. Claim(d, s) /\ conn'[d] = conn[d]
      BY <2>2, <1>11 DEF Inv1, LaneInv
    <3>2. \A t \in Reqs : Pre(d, t)' => t = s
      BY <2>2, <3>1, <1>13 DEF Claim
    <3>. QED  BY <2>2, <3>1, <3>2 DEF Claim
  <2>. QED  BY <2>1, <2>2, <1>13
<1>15. \A d \in Conns : Good(conn'[d]) /\ Unopened(d)'
  BY <1>8, <1>9, <1>11 DEF roundTripEnter, Inv1, LaneInv, Unopened, Fit
<1>16. \A s \in Reqs : Placed(req'[s]) /\ Opened(s)'
  <2>1. conn'[c].open /\ req'[r].conn = c
    BY <1>8, <1>10, <1>11 DEF Fit
  <2>. QED  BY <2>1, <1>10, <1>11 DEF Inv1, LaneInv, Opened
<1>. QED  BY <1>12, <1>14, <1>15, <1>16 DEF Inv1, LaneInv

\* The request goes to both loops: the connection is no longer fit for others.
LEMMA SendLane ==
  ASSUME Inv1, NEW r \in Reqs, roundTripSend(r) PROVE Inv1'
<1>. DEFINE c == req[r].conn
            k == conn[c]
            x == IF env.profile[r].expect /\ hasBody(r) THEN "empty" ELSE "nil"
            kk == [k EXCEPT !.writech = r, !.reqch = r, !.wrote = FALSE, !.continueCh = x]
            q == [req[r] EXCEPT !.pc = "select", !.writeErrCh = "none", !.timer = FALSE,
                                !.setError = FALSE]
<1>1. req[r] \in ReqType /\ Placed(req[r]) /\ req[r].pc = "send"
  BY AtReq DEF roundTripSend
<1>2. /\ c \in Conns /\ Fit(k) /\ ~k.idle /\ k.numExpectedResponses = 1
      /\ \A s \in Reqs : Pre(c, s) => s = r
  BY <1>1, AtPre
<1>3. k \in ConnType /\ Good(k)
  BY <1>2, AtConn
<1>5. /\ conn' = [conn EXCEPT ![c] = kk] /\ req' = [req EXCEPT ![r] = q] /\ x \in Continues
  BY <1>2 DEF roundTripSend, Continues
<1>. HIDE DEF x
<1>6. kk \in ConnType /\ kk.open
  BY <1>2, <1>3, <1>5 DEF ConnType, MaybeReq, Fit
<1>7. Recycled(kk) = Recycled(k) /\ Resting(kk) = Resting(k)
  BY <1>3 DEF ConnType, Recycled, Resting
<1>8. r # NoReq
  BY ExchangeAssumption
<1>9. Good(kk)
  BY ZenonT(40), <1>2, <1>3, <1>6, <1>7, <1>8 DEF ConnType, Good, OneUse, Fit, Resting, Recycled, Ending, Reading, WriteStages, isBroken
<1>10. q \in ReqType /\ q.pc = "select" /\ q.conn = c /\ Placed(q)
  BY <1>1, <1>2 DEF ReqType, PcStates, WriteErrs, Placed
<1>11. /\ conn' \in [Conns -> ConnType] /\ req' \in [Reqs -> ReqType]
       /\ conn'[c] = kk /\ req'[r] = q
       /\ \A d \in Conns : d # c => conn'[d] = conn[d]
       /\ \A s \in Reqs : s # r => req'[s] = req[s]
  BY <1>2, <1>5, <1>6, <1>10 DEF Inv1, TypeOK
<1>. HIDE DEF kk, q
<1>12. TypeOK'
  BY <1>11 DEF roundTripSend, Inv1, TypeOK
<1>13. ASSUME NEW d \in Conns, NEW s \in Reqs, Pre(d, s)'
       PROVE  d # c /\ s # r /\ Pre(d, s) /\ req'[s] = req[s]
  <2>1. CASE s = r
    BY <1>10, <1>11, <1>13, <2>1 DEF Pre
  <2>2. CASE s # r
    BY <1>2, <1>11, <1>13, <2>2 DEF Pre
  <2>. QED  BY <2>1, <2>2
<1>14. ASSUME NEW d \in Conns, NEW s \in Reqs PROVE Claim(d, s)'
  <2>. SUFFICES ASSUME Pre(d, s)' PROVE Claim(d, s)'
    BY DEF Claim
  <2>1. d # c /\ s # r /\ Pre(d, s) /\ req'[s] = req[s]
    BY <1>13
  <2>2. Claim(d, s) /\ conn'[d] = conn[d]
    BY <2>1, <1>11 DEF Inv1, LaneInv
  <2>3. \A t \in Reqs : Pre(d, t)' => t = s
    BY <2>1, <2>2, <1>13 DEF Claim
  <2>. QED  BY <2>1, <2>2, <2>3 DEF Claim
<1>15. \A d \in Conns : Good(conn'[d]) /\ Unopened(d)'
  BY <1>6, <1>9, <1>11 DEF roundTripSend, Inv1, LaneInv, Unopened
<1>16. \A s \in Reqs : Placed(req'[s]) /\ Opened(s)'
  <2>1. conn'[c].open /\ req'[r].conn = c
    BY <1>6, <1>10, <1>11
  <2>. QED  BY <2>1, <1>10, <1>11 DEF Inv1, LaneInv, Opened
<1>. QED  BY <1>12, <1>14, <1>15, <1>16 DEF Inv1, LaneInv

\* A caller that has sent its request.
LEMMA AtSent ==
  ASSUME Inv1, NEW r \in Reqs,
         req[r].pc \in {"select", "map", "failed"}
         \/ req[r].respBody \in {"open", "failed", "EOFWait", "earlyWait"}
  PROVE  LET c == req[r].conn IN
         /\ c \in Conns /\ conn[c] \in ConnType /\ Good(conn[c]) /\ conn[c].open
         /\ net[c] \in NetType /\ req[r] \in ReqType
<1>1. req[r] \in ReqType /\ Placed(req[r]) /\ Opened(r)
  BY DEF Inv1, TypeOK, LaneInv
<1>2. req[r].conn \in Conns
  BY <1>1 DEF Placed
<1>. QED  BY <1>1, <1>2, AtConn DEF Opened

\* The caller takes what the read loop offers.
LEMMA HandleLane ==
  ASSUME Inv1, NEW r \in Reqs, req[r].pc = "select", Offers(req[r].conn, r),
         handleResponse(req[r].conn, r), env' = env, net' = net, handled' = handled, mixed' = mixed
  PROVE  Inv1' /\ Calm
<1>. DEFINE c == req[r].conn
            k == conn[c]
<1>1. /\ c \in Conns /\ k \in ConnType /\ Good(k) /\ k.open /\ req[r] \in ReqType
      /\ k.rl = "deliver" /\ k.rc = r
  BY AtSent DEF Offers
<1>2. CASE k.resp = ErrResp
  <2>. DEFINE kk == [k EXCEPT !.rl = "exit"]
              q == [req[r] EXCEPT !.pc = "map", !.err = k.peek]
  <2>1. conn' = [conn EXCEPT ![c] = kk] /\ req' = [req EXCEPT ![r] = q]
    BY <1>2 DEF handleResponse
  <2>2. k.peek \in CallErrors
    BY <1>1 DEF ConnType, Peeks, CallErrors
  <2>3. q \in ReqType /\ q.pc = "map" /\ q.conn = c /\ Placed(q)
    BY <1>1, <2>2 DEF ReqType, PcStates, Placed
  <2>4. Calm
    BY <2>1, <2>3, CalmSet
  <2>a. kk \in ConnType /\ kk.open
    BY <1>1 DEF ConnType, RlStates
  <2>b. OneUse(kk)
    BY <1>1, <1>2 DEF ConnType, Good, OneUse, Fit, Reading, Resting, Recycled, Ending
  <2>c. Reading(kk)
    BY <1>1 DEF ConnType, Good, Reading
  <2>d. WriteStages(kk)
    BY <1>1 DEF ConnType, Good, WriteStages, isBroken
  <2>e. Fit(k) /\ ~k.idle => Fit(kk) /\ ~kk.idle /\ kk.numExpectedResponses = k.numExpectedResponses
    BY <1>1 DEF ConnType, Fit, Resting, Ending
  <2>m. Moves(k, kk)
    BY <2>a, <2>b, <2>c, <2>d, <2>e DEF Moves, Good
  <2>. HIDE DEF kk, q
  <2>. QED  BY <1>1, <2>1, <2>4, <2>m, ConnStep
<1>3. CASE k.resp # ErrResp
  <2>. DEFINE x == IF k.resp.body THEN "bodyWait" ELSE IF k.alive THEN "peek" ELSE "exit"
              kk == [k EXCEPT !.rl = x]
              p == Return(req[r], k.resp.of)
              u == IF k.resp.body THEN "open" ELSE "none"
              v == IF ~k.resp.body /\ p.ctx = "live" THEN "done" ELSE p.ctx
              q == [p EXCEPT !.respBody = u, !.ctx = v]
  <2>1. k.resp \in Message /\ (Recycled(k) \/ k.numExpectedResponses = 0)
    BY <1>1, <1>3 DEF Good, Reading
  <2>2. k.resp.of \in Answers /\ k.resp.body \in BOOLEAN
    BY <2>1, MessageFacts DEF Answers
  <2>3. p \in ReqType /\ p.pc = "done" /\ p.conn = c
    BY <1>1, <2>2, ReturnFacts
  <2>4. req' = [req EXCEPT ![r] = q]
    <3>1. req' = [req EXCEPT ![r] =
             [p EXCEPT !.respBody = u,
                       !.ctx = IF ~k.resp.body /\ @ = "live" THEN "done" ELSE @]]
      BY <1>3 DEF handleResponse
    <3>. HIDE DEF p
    <3>. QED  BY <3>1, <2>3 DEF ReqType
  <2>5. u \in {"open", "none"} /\ v \in CtxStates
    BY <2>3 DEF ReqType, CtxStates
  <2>6. conn' = [conn EXCEPT ![c] = kk]
    BY <1>3 DEF handleResponse
  <2>7. /\ k.resp.body => x = "bodyWait" /\ ~Recycled(k)
        /\ ~k.resp.body /\ k.alive => x = "peek" /\ Recycled(k)
        /\ ~k.resp.body /\ ~k.alive => x = "exit"
        /\ x \in {"bodyWait", "peek", "exit"}
    BY <1>1, <1>3 DEF Recycled
  <2>. HIDE DEF p, u, v, x
  <2>8. q \in ReqType /\ q.pc = "done" /\ q.conn = c /\ Placed(q)
    BY <1>1, <2>3, <2>5 DEF ReqType, BodyStates, Placed
  <2>9. Calm
    BY <2>4, <2>8, CalmSet
  <2>a. kk \in ConnType /\ kk.open
    BY <1>1, <2>7 DEF ConnType, RlStates
  <2>r. /\ Resting(kk) = (x # "bodyWait") /\ (Resting(k) <=> Recycled(k))
    BY <1>1, <2>7 DEF ConnType, Resting, Recycled, Ending
  <2>b. OneUse(kk)
    BY <1>1, <2>2, <2>7, <2>r DEF ConnType, Good, OneUse, Fit
  <2>c. Reading(kk)
    BY <1>1, <2>1, <2>2, <2>7 DEF ConnType, Good, Reading
  <2>d. WriteStages(kk)
    BY <1>1 DEF ConnType, Good, WriteStages, isBroken
  <2>e. Fit(k) /\ ~k.idle => Fit(kk) /\ ~kk.idle /\ kk.numExpectedResponses = k.numExpectedResponses
    BY <1>1, <2>2, <2>7, <2>r DEF ConnType, Fit
  <2>m. Moves(k, kk)
    BY <2>a, <2>b, <2>c, <2>d, <2>e DEF Moves, Good
  <2>. HIDE DEF kk, q
  <2>. QED  BY <1>1, <2>6, <2>9, <2>m, ConnStep
<1>. QED  BY <1>2, <1>3

\* One round of the select of persistConn.roundTrip.
LEMMA SelectLane ==
  ASSUME Inv1, NEW r \in Reqs, roundTripSelect(r) PROVE Inv1' /\ Calm
<1>. DEFINE c == req[r].conn
            k == conn[c]
<1>1. /\ req[r].pc = "select" /\ env' = env /\ net' = net /\ handled' = handled /\ mixed' = mixed
  BY DEF roundTripSelect
<1>2. /\ c \in Conns /\ k \in ConnType /\ Good(k) /\ k.open /\ req[r] \in ReqType
      /\ Moves(k, k) /\ handled \in [Reqs -> Nat] /\ mixed \in BOOLEAN
  BY <1>1, AtSent, SameMoves DEF Inv1, TypeOK
<1>3. ASSUME NEW err \in CallErrors, NEW pc \in {"map", "failed"},
             req' = [req EXCEPT ![r].pc = pc, ![r].err = err]
      PROVE  Calm
  <2>. DEFINE q == [req[r] EXCEPT !.pc = pc, !.err = err]
  <2>1. q \in ReqType /\ q.pc = pc /\ q.conn = c /\ Placed(q)
    BY <1>2 DEF ReqType, PcStates, Placed
  <2>2. req' = [req EXCEPT ![r] = q]
    BY <1>3
  <2>. HIDE DEF q
  <2>. QED  BY <2>1, <2>2, CalmSet
<1>4. CASE /\ req' = [req EXCEPT ![r].writeErrCh = "none", ![r].timer = "timeout" \in env.faults]
           /\ UNCHANGED conn
  <2>. DEFINE t == "timeout" \in env.faults
              q == [req[r] EXCEPT !.writeErrCh = "none", !.timer = t]
  <2>1. req' = [req EXCEPT ![r] = q]
    BY <1>4
  <2>0. t \in BOOLEAN
    OBVIOUS
  <2>. HIDE DEF t
  <2>2. q \in ReqType /\ q.pc = "select" /\ q.conn = c /\ Placed(q)
    BY <1>1, <1>2, <2>0 DEF ReqType, WriteErrs, Placed
  <2>3. Calm
    BY <1>1, <2>1, <2>2, CalmSet
  <2>. QED  BY <1>1, <1>2, <1>4, <2>3, ReqStep
<1>5. CASE /\ req' = [req EXCEPT ![r].pc = "map", ![r].err = "write"]
           /\ conn' = [conn EXCEPT ![c] = closeLocked(@, "write")]
  <2>1. Calm
    BY <1>3, <1>5 DEF CallErrors, CloseReasons
  <2>2. Moves(k, closeLocked(k, "write"))
    BY <1>2, CloseMoves DEF CloseReasons
  <2>3. conn' = [conn EXCEPT ![c] = closeLocked(k, "write")]
    BY <1>5
  <2>. QED  BY <1>1, <1>2, <2>1, <2>2, <2>3, ConnStep
<1>6. CASE Offers(c, r) /\ handleResponse(c, r)
  BY <1>1, <1>6, HandleLane
<1>7. CASE /\ isBroken(k)
           /\ req' = [req EXCEPT ![r].pc = "map", ![r].err = conn[c].closed]
           /\ UNCHANGED conn
  <2>1. k.closed \in CallErrors
    BY <1>2, <1>7 DEF ConnType, isBroken, Closings, CallErrors
  <2>2. Calm
    BY <1>3, <1>7, <2>1
  <2>. QED  BY <1>1, <1>2, <1>7, <2>2, ReqStep
<1>8. CASE /\ req' = [req EXCEPT ![r].pc = "failed", ![r].err = "timeout"]
           /\ conn' = [conn EXCEPT ![c] = closeLocked(@, "timeout")]
  <2>1. Calm
    BY <1>3, <1>8 DEF CallErrors, CloseReasons
  <2>2. Moves(k, closeLocked(k, "timeout"))
    BY <1>2, CloseMoves DEF CloseReasons
  <2>3. conn' = [conn EXCEPT ![c] = closeLocked(k, "timeout")]
    BY <1>8
  <2>. QED  BY <1>1, <1>2, <2>1, <2>2, <2>3, ConnStep
<1>9. CASE conn' = [conn EXCEPT ![c] = cancelRequest(@)] /\ UNCHANGED req
  <2>1. Moves(k, cancelRequest(k))
    BY <1>2, CancelMoves
  <2>2. conn' = [conn EXCEPT ![c] = cancelRequest(k)] /\ Calm
    BY <1>9, CalmReq
  <2>. QED  BY <1>1, <1>2, <2>1, <2>2, ConnStep
<1>. QED  BY <1>4, <1>5, <1>6, <1>7, <1>8, <1>9 DEF roundTripSelect

-----------------------------------------------------------------------------
(* ... under the steps of the response body.                               *)

\* A signal to the read loop keeps the connection as it is.
LEMMA SignalMoves ==
  ASSUME NEW k \in ConnType, Good(k), k.open, NEW s \in Signals, NEW e \in BOOLEAN
  PROVE  Moves(k, [k EXCEPT !.sawEOF = e, !.waitForBodyRead = s])
<1>. DEFINE kk == [k EXCEPT !.sawEOF = e, !.waitForBodyRead = s]
<1>1. kk \in ConnType /\ kk.open
  BY DEF ConnType
<1>2. Recycled(kk) = Recycled(k) /\ Resting(kk) = Resting(k)
  BY DEF ConnType, Recycled, Resting
<1>3. Good(kk)
  BY <1>2 DEF ConnType, Good, OneUse, Fit, Reading, WriteStages, isBroken
<1>. QED  BY <1>1, <1>2, <1>3 DEF Moves, Fit, ConnType

\* The user of the response goes on, or is done with it.
LEMMA CalmUse ==
  ASSUME Inv1, NEW r \in Reqs, req[r].respBody \in {"open", "failed"}, NEW s \in BodyStates,
         req' = [req EXCEPT ![r].respBody = s]
  PROVE  Calm
<1>. DEFINE q == [req[r] EXCEPT !.respBody = s]
<1>1. req[r] \in ReqType /\ Placed(req[r])
  BY AtReq
<1>2. q \in ReqType /\ q.pc = req[r].pc /\ q.conn = req[r].conn /\ Placed(q)
  BY <1>1 DEF ReqType, Placed
<1>. QED  BY <1>2, CalmSet

\* Signal as the steps use it.
LEMMA SignalStep ==
  ASSUME Inv1, NEW c \in Conns, conn[c].open, NEW v \in {"EOF", "early"}, Signal(c, v), Calm,
         net' = net, env' = env, handled' = handled, mixed' = mixed
  PROVE  Inv1' /\ Calm
<1>. DEFINE k == conn[c]
            s == IF k.waitForBodyRead = "none" THEN v ELSE k.waitForBodyRead
            kk == [k EXCEPT !.sawEOF = k.sawEOF, !.waitForBodyRead = s]
<1>1. k \in ConnType /\ Good(k)
  BY AtConn
<1>2. s \in Signals /\ k.sawEOF \in BOOLEAN
  BY <1>1 DEF ConnType, Signals
<1>3. conn' = [conn EXCEPT ![c] = [k EXCEPT !.waitForBodyRead = s]]
  BY DEF Signal
<1>. HIDE DEF s
<1>4. [k EXCEPT !.waitForBodyRead = s] = kk
  BY <1>1 DEF ConnType
<1>5. Moves(k, kk)
  BY <1>1, <1>2, SignalMoves
<1>. HIDE DEF kk
<1>. QED  BY <1>3, <1>4, <1>5, ConnStep

\* The end of the response body.
LEMMA ReadEOFLane ==
  ASSUME Inv1, NEW r \in Reqs, bodyReadEOF(r) PROVE Inv1' /\ Calm
<1>. DEFINE c == req[r].conn
            k == conn[c]
            n == net[c]
            b == IF LoopEnded(c) THEN "done" ELSE "EOFWait"
            s == IF k.waitForBodyRead = "none" THEN "EOF" ELSE k.waitForBodyRead
            nn == [n EXCEPT !.down = Tail(@)]
<1>1. /\ c \in Conns /\ k \in ConnType /\ Good(k) /\ k.open /\ n \in NetType
      /\ n.down # <<>> /\ req[r].respBody = "open"
  BY AtSent DEF bodyReadEOF
<1>2. PICK eof \in BOOLEAN :
         conn' = [conn EXCEPT ![c].sawEOF = @ \/ eof,
                              ![c].waitForBodyRead = IF @ = "none" THEN "EOF" ELSE @]
  BY DEF bodyReadEOF, SeesEOF
<1>. DEFINE e == k.sawEOF \/ eof
            kk == [k EXCEPT !.sawEOF = e, !.waitForBodyRead = s]
<1>3. conn' = [conn EXCEPT ![c] = kk]
  BY <1>2
<1>4. s \in Signals /\ e \in BOOLEAN /\ b \in BodyStates
  BY <1>1 DEF ConnType, Signals, BodyStates
<1>5. req' = [req EXCEPT ![r].respBody = b] /\ net' = [net EXCEPT ![c] = nn]
      /\ env' = env /\ handled' = handled /\ mixed' = mixed
  BY DEF bodyReadEOF
<1>. HIDE DEF b, s, e
<1>6. Calm
  BY <1>1, <1>4, <1>5, CalmUse
<1>7. Moves(k, kk)
  BY <1>1, <1>4, SignalMoves
<1>8. nn \in NetType
  BY <1>1, PopFacts
<1>. HIDE DEF kk, nn
<1>. QED  BY <1>1, <1>3, <1>5, <1>6, <1>7, <1>8, ConnNetStep DEF Inv1, TypeOK

\* Reading the response body fails.
LEMMA ReadErrLane ==
  ASSUME Inv1, NEW r \in Reqs, bodyReadErr(r) PROVE Inv1' /\ Calm
<1>1. req[r].conn \in Conns /\ conn[req[r].conn].open
  BY AtSent DEF bodyReadErr
<1>2. Calm
  BY CalmUse DEF bodyReadErr, BodyStates
<1>. QED  BY <1>1, <1>2, SignalStep DEF bodyReadErr

\* The response body is closed.
LEMMA CloseLane ==
  ASSUME Inv1, NEW r \in Reqs, bodyClose(r) PROVE Inv1' /\ Calm
<1>. DEFINE b == IF LoopEnded(req[r].conn) THEN "done" ELSE "earlyWait"
<1>1. req[r].conn \in Conns /\ conn[req[r].conn].open
  BY AtSent DEF bodyClose
<1>2. b \in BodyStates /\ req' = [req EXCEPT ![r].respBody = b]
  BY DEF bodyClose, BodyStates
<1>. HIDE DEF b
<1>3. Calm
  BY <1>2, CalmUse DEF bodyClose
<1>. QED  BY <1>1, <1>3, SignalStep DEF bodyClose

-----------------------------------------------------------------------------
(* ... under the steps of the server.                                      *)

\* Only a connection that was made has something on the wire.
LEMMA OnWire ==
  ASSUME Inv1, NEW c \in Conns, net[c] # NewNet PROVE conn[c].open
BY DEF Inv1, LaneInv, Unopened

\* The server reads.
LEMMA ServerReadLane ==
  ASSUME Inv1, NEW c \in Conns, serverRead(c) PROVE Inv1' /\ Calm
<1>. DEFINE n == net[c]
            m == Head(n.up)
<1>1. n \in NetType /\ n.up # <<>> /\ n.up \in Seq(Item) /\ conn[c].open /\ handled \in [Reqs -> Nat]
  <2>1. n # NewNet
    BY DEF serverRead, NewNet
  <2>. QED  BY <2>1, OnWire DEF serverRead, Inv1, TypeOK, NetType
<1>2. m \in Item /\ Tail(n.up) \in Seq(Item) /\ m.of \in Reqs
  <2>1. m \in Item /\ Tail(n.up) \in Seq(Item)
    BY <1>1
  <2>. QED  BY <2>1 DEF Item
<1>3. mixed' \in BOOLEAN /\ handled' \in [Reqs -> Nat]
  <2>1. mixed' \in BOOLEAN
    BY DEF serverRead, Inv1, TypeOK
  <2>2. handled' = [handled EXCEPT ![m.of] = @ + 1] \/ handled' = handled
    BY DEF serverRead
  <2>. QED  BY <1>1, <1>2, <2>1, <2>2
<1>4. CASE m.part = "head"
  <2>. DEFINE s == IF hasBody(m.of) THEN m.of ELSE NoReq
              nn == [n EXCEPT !.up = Tail(n.up), !.owed = Append(n.owed, m.of), !.srv = s]
  <2>1. s \in MaybeReq /\ Append(n.owed, m.of) \in Seq(Reqs)
    <3>1. n.owed \in Seq(Reqs)
      BY <1>1 DEF NetType
    <3>. QED  BY <1>2, <3>1 DEF MaybeReq
  <2>2. net' = [net EXCEPT ![c] = nn]
    BY <1>4 DEF serverRead
  <2>. HIDE DEF s
  <2>3. nn \in NetType
    BY <1>1, <1>2, <2>1 DEF NetType
  <2>. HIDE DEF nn
  <2>. QED  BY <1>1, <1>3, <2>2, <2>3, NetStep DEF serverRead
<1>5. CASE m.part # "head"
  <2>. DEFINE nn == [n EXCEPT !.up = Tail(n.up), !.srv = NoReq]
  <2>1. net' = [net EXCEPT ![c] = nn]
    BY <1>5 DEF serverRead
  <2>2. nn \in NetType
    BY <1>1, <1>2 DEF NetType, MaybeReq
  <2>. HIDE DEF nn
  <2>. QED  BY <1>1, <1>3, <2>1, <2>2, NetStep DEF serverRead
<1>. QED  BY <1>4, <1>5

\* The server answers, in whole or in part.
LEMMA ServerReplyLane ==
  ASSUME Inv1, NEW c \in Conns, serverReply(c) PROVE Inv1' /\ Calm
<1>. DEFINE n == net[c]
            r == Head(n.owed)
<1>1. /\ n \in NetType /\ n.owed # <<>> /\ n.owed \in Seq(Reqs) /\ n.down \in Seq(Message)
      /\ conn[c].open /\ handled \in [Reqs -> Nat] /\ mixed \in BOOLEAN /\ env \in Scenarios
  <2>1. n # NewNet
    <3>1. n.owed # <<>>
      BY DEF serverReply
    <3>. QED  BY <3>1 DEF NewNet
  <2>. QED  BY <2>1, OnWire DEF serverReply, Inv1, TypeOK, NetType
<1>2. r \in Reqs /\ Tail(n.owed) \in Seq(Reqs)
  BY <1>1
<1>3. ASSUME NEW p \in env.replies
      PROVE  Response(r, p.code, p.close, p.body) \in Message /\ Rest(r) \in Message
             /\ p.close \in BOOLEAN
  <2>1. p.code \in FinalCodes /\ p.close \in BOOLEAN /\ p.body \in BOOLEAN
    BY <1>1, EnvFacts
  <2>. QED  BY <1>2, <2>1, MessageFacts
<1>4. ASSUME NEW d \in Seq(Message), NEW h \in BOOLEAN, NEW f \in Fins,
             net' = [net EXCEPT ![c].owed = Tail(@), ![c].hinted = h, ![c].down = d, ![c].fin = f]
      PROVE  Inv1' /\ Calm
  <2>. DEFINE nn == [n EXCEPT !.owed = Tail(n.owed), !.hinted = h, !.down = d, !.fin = f]
  <2>1. net' = [net EXCEPT ![c] = nn]
    BY <1>4
  <2>2. nn \in NetType
    BY <1>1, <1>2 DEF NetType
  <2>. HIDE DEF nn
  <2>. QED  BY <1>1, <2>1, <2>2, NetStep DEF serverReply
<1>5. PICK p \in env.replies :
        LET head == <<Response(r, p.code, p.close, p.body)>>
            rest == IF p.body THEN <<Response(r, "body", FALSE, FALSE)>> ELSE <<>>
        IN
        \/ net' = [net EXCEPT ![c].owed = Tail(@), ![c].hinted = FALSE,
                              ![c].down = @ \o head \o rest,
                              ![c].fin = IF p.close THEN "eof" ELSE @]
        \/ /\ p.body /\ "close" \in env.faults
           /\ net' = [net EXCEPT ![c].owed = Tail(@), ![c].down = @ \o head, ![c].fin = "eof"]
  BY DEF serverReply
<1>. DEFINE head == <<Response(r, p.code, p.close, p.body)>>
            rest == IF p.body THEN <<Rest(r)>> ELSE <<>>
            f == IF p.close THEN "eof" ELSE n.fin
<1>6. /\ head \in Seq(Message) /\ rest \in Seq(Message) /\ f \in Fins
      /\ n.hinted \in BOOLEAN /\ "eof" \in Fins
  BY <1>1, <1>3 DEF Fins, NetType
<1>7. n.down \o head \o rest \in Seq(Message) /\ n.down \o head \in Seq(Message)
  <2>. HIDE DEF head, rest
  <2>. QED  BY <1>1, <1>6
<1>8. CASE net' = [net EXCEPT ![c].owed = Tail(@), ![c].hinted = FALSE,
                              ![c].down = n.down \o head \o rest, ![c].fin = f]
  <2>. HIDE DEF head, rest, f
  <2>. QED  BY <1>4, <1>6, <1>7, <1>8
<1>9. CASE net' = [net EXCEPT ![c].owed = Tail(@), ![c].down = n.down \o head, ![c].fin = "eof"]
  <2>. DEFINE nn == [n EXCEPT !.owed = Tail(n.owed), !.down = n.down \o head, !.fin = "eof"]
  <2>1. net' = [net EXCEPT ![c] = nn]
    BY <1>9
  <2>. HIDE DEF head
  <2>2. nn \in NetType
    BY <1>1, <1>2, <1>6, <1>7 DEF NetType
  <2>. HIDE DEF nn
  <2>. QED  BY <1>1, <2>1, <2>2, NetStep DEF serverReply
<1>10. \/ net' = [net EXCEPT ![c].owed = Tail(@), ![c].hinted = FALSE,
                             ![c].down = n.down \o head \o rest, ![c].fin = f]
       \/ net' = [net EXCEPT ![c].owed = Tail(@), ![c].down = n.down \o head, ![c].fin = "eof"]
  BY <1>5 DEF Rest
<1>. QED  BY <1>8, <1>9, <1>10

\* The hints are messages.
LEMMA HintsSent ==
  ASSUME NEW r \in Reqs, NEW s \in {<<"100">>, <<"1xx", "100">>}
  PROVE  [i \in 1 .. Len(s) |-> Response(r, s[i], FALSE, FALSE)] \in Seq(Message)
<1>1. s \in Seq(HintCodes)
  BY SMTT(30) DEF HintCodes
<1>2. ASSUME NEW i \in 1 .. Len(s) PROVE Response(r, s[i], FALSE, FALSE) \in Message
  <2>1. s[i] \in HintCodes
    BY <1>1
  <2>. QED  BY <2>1, MessageFacts
<1>3. Len(s) \in Nat
  BY <1>1
<1>. DEFINE d == [i \in 1 .. Len(s) |-> Response(r, s[i], FALSE, FALSE)]
<1>4. d \in [1 .. Len(s) -> Message]
  BY <1>2
<1>. HIDE DEF d
<1>5. \E n \in Nat : d \in [1 .. n -> Message]
  BY <1>3, <1>4
<1>6. d \in Seq(Message)
  BY <1>5, SeqDef
<1>. QED  BY <1>6 DEF d

\* Informational responses.
LEMMA ServerHintLane ==
  ASSUME Inv1, NEW c \in Conns, serverHint(c) PROVE Inv1' /\ Calm
<1>. DEFINE n == net[c]
            r == Head(n.owed)
<1>1. /\ n \in NetType /\ n.owed # <<>> /\ n.owed \in Seq(Reqs) /\ n.down \in Seq(Message)
      /\ conn[c].open /\ handled \in [Reqs -> Nat] /\ mixed \in BOOLEAN
  <2>1. n # NewNet
    BY DEF serverHint, NewNet
  <2>. QED  BY <2>1, OnWire DEF serverHint, Inv1, TypeOK, NetType
<1>2. r \in Reqs
  BY <1>1
<1>3. PICK s \in {<<"100">>, <<"1xx", "100">>} :
        net' = [net EXCEPT ![c].hinted = TRUE, ![c].down =
                    @ \o [i \in 1..Len(s) |-> Response(Head(n.owed), s[i], FALSE, FALSE)]]
  BY DEF serverHint
<1>. DEFINE d == [i \in 1..Len(s) |-> Response(r, s[i], FALSE, FALSE)]
            nn == [n EXCEPT !.hinted = TRUE, !.down = n.down \o d]
<1>4. net' = [net EXCEPT ![c] = nn]
  BY <1>3
<1>5. d \in Seq(Message)
  BY <1>2, <1>3, HintsSent
<1>. HIDE DEF d
<1>6. n.down \o d \in Seq(Message)
  BY <1>1, <1>5
<1>7. nn \in NetType
  BY <1>1, <1>6 DEF NetType
<1>. HIDE DEF nn
<1>. QED  BY <1>1, <1>4, <1>7, NetStep DEF serverHint

\* A 408 nobody asked for.
LEMMA ServerTimeoutLane ==
  ASSUME Inv1, NEW c \in Conns, serverTimeout(c) PROVE Inv1' /\ Calm
<1>. DEFINE n == net[c]
            d == Append(n.down, Gone)
            nn == [n EXCEPT !.down = d, !.fin = "eof"]
<1>1. /\ n \in NetType /\ n.down \in Seq(Message) /\ conn[c].open
      /\ handled \in [Reqs -> Nat] /\ mixed \in BOOLEAN
  BY DEF serverTimeout, Inv1, TypeOK, NetType
<1>2. d \in Seq(Message)
  BY <1>1, MessageFacts
<1>3. net' = [net EXCEPT ![c] = nn]
  BY DEF serverTimeout, Gone
<1>. HIDE DEF d
<1>4. nn \in NetType
  BY <1>1, <1>2 DEF NetType, Fins
<1>. HIDE DEF nn
<1>. QED  BY <1>1, <1>3, <1>4, NetStep DEF serverTimeout

\* The server closes.
LEMMA ServerCloseLane ==
  ASSUME Inv1, NEW c \in Conns, serverClose(c) PROVE Inv1' /\ Calm
<1>. DEFINE n == net[c]
<1>1. /\ n \in NetType /\ conn[c].open /\ handled \in [Reqs -> Nat] /\ mixed \in BOOLEAN
      /\ conn' = conn /\ req' = req /\ env' = env /\ handled' = handled /\ mixed' = mixed
  BY DEF serverClose, Inv1, TypeOK
<1>2. CASE net' = [net EXCEPT ![c].fin = "eof", ![c].up = <<>>]
  <2>. DEFINE nn == [n EXCEPT !.fin = "eof", !.up = <<>>]
  <2>0. <<>> \in Seq(Item) /\ <<>> \in Seq(Message)
    OBVIOUS
  <2>1. nn \in NetType
    BY <1>1, <2>0 DEF NetType, Fins
  <2>2. net' = [net EXCEPT ![c] = nn]
    BY <1>2
  <2>. HIDE DEF nn
  <2>. QED  BY <1>1, <2>1, <2>2, NetStep
<1>3. CASE net' = [net EXCEPT ![c].fin = "reset", ![c].up = <<>>, ![c].down = <<>>]
  <2>. DEFINE nn == [n EXCEPT !.fin = "reset", !.up = <<>>, !.down = <<>>]
  <2>0. <<>> \in Seq(Item) /\ <<>> \in Seq(Message)
    OBVIOUS
  <2>1. nn \in NetType
    BY <1>1, <2>0 DEF NetType, Fins
  <2>2. net' = [net EXCEPT ![c] = nn]
    BY <1>3
  <2>. HIDE DEF nn
  <2>. QED  BY <1>1, <2>1, <2>2, NetStep
<1>. QED  BY <1>2, <1>3 DEF serverClose

-----------------------------------------------------------------------------
(* An idle connection is clean.                                            *)

\* At the start nothing has a connection.
LEMMA InitLane == Init => Inv1
<1>. SUFFICES ASSUME Init PROVE Inv1
  OBVIOUS
<1>1. NewReq \in ReqType /\ Placed(NewReq) /\ NewReq.pc = "start" /\ NewReq.conn = NoReq
  BY DEF NewReq, ReqType, PcStates, CtxStates, CallErrors, WriteErrs, Answers, BodyStates, Placed
<1>2. NewConn \in ConnType
  <2>1. NoResp \in Responses /\ "readLoop" \in EndReasons
    BY DEF Responses, EndReasons
  <2>. HIDE DEF NoResp
  <2>. QED  BY <2>1 DEF NewConn, ConnType, Closings, MaybeReq, WriteErrs, Continues, Signals, WlStates,
                        RlStates, Peeks
<1>3. Good(NewConn) /\ ~NewConn.open
  BY DEF NewConn, Good, OneUse, Reading, WriteStages, Resting, isBroken
<1>4. NewNet \in NetType
  BY DEF NewNet, NetType, Fins, MaybeReq
<1>. HIDE DEF NewReq, NewConn, NewNet
<1>5. TypeOK
  BY <1>1, <1>2, <1>4 DEF Init, TypeOK
<1>6. LaneInv
  <2>1. \A r \in Reqs : req[r] = NewReq
    BY DEF Init
  <2>2. \A c \in Conns : conn[c] = NewConn /\ net[c] = NewNet
    BY DEF Init
  <2>3. ASSUME NEW r \in Reqs, req[r].conn \in Conns PROVE FALSE
    BY <1>1, <2>1, <2>3, ExchangeAssumption
  <2>. QED  BY <1>1, <1>3, <2>1, <2>2, <2>3 DEF LaneInv, Unopened, Claim, Pre, Opened
<1>. QED  BY <1>5, <1>6 DEF Inv1

\* Somebody takes a connection, or goes on with it for the first time.
Takes == \E r \in Reqs : getConn(r) \/ roundTripEnter(r) \/ roundTripSend(r)

\* Every step keeps the types and the connections to one user each.
LEMMA NextLane ==
  ASSUME Inv1, [Next]_vars
  PROVE  Inv1' /\ (Calm \/ Takes)
<1>1. CASE UNCHANGED vars
  BY <1>1, CalmReq, ReqStep DEF vars, Inv1, TypeOK
<1>2. ASSUME NEW r \in Reqs, Caller(r) PROVE Inv1' /\ (Calm \/ Takes)
  BY <1>2, RejectLane, CachedLane, CachedEndLane, GetConnLane, EnterLane, SendLane, SelectLane,
     MapLane, FailedLane DEF Caller, Takes
<1>3. ASSUME NEW r \in Reqs, User(r) PROVE Inv1' /\ (Calm \/ Takes)
  BY <1>3, ReadEOFLane, ReadErrLane, CloseLane DEF User
<1>4. ASSUME NEW r \in Reqs, Cancel(r) PROVE Inv1' /\ (Calm \/ Takes)
  BY <1>4, CancelLane
<1>5. ASSUME NEW c \in Conns, writeLoop(c) PROVE Inv1' /\ (Calm \/ Takes)
  BY <1>5, WriteSelectLane, WriteHeadLane, ContinueLane, WriteBodyLane, WriteFailsLane, ReportLane,
     WriteCloseLane DEF writeLoop
<1>6. ASSUME NEW c \in Conns, readLoop(c) PROVE Inv1' /\ (Calm \/ Takes)
  BY <1>6, PeekLane, ExpectLane, ReadResponseLane, ReadFailsLane, CallerGoneLane, BodyWaitLane,
     WroteRequestLane, PutCheckLane, PutLane, LoopExitLane, LoopCloseLane, RemoveLane DEF readLoop
<1>7. ASSUME NEW c \in Conns, closeConnIfStillIdle(c) PROVE Inv1' /\ (Calm \/ Takes)
  BY <1>7, CloseIdleLane
<1>8. ASSUME NEW c \in Conns, Server(c) PROVE Inv1' /\ (Calm \/ Takes)
  BY <1>8, ServerReadLane, ServerReplyLane, ServerHintLane, ServerTimeoutLane, ServerCloseLane
  DEF Server
<1>. QED  BY <1>1, <1>2, <1>3, <1>4, <1>5, <1>6, <1>7, <1>8 DEF Next

\* Types, and one user per connection, in every state.
THEOREM Lanes == Spec => []Inv1
<1>1. Inv1 /\ [Next]_vars => Inv1'
  BY NextLane
<1>. QED  BY <1>1, InitLane, PTL DEF Spec

\* For any number of requests and connections and any server: what the pool
\* has is not dead, has nothing queued, and while nobody closed it, has
\* nothing expected, no result of an old write, and idle loops.
THEOREM IdleClean == Spec => []IdleIsClean
<1>1. Inv1 => IdleIsClean
  <2>. SUFFICES ASSUME Inv1, NEW c \in Conns, conn[c].idle
                PROVE  LET k == conn[c] IN
                       /\ k.rl # "dead" /\ k.writech = NoReq /\ k.reqch = NoReq
                       /\ ~isBroken(k) =>
                             /\ k.numExpectedResponses = 0 /\ k.writeErrCh = "none" /\ k.wl = "idle"
                             /\ k.rl \in {"deliver", "peek", "peeked", "exit", "close"}
    BY DEF IdleIsClean
  <2>1. Good(conn[c])
    BY AtConn
  <2>. QED  BY <2>1 DEF Good, OneUse, Fit, Resting, Recycled, Ending, Reading, WriteStages
<1>. QED  BY <1>1, Lanes, PTL

(***************************************************************************)
(* The bytes of the requests: a connection goes to its next request only   *)
(* when the last one was written to its end, or the server no longer reads. *)
(***************************************************************************)

-----------------------------------------------------------------------------
(* The bytes of the requests on the wire.                                  *)

\* y may follow x on the wire.
UpFollows(x, y) ==
    IF x.part = "head" /\ hasBody(x.of) THEN y = Body1(x.of) ELSE y.part = "head"

\* The server reads whole requests, if it reads on.
Framed(n) ==
    n.fin = "no" =>
        /\ \A i \in 1 .. Len(n.up) - 1 : UpFollows(n.up[i], n.up[i + 1])
        /\ n.up # <<>> => IF n.srv = NoReq THEN n.up[1].part = "head" ELSE n.up[1] = Body1(n.srv)
        /\ n.srv # NoReq => hasBody(n.srv)

\* The last request was written to its end.
Whole(n) ==
    n.fin = "no" =>
        IF n.up = <<>> THEN n.srv = NoReq
        ELSE n.up[Len(n.up)].part = "body" \/ ~hasBody(n.up[Len(n.up)].of)

\* The head of r was written, its body was not.
HeadOnly(n, r) ==
    n.fin = "no" =>
        IF n.up = <<>> THEN n.srv = r ELSE n.up[Len(n.up)] = Head1(r)

\* What the write loop still has to write of its request.
Unwritten(k, n) ==
    /\ k.writech # NoReq => Whole(n)
    /\ k.wl \in {"head", "body"} /\ ~k.wrote => Whole(n)
    /\ k.wl = "head" => ~k.wrote /\ hasBody(k.wr)
    /\ k.wl = "wait" => k.wrote
    /\ k.wl \in {"wait", "body"} /\ k.wrote => hasBody(k.wr) /\ HeadOnly(n, k.wr)
    /\ (k.wl = "report" /\ k.werr = "nil") \/ k.writeErrCh = "nil"
          => Whole(n) \/ k.continueCh = "closed" \/ isBroken(k)
    /\ k.rl = "put" => Whole(n) \/ isBroken(k)
    /\ k.rl = "putLocked" \/ k.idle => Whole(n)
    /\ k.continueCh = "closed" => ~k.alive
    /\ k.writech # NoReq /\ k.continueCh # "nil" => hasBody(k.writech)
    /\ k.rl = "response" \/ k.reqch # NoReq => k.continueCh # "closed"

FrameInv ==
    /\ ~mixed
    /\ \A c \in Conns :
          /\ Framed(net[c]) /\ Unwritten(conn[c], net[c])
          /\ \A r \in Reqs : Pre(c, r) => Whole(net[c])

Inv2 == Inv1 /\ FrameInv

-----------------------------------------------------------------------------
(* Steps at large.                                                         *)

\* A connection and its wire after the step.
FrameAt(c) ==
    /\ Framed(net'[c]) /\ Unwritten(conn'[c], net'[c])
    /\ Fit(conn[c]) /\ Whole(net[c]) => Whole(net'[c])

\* A step at one connection that takes it from nobody.
LEMMA FrameStep ==
  ASSUME Inv2, NEW c \in Conns, OnlyAt(c), FrameAt(c), Calm, env' = env, mixed' = mixed
  PROVE  FrameInv'
<1>1. ASSUME NEW d \in Conns PROVE Framed(net[d])' /\ Unwritten(conn[d], net[d])'
  <2>1. CASE d = c
    BY ZenonT(40), <2>1 DEF FrameAt, Framed, Unwritten, Whole, HeadOnly, UpFollows, hasBody, isBroken
  <2>2. CASE d # c
    <3>1. net'[d] = net[d] /\ conn'[d] = conn[d] /\ Framed(net[d]) /\ Unwritten(conn[d], net[d])
      BY <2>2 DEF OnlyAt, Inv2, FrameInv
    <3>. QED  BY ZenonT(40), <3>1 DEF Framed, Unwritten, Whole, HeadOnly, UpFollows, hasBody, isBroken
  <2>. QED  BY <2>1, <2>2
<1>2. ASSUME NEW d \in Conns, NEW r \in Reqs, Pre(d, r)' PROVE Whole(net[d])'
  <2>1. Pre(d, r)
    BY <1>2 DEF Calm, Pre
  <2>2. Whole(net[d]) /\ Fit(conn[d])
    BY <2>1 DEF Inv2, FrameInv, Inv1, LaneInv, Claim
  <2>3. Whole(net'[d])
    BY <2>2 DEF FrameAt, OnlyAt
  <2>. QED  BY <2>3 DEF Whole, hasBody
<1>. QED  BY <1>1, <1>2 DEF FrameInv, Inv2

\* A step of a connection that writes nothing and recycles nothing.
Drift(k, kk) ==
    /\ kk.writech = k.writech /\ kk.wl = k.wl /\ kk.wr = k.wr /\ kk.wrote = k.wrote
    /\ kk.werr = k.werr /\ kk.continueCh = k.continueCh
    /\ kk.writeErrCh = "nil" => k.writeErrCh = "nil"
    /\ kk.rl \in {"put", "putLocked", "response"} => kk.rl = k.rl
    /\ kk.idle => k.idle
    /\ kk.reqch # NoReq => k.reqch # NoReq
    /\ kk.alive => k.alive
    /\ isBroken(k) => isBroken(kk)

\* Such a step leaves the bytes in order.
LEMMA DriftStep ==
  ASSUME Inv2, NEW c \in Conns, OnlyAt(c), Drift(conn[c], conn'[c]), net'[c] = net[c],
         Calm, env' = env, mixed' = mixed
  PROVE  FrameInv'
<1>1. Framed(net[c]) /\ Unwritten(conn[c], net[c])
  BY DEF Inv2, FrameInv
<1>2. Unwritten(conn'[c], net[c])
  BY <1>1 DEF Unwritten, Drift
<1>. QED  BY <1>1, <1>2, FrameStep DEF FrameAt

\* A step of callers only.
LEMMA NoFrameStep ==
  ASSUME Inv2, conn' = conn, net' = net, Calm, env' = env, mixed' = mixed
  PROVE  FrameInv'
<1>1. ASSUME NEW d \in Conns, NEW r \in Reqs, Pre(d, r)' PROVE Pre(d, r)
  BY <1>1 DEF Calm, Pre
<1>2. ASSUME NEW d \in Conns PROVE Framed(net[d])' /\ Unwritten(conn[d], net[d])'
  <2>1. Framed(net[d]) /\ Unwritten(conn[d], net[d])
    BY DEF Inv2, FrameInv
  <2>. QED  BY ZenonT(40), <2>1 DEF Framed, Unwritten, Whole, HeadOnly, UpFollows, hasBody, isBroken
<1>3. ASSUME NEW d \in Conns, NEW r \in Reqs, Pre(d, r)' PROVE Whole(net[d])'
  BY <1>1, <1>3 DEF Inv2, FrameInv, Whole, hasBody
<1>. QED  BY <1>2, <1>3 DEF Inv2, FrameInv

-----------------------------------------------------------------------------
(* The steps of the read loop.                                             *)

\* What AfterRecycle makes of the connection is no step forward for writing.
LEMMA OnwardDrift ==
  ASSUME NEW k \in ConnType, NEW kk \in ConnType, Drift(k, kk), NEW alive \in BOOLEAN,
         alive => k.alive
  PROVE  Drift(k, Onward(kk, alive))
BY DEF Drift, Onward, ConnType, isBroken

\* wroteRequest: the connection goes on to the pool only with all written.
LEMMA WroteRequestFrame ==
  ASSUME Inv2, NEW c \in Conns, wroteRequest(c), Calm PROVE FrameInv'
<1>. DEFINE k == conn[c]
<1>1. /\ k \in ConnType /\ Good(k) /\ k.rl = "recycle" /\ k.rc \in Reqs /\ k.resp.body \in BOOLEAN
      /\ conn \in [Conns -> ConnType]
  BY AtConn, MessageFacts
  DEF Inv1, TypeOK, Inv2, wroteRequest, Good, OneUse, Resting, Recycled, ConnType, Ending, Reading, MaybeReq
<1>2. ASSUME NEW kj \in ConnType, Drift(k, kj), kj.rc = k.rc, kj.resp = k.resp,
             AfterRecycle(c, kj, FALSE)
      PROVE  FrameInv'
  <2>1. conn' = [conn EXCEPT ![c] = Onward(kj, FALSE)]
    BY <1>1, <1>2, AfterRecycleFacts DEF Inv2
  <2>2. Drift(k, conn'[c]) /\ OnlyAt(c)
    <3>1. conn'[c] = Onward(kj, FALSE)
      BY <1>1, <2>1
    <3>2. OnlyAt(c)
      BY <2>1 DEF OnlyAt, wroteRequest
    <3>. QED  BY <1>1, <1>2, <3>1, <3>2, OnwardDrift
  <2>. QED  BY <2>2, DriftStep DEF wroteRequest
<1>3. CASE AfterRecycle(c, k, FALSE)
  <2>1. Drift(k, k)
    BY DEF Drift
  <2>. QED  BY <1>1, <1>2, <1>3, <2>1
<1>4. CASE AfterRecycle(c, [k EXCEPT !.writeErrCh = "none"], FALSE)
  <2>. DEFINE kj == [k EXCEPT !.writeErrCh = "none"]
  <2>1. kj \in ConnType /\ Drift(k, kj) /\ kj.rc = k.rc /\ kj.resp = k.resp
    BY <1>1 DEF Drift, ConnType, WriteErrs, isBroken
  <2>. QED  BY <1>2, <1>4, <2>1
<1>5. CASE /\ k.alive /\ k.writeErrCh = "nil"
           /\ conn' = [conn EXCEPT ![c].writeErrCh = "none", ![c].rl = "put"]
  <2>. DEFINE kk == [k EXCEPT !.writeErrCh = "none", !.rl = "put"]
  <2>1. conn'[c] = kk /\ OnlyAt(c) /\ net' = net
    BY <1>1, <1>5 DEF OnlyAt, wroteRequest
  <2>2. Framed(net[c]) /\ Unwritten(k, net[c])
    BY DEF Inv2, FrameInv
  <2>3. Whole(net[c]) \/ isBroken(k)
    BY <1>5, <2>2 DEF Unwritten
  <2>4. k.wl \in {"idle", "done"} /\ ~k.idle /\ k.reqch = NoReq
    BY <1>1, <1>5 DEF Good, OneUse, WriteStages, Resting, Recycled, Ending
  <2>5. Unwritten(kk, net[c])
    BY <1>1, <2>2, <2>3, <2>4 DEF Unwritten, ConnType, isBroken
  <2>. QED  BY <2>1, <2>2, <2>5, FrameStep DEF FrameAt, wroteRequest
<1>. QED  BY <1>3, <1>4, <1>5 DEF wroteRequest

\* tryPutIdleConn: a broken connection is not put back.
LEMMA PutCheckFrame ==
  ASSUME Inv2, NEW c \in Conns, tryPutIdleConnCheck(c), Calm PROVE FrameInv'
<1>. DEFINE k == conn[c]
<1>1. /\ k \in ConnType /\ Good(k) /\ k.rl = "put" /\ k.rc \in Reqs /\ k.resp.body \in BOOLEAN
      /\ conn \in [Conns -> ConnType]
  BY AtConn, MessageFacts
  DEF Inv1, TypeOK, Inv2, tryPutIdleConnCheck, Good, OneUse, Resting, Recycled, ConnType, Ending, Reading,
      MaybeReq
<1>2. CASE AfterRecycle(c, k, FALSE)
  <2>1. conn' = [conn EXCEPT ![c] = Onward(k, FALSE)]
    BY <1>1, <1>2, AfterRecycleFacts DEF Inv2
  <2>2. Drift(k, k)
    BY DEF Drift
  <2>3. conn'[c] = Onward(k, FALSE) /\ OnlyAt(c)
    BY <1>1, <2>1 DEF OnlyAt, tryPutIdleConnCheck
  <2>4. Drift(k, conn'[c])
    BY <1>1, <2>2, <2>3, OnwardDrift
  <2>. QED  BY <2>3, <2>4, DriftStep DEF tryPutIdleConnCheck
<1>3. CASE ~isBroken(k) /\ conn' = [conn EXCEPT ![c].reused = TRUE, ![c].rl = "putLocked"]
  <2>. DEFINE kk == [k EXCEPT !.reused = TRUE, !.rl = "putLocked"]
  <2>1. conn'[c] = kk /\ OnlyAt(c) /\ net' = net
    BY <1>1, <1>3 DEF OnlyAt, tryPutIdleConnCheck
  <2>2. Framed(net[c]) /\ Unwritten(k, net[c])
    BY DEF Inv2, FrameInv
  <2>3. Unwritten(kk, net[c])
    BY <1>1, <1>3, <2>2 DEF Unwritten, ConnType, isBroken
  <2>. QED  BY <2>1, <2>2, <2>3, FrameStep DEF FrameAt, tryPutIdleConnCheck
<1>. QED  BY <1>2, <1>3 DEF tryPutIdleConnCheck

\* tryPutIdleConn: the pool takes the connection.
LEMMA PutFrame ==
  ASSUME Inv2, NEW c \in Conns, tryPutIdleConn(c), Calm PROVE FrameInv'
<1>. DEFINE k == conn[c]
<1>1. /\ k \in ConnType /\ Good(k) /\ k.rl = "putLocked" /\ k.rc \in Reqs /\ k.resp.body \in BOOLEAN
      /\ conn \in [Conns -> ConnType]
  BY AtConn, MessageFacts
  DEF Inv1, TypeOK, Inv2, tryPutIdleConn, Good, OneUse, Resting, Recycled, ConnType, Ending, Reading,
      MaybeReq
<1>0. k.alive /\ Framed(net[c]) /\ Unwritten(k, net[c])
  BY <1>1 DEF Inv2, FrameInv, Good, Reading
<1>2. CASE AfterRecycle(c, [k EXCEPT !.idle = TRUE], TRUE)
  <2>. DEFINE kj == [k EXCEPT !.idle = TRUE]
              kk == Onward(kj, TRUE)
  <2>1. kj \in ConnType /\ kj.rc = k.rc /\ kj.resp = k.resp
    BY <1>1 DEF ConnType
  <2>2. conn' = [conn EXCEPT ![c] = kk]
    BY <1>1, <1>2, <2>1, AfterRecycleFacts DEF Inv2
  <2>3. conn'[c] = kk /\ OnlyAt(c) /\ net' = net
    BY <1>1, <2>2 DEF OnlyAt, tryPutIdleConn
  <2>4. Unwritten(kk, net[c])
    BY <1>0, <1>1 DEF Unwritten, ConnType, isBroken, Onward
  <2>. HIDE DEF kk
  <2>. QED  BY <1>0, <2>3, <2>4, FrameStep DEF FrameAt, tryPutIdleConn
<1>3. CASE AfterRecycle(c, [k EXCEPT !.closeErr = "pool"], FALSE)
  <2>. DEFINE kj == [k EXCEPT !.closeErr = "pool"]
  <2>1. kj \in ConnType /\ Drift(k, kj) /\ kj.rc = k.rc /\ kj.resp = k.resp
    BY <1>1 DEF Drift, ConnType, EndReasons, isBroken
  <2>2. conn' = [conn EXCEPT ![c] = Onward(kj, FALSE)]
    BY <1>1, <1>3, <2>1, AfterRecycleFacts DEF Inv2
  <2>3. conn'[c] = Onward(kj, FALSE) /\ OnlyAt(c)
    BY <1>1, <2>2 DEF OnlyAt, tryPutIdleConn
  <2>4. Drift(k, conn'[c])
    BY <1>1, <2>1, <2>3, OnwardDrift
  <2>. QED  BY <2>3, <2>4, DriftStep DEF tryPutIdleConn
<1>. QED  BY <1>2, <1>3 DEF tryPutIdleConn

\* Peek.
LEMMA PeekFrame ==
  ASSUME Inv2, NEW c \in Conns, readLoopPeek(c), Calm PROVE FrameInv'
<1>1. conn[c] \in ConnType /\ conn \in [Conns -> ConnType]
  BY AtConn DEF Inv2, Inv1, TypeOK
<1>2. OnlyAt(c)
  BY <1>1 DEF OnlyAt, readLoopPeek
<1>3. Drift(conn[c], conn'[c])
  BY <1>1 DEF Drift, ConnType, readLoopPeek, isBroken
<1>. QED  BY <1>2, <1>3, DriftStep DEF readLoopPeek

\* The read loop fetches its request.
LEMMA ExpectFrame ==
  ASSUME Inv2, NEW c \in Conns, readLoopExpect(c), Calm PROVE FrameInv'
<1>. DEFINE k == conn[c]
<1>1. k \in ConnType /\ conn \in [Conns -> ConnType] /\ Good(k)
  BY AtConn DEF Inv2, Inv1, TypeOK
<1>2. OnlyAt(c) /\ net' = net
  BY <1>1 DEF OnlyAt, readLoopExpect
<1>3. CASE conn' = [conn EXCEPT ![c] = [readLoopPeekFailLocked(@, net[c].down) EXCEPT !.rl = "exit"]]
  <2>1. conn'[c] = [readLoopPeekFailLocked(k, net[c].down) EXCEPT !.rl = "exit"]
    BY <1>1, <1>3
  <2>2. PICK reason : readLoopPeekFailLocked(k, net[c].down) = closeLocked(k, reason)
                      /\ reason \in CloseReasons
    BY DEF readLoopPeekFailLocked, CloseReasons
  <2>3. Drift(k, conn'[c])
    BY <1>1, <2>1, <2>2 DEF Drift, ConnType, closeLocked, isBroken, CloseReasons
  <2>. QED  BY <1>2, <2>3, DriftStep DEF readLoopExpect
<1>4. CASE /\ k.reqch # NoReq
           /\ conn' = [conn EXCEPT
                 ![c].rc = k.reqch, ![c].reqch = NoReq, ![c].num1xx = 0,
                 ![c].rl = IF k.peek = "nil" THEN "response" ELSE "deliver",
                 ![c].resp = IF k.peek = "nil" THEN NoResp ELSE ErrResp,
                 ![c].closeErr = IF k.peek = "nil" THEN @ ELSE "readFromServer",
                 ![c].peek = IF @ = "nil" THEN @ ELSE "readFromServer"]
  <2>. DEFINE kk == conn'[c]
  <2>1. /\ kk.writech = k.writech /\ kk.wl = k.wl /\ kk.wr = k.wr /\ kk.wrote = k.wrote
        /\ kk.werr = k.werr /\ kk.continueCh = k.continueCh /\ kk.writeErrCh = k.writeErrCh
        /\ kk.rl \in {"response", "deliver"} /\ kk.idle = k.idle /\ kk.alive = k.alive
        /\ kk.closed = k.closed /\ kk.reqch = NoReq
    BY SMTT(30), <1>1, <1>4 DEF ConnType
  <2>2. Framed(net[c]) /\ Unwritten(k, net[c])
    BY DEF Inv2, FrameInv
  <2>. HIDE DEF kk
  <2>3. Unwritten(kk, net[c])
    BY <1>4, <2>1, <2>2 DEF Unwritten, isBroken
  <2>. QED  BY <1>2, <2>2, <2>3, FrameStep DEF FrameAt, readLoopExpect, kk
<1>. QED  BY <1>3, <1>4 DEF readLoopExpect

\* What readResponse changes.
LEMMA ReadResponseDoes ==
  ASSUME Inv1, NEW c \in Conns, readResponse(c)
  PROVE  LET k == conn[c]
             kk == conn'[c]
             m == Head(net[c].down)
         IN
         /\ k.rl = "response" /\ net[c].down # <<>> /\ ~isBroken(k) /\ k.rc \in Reqs
         /\ m \in Message /\ net'[c] = [net[c] EXCEPT !.down = Tail(@)]
         /\ OnlyAt(c) /\ req' = req /\ env' = env /\ handled' = handled /\ mixed' = mixed
         /\ kk.writech = k.writech /\ kk.wl = k.wl /\ kk.wr = k.wr /\ kk.wrote = k.wrote
         /\ kk.werr = k.werr /\ kk.writeErrCh = k.writeErrCh /\ kk.idle = k.idle /\ kk.open = k.open
         /\ kk.closed = k.closed /\ kk.reqch = k.reqch /\ kk.rc = k.rc
         /\ kk.waitForBodyRead = k.waitForBodyRead
         /\ \/ /\ m.code \in HintCodes /\ kk.alive = k.alive
               /\ kk.continueCh = k.continueCh \/ (kk.continueCh = "go" /\ k.continueCh = "empty")
               /\ \/ kk.rl = "response"
                  \/ kk.rl = "deliver" /\ kk.resp = ErrResp
            \/ /\ m.code \notin HintCodes /\ kk.resp = m
               /\ kk.rl = IF m.body THEN "deliver" ELSE "recycle"
               /\ \/ kk.continueCh = k.continueCh
                  \/ kk.continueCh = "go" /\ k.continueCh = "empty"
                  \/ kk.continueCh = "closed" /\ k.continueCh = "empty" /\ ~kk.alive
               /\ m.close => ~kk.alive
<1>. DEFINE k == conn[c]
            kk == conn'[c]
            m == Head(net[c].down)
<1>1. /\ k \in ConnType /\ conn \in [Conns -> ConnType] /\ Good(k) /\ k.rl = "response"
      /\ net[c] \in NetType /\ net \in [Conns -> NetType] /\ net[c].down # <<>> /\ ~isBroken(k)
      /\ net' = [net EXCEPT ![c].down = Tail(@)]
      /\ req' = req /\ env' = env /\ handled' = handled /\ mixed' = mixed
  BY AtConn DEF Inv1, TypeOK, readResponse
<1>2. k.rc \in Reqs
  BY <1>1 DEF Good, OneUse, Resting, Recycled, Ending, ConnType, MaybeReq
<1>3. /\ m \in Message /\ m.close \in BOOLEAN /\ m.body \in BOOLEAN
      /\ env.profile[k.rc].close \in BOOLEAN
  <2>1. m \in Message
    BY <1>1, PopFacts
  <2>. QED  BY <1>2, <2>1, EnvFacts, MessageFacts DEF Inv1, TypeOK
<1>4. net'[c] = [net[c] EXCEPT !.down = Tail(@)] /\ \A d \in Conns : d # c => net'[d] = net[d]
  BY <1>1
<1>5. PICK eof \in SeesEOF(net[c]) :
         \/ /\ m.code \in {"100", "1xx"}
            /\ conn' = [conn EXCEPT
                 ![c].num1xx = @ + 1, ![c].sawEOF = eof,
                 ![c].continueCh = IF m.code = "100" /\ @ = "empty" THEN "go" ELSE @,
                 ![c].rl = IF k.num1xx = Max1xx THEN "deliver" ELSE @,
                 ![c].resp = IF k.num1xx = Max1xx THEN ErrResp ELSE @,
                 ![c].peek = IF k.num1xx = Max1xx THEN "too many 1xx" ELSE @]
         \/ /\ m.code \notin {"100", "1xx"}
            /\ LET close == m.close \/ env.profile[k.rc].close IN
               conn' = [conn EXCEPT
                 ![c].numExpectedResponses = @ - 1, ![c].sawEOF = eof, ![c].resp = m,
                 ![c].continueCh = CASE @ = "empty" /\ close -> "closed"
                                     [] @ = "empty" /\ ~close -> "go"
                                     [] OTHER -> @,
                 ![c].alive = ~close /\ m.code # "101",
                 ![c].closeErr = IF m.code = "101" THEN "callerOwnsConn" ELSE @,
                 ![c].rl = IF m.body THEN "deliver" ELSE "recycle"]
  BY DEF readResponse
<1>. HIDE DEF m
<1>6. CASE m.code \in {"100", "1xx"}
  <2>. DEFINE u == IF m.code = "100" /\ k.continueCh = "empty" THEN "go" ELSE k.continueCh
              x == IF k.num1xx = Max1xx THEN "deliver" ELSE k.rl
              y == IF k.num1xx = Max1xx THEN ErrResp ELSE k.resp
              w == IF k.num1xx = Max1xx THEN "too many 1xx" ELSE k.peek
              v == k.num1xx + 1
              kj == [k EXCEPT !.num1xx = v, !.sawEOF = eof, !.continueCh = u,
                              !.rl = x, !.resp = y, !.peek = w]
  <2>1. conn' = [conn EXCEPT ![c] = kj]
    BY <1>1, <1>5, <1>6 DEF ConnType
  <2>2. /\ x = "response" \/ (x = "deliver" /\ y = ErrResp)
        /\ u = k.continueCh \/ (u = "go" /\ k.continueCh = "empty")
    BY <1>1
  <2>. HIDE DEF u, x, y, w, v
  <2>3. conn'[c] = kj /\ OnlyAt(c)
    BY <1>1, <1>4, <2>1 DEF OnlyAt
  <2>. QED  BY <1>1, <1>2, <1>3, <1>4, <1>6, <2>2, <2>3 DEF ConnType, HintCodes, m
<1>7. CASE m.code \notin {"100", "1xx"}
  <2>. DEFINE close == m.close \/ env.profile[k.rc].close
              u == CASE k.continueCh = "empty" /\ close -> "closed"
                     [] k.continueCh = "empty" /\ ~close -> "go"
                     [] OTHER -> k.continueCh
              v == k.numExpectedResponses - 1
              a == ~close /\ m.code # "101"
              e == IF m.code = "101" THEN "callerOwnsConn" ELSE k.closeErr
              x == IF m.body THEN "deliver" ELSE "recycle"
              kj == [k EXCEPT !.numExpectedResponses = v, !.sawEOF = eof, !.resp = m,
                              !.continueCh = u, !.alive = a, !.closeErr = e, !.rl = x]
  <2>1. conn' = [conn EXCEPT ![c] = kj]
    BY ZenonT(40), <1>1, <1>5, <1>7 DEF ConnType
  <2>2. /\ \/ u = k.continueCh
           \/ u = "go" /\ k.continueCh = "empty"
           \/ u = "closed" /\ k.continueCh = "empty" /\ ~a
        /\ m.close => ~a
    BY <1>3
  <2>. HIDE DEF u, a, e, v
  <2>3. conn'[c] = kj /\ OnlyAt(c)
    BY <1>1, <1>4, <2>1 DEF OnlyAt
  <2>. QED  BY <1>1, <1>2, <1>3, <1>4, <1>7, <2>2, <2>3 DEF ConnType, HintCodes, m
<1>. QED  BY <1>6, <1>7

\* readResponse: a final response that closes the connection gives up the body.
LEMMA ReadResponseFrame ==
  ASSUME Inv2, NEW c \in Conns, readResponse(c), Calm PROVE FrameInv'
<1>. DEFINE k == conn[c]
            kk == conn'[c]
            n == net[c]
            nn == net'[c]
            m == Head(net[c].down)
<1>1. k \in ConnType /\ Good(k) /\ n \in NetType /\ k.rl = "response"
  BY AtConn DEF Inv2, readResponse
<1>2. OnlyAt(c) /\ nn = [n EXCEPT !.down = Tail(@)]
  BY ReadResponseDoes DEF Inv2
<1>4. nn.up = n.up /\ nn.fin = n.fin /\ nn.srv = n.srv
  BY <1>1, <1>2 DEF NetType
<1>6. /\ kk.writech = k.writech /\ kk.wl = k.wl /\ kk.wr = k.wr /\ kk.wrote = k.wrote
      /\ kk.werr = k.werr /\ kk.writeErrCh = k.writeErrCh /\ kk.idle = k.idle
      /\ kk.closed = k.closed /\ kk.reqch = k.reqch
      /\ kk.rl \in {"response", "deliver", "recycle"}
      /\ \/ kk.continueCh = k.continueCh
         \/ kk.continueCh = "go" /\ k.continueCh = "empty"
         \/ kk.continueCh = "closed" /\ ~kk.alive /\ kk.rl # "response" /\ k.continueCh = "empty"
  BY ReadResponseDoes DEF Inv2
<1>7. Framed(n) /\ Unwritten(k, n) /\ k.reqch = NoReq
  BY <1>1 DEF Inv2, FrameInv, Good, OneUse, Resting, Recycled, Ending
<1>8. Framed(nn) /\ (Whole(nn) <=> Whole(n)) /\ \A r \in Reqs : HeadOnly(nn, r) <=> HeadOnly(n, r)
  BY <1>4, <1>7 DEF Framed, Whole, HeadOnly
<1>9. k.wl \in {"wait", "body"} => k.wr \in Reqs
  BY <1>1 DEF Good, WriteStages, ConnType, MaybeReq
<1>10. k.continueCh # "closed"
  BY <1>1, <1>7 DEF Unwritten
<1>. HIDE DEF kk, nn
<1>11. Unwritten(kk, nn)
  BY <1>1, <1>6, <1>7, <1>8, <1>9, <1>10 DEF Unwritten, isBroken
<1>. QED  BY <1>2, <1>8, <1>11, FrameStep DEF FrameAt, readResponse, kk, nn

\* The other steps of the read loop, and what closes a connection.
LEMMA LoopFrame ==
  ASSUME Inv2, NEW c \in Conns, Calm,
         \/ readResponseFails(c) \/ readLoopCallerGone(c) \/ readLoopBodyWait(c)
         \/ readLoopExit(c) \/ readLoopClose(c) \/ removeIdleConn(c) \/ closeConnIfStillIdle(c)
  PROVE  FrameInv'
<1>1. conn[c] \in ConnType /\ conn \in [Conns -> ConnType]
  BY AtConn DEF Inv2, Inv1, TypeOK
<1>2. OnlyAt(c) /\ net' = net /\ env' = env /\ mixed' = mixed
  BY <1>1 DEF OnlyAt, readResponseFails, readLoopCallerGone, readLoopBodyWait, readLoopExit,
              readLoopClose, removeIdleConn, closeConnIfStillIdle
<1>3. Drift(conn[c], conn'[c])
  <2>1. CASE readResponseFails(c)
    BY <1>1, <2>1 DEF Drift, ConnType, readResponseFails, isBroken
  <2>2. CASE readLoopCallerGone(c)
    BY <1>1, <2>2 DEF Drift, ConnType, readLoopCallerGone, isBroken
  <2>3. CASE readLoopBodyWait(c)
    <3>. DEFINE k == conn[c]
                kj == cancelRequest(k)
    <3>1. CASE conn' = [conn EXCEPT ![c].rl = "recycle", ![c].waitForBodyRead = "none"]
      BY <1>1, <3>1 DEF Drift, ConnType, isBroken
    <3>2. CASE conn' = [conn EXCEPT ![c].rl = "exit", ![c].alive = FALSE]
      BY <1>1, <3>2 DEF Drift, ConnType, isBroken
    <3>3. CASE conn' = [conn EXCEPT ![c] = [cancelRequest(@) EXCEPT !.rl = "exit", !.alive = FALSE]]
      <4>1. conn'[c] = [kj EXCEPT !.rl = "exit", !.alive = FALSE]
        BY <1>1, <3>3
      <4>2. kj \in ConnType /\ Drift(k, kj)
        BY <1>1, ZenonT(40) DEF Drift, ConnType, isBroken, cancelRequest, closeLocked, Closings, CloseReasons
      <4>. HIDE DEF kj
      <4>. QED  BY <4>1, <4>2 DEF Drift, ConnType, isBroken
    <3>. QED  BY <2>3, <3>1, <3>2, <3>3 DEF readLoopBodyWait
  <2>4. CASE readLoopExit(c)
    BY <1>1, <2>4 DEF Drift, ConnType, readLoopExit, isBroken
  <2>5. CASE readLoopClose(c)
    BY <1>1, <2>5 DEF Drift, ConnType, readLoopClose, isBroken, closeLocked, EndReasons
  <2>6. CASE removeIdleConn(c)
    BY <1>1, <2>6 DEF Drift, ConnType, removeIdleConn, isBroken
  <2>7. CASE closeConnIfStillIdle(c)
    BY <1>1, <2>7 DEF Drift, ConnType, closeConnIfStillIdle, isBroken, closeLocked
  <2>. QED  BY <2>1, <2>2, <2>3, <2>4, <2>5, <2>6, <2>7
<1>. QED  BY <1>2, <1>3, DriftStep

-----------------------------------------------------------------------------
(* The steps of the write loop.                                            *)

\* Writing one more item.
LEMMA AddFacts ==
  ASSUME NEW S, NEW s \in Seq(S), NEW e \in S
  PROVE  LET t == s \o <<e>> IN
         /\ t \in Seq(S) /\ t # <<>> /\ Len(t) = Len(s) + 1 /\ t[Len(s) + 1] = e
         /\ \A i \in 1 .. Len(s) : t[i] = s[i]
         /\ Len(s) \in Nat /\ (s = <<>> <=> Len(s) = 0)
OBVIOUS

\* The head of a request, after whole ones.
LEMMA SendHeadFacts ==
  ASSUME NEW n \in NetType, Framed(n), Whole(n), NEW r \in Reqs
  PROVE  LET nn == Sent(n, <<Head1(r)>>) IN
         nn \in NetType /\ Framed(nn) /\ HeadOnly(nn, r) /\ (~hasBody(r) => Whole(nn))
<1>. DEFINE nn == Sent(n, <<Head1(r)>>)
<1>1. nn \in NetType
  BY SentFacts, ItemFacts
<1>2. CASE n.fin # "no"
  <2>1. nn = n
    BY <1>2 DEF Sent
  <2>. QED  BY <1>1, <1>2, <2>1 DEF Framed, HeadOnly, Whole
<1>3. CASE n.fin = "no"
  <2>. DEFINE s == n.up
              t == s \o <<Head1(r)>>
  <2>1. s \in Seq(Item) /\ Head1(r) \in Item
    BY ItemFacts DEF NetType
  <2>2. /\ t \in Seq(Item) /\ t # <<>> /\ Len(t) = Len(s) + 1 /\ t[Len(s) + 1] = Head1(r)
        /\ \A i \in 1 .. Len(s) : t[i] = s[i]
        /\ Len(s) \in Nat /\ (s = <<>> <=> Len(s) = 0)
    BY <2>1, AddFacts
  <2>3. nn.up = t /\ nn.srv = n.srv /\ nn.fin = "no"
    BY <1>3 DEF Sent, NetType
  <2>4. Head1(r).part = "head" /\ Head1(r).of = r
    BY DEF Head1
  <2>. HIDE DEF nn, t, s
  <2>5. ASSUME NEW i \in 1 .. Len(t) - 1 PROVE UpFollows(t[i], t[i + 1])
    <3>1. CASE i < Len(s)
      <4>1. t[i] = s[i] /\ t[i + 1] = s[i + 1] /\ i \in 1 .. Len(s) - 1
        BY <2>2, <3>1
      <4>. QED  BY <1>3, <4>1 DEF Framed, s
    <3>2. CASE i = Len(s)
      <4>1. t[i] = s[Len(s)] /\ t[i + 1] = Head1(r) /\ s # <<>>
        BY <2>2, <3>2
      <4>2. s[Len(s)] \in Item
        BY <2>1, <2>2, <4>1
      <4>. QED  BY <1>3, <2>4, <4>1, <4>2 DEF Whole, UpFollows, Item, s
    <3>. QED  BY <2>2, <3>1, <3>2
  <2>6. n.srv = NoReq => t[1].part = "head"
    <3>1. CASE s = <<>>
      BY <2>2, <2>4, <3>1
    <3>2. CASE s # <<>>
      <4>1. t[1] = s[1]
        BY <2>2, <3>2
      <4>. QED  BY <1>3, <3>2, <4>1 DEF Framed, s
    <3>. QED  BY <3>1, <3>2
  <2>7. n.srv # NoReq => t[1] = Body1(n.srv)
    <3>1. CASE s = <<>>
      BY <1>3, <3>1 DEF Whole, s
    <3>2. CASE s # <<>>
      <4>1. t[1] = s[1]
        BY <2>2, <3>2
      <4>. QED  BY <1>3, <3>2, <4>1 DEF Framed, s
    <3>. QED  BY <3>1, <3>2
  <2>8. Framed(nn)
    BY <1>3, <2>3, <2>5, <2>6, <2>7 DEF Framed
  <2>9. HeadOnly(nn, r) /\ (~hasBody(r) => Whole(nn))
    BY <2>2, <2>3, <2>4 DEF HeadOnly, Whole
  <2>. QED  BY <1>1, <2>8, <2>9 DEF nn
<1>. QED  BY <1>2, <1>3

\* The body of a request, after its head.
LEMMA SendBodyFacts ==
  ASSUME NEW n \in NetType, Framed(n), NEW r \in Reqs, hasBody(r), HeadOnly(n, r)
  PROVE  LET nn == Sent(n, <<Body1(r)>>) IN nn \in NetType /\ Framed(nn) /\ Whole(nn)
<1>. DEFINE nn == Sent(n, <<Body1(r)>>)
<1>1. nn \in NetType
  BY SentFacts, ItemFacts
<1>2. CASE n.fin # "no"
  <2>1. nn = n
    BY <1>2 DEF Sent
  <2>. QED  BY <1>1, <1>2, <2>1 DEF Framed, Whole
<1>3. CASE n.fin = "no"
  <2>. DEFINE s == n.up
              t == s \o <<Body1(r)>>
  <2>1. s \in Seq(Item) /\ Body1(r) \in Item
    BY ItemFacts DEF NetType
  <2>2. /\ t \in Seq(Item) /\ t # <<>> /\ Len(t) = Len(s) + 1 /\ t[Len(s) + 1] = Body1(r)
        /\ \A i \in 1 .. Len(s) : t[i] = s[i]
        /\ Len(s) \in Nat /\ (s = <<>> <=> Len(s) = 0)
    BY <2>1, AddFacts
  <2>3. nn.up = t /\ nn.srv = n.srv /\ nn.fin = "no"
    BY <1>3 DEF Sent, NetType
  <2>4. Body1(r).part = "body" /\ Head1(r).part = "head" /\ Head1(r).of = r
    BY DEF Head1, Body1
  <2>. HIDE DEF nn, t, s
  <2>5. ASSUME NEW i \in 1 .. Len(t) - 1 PROVE UpFollows(t[i], t[i + 1])
    <3>1. CASE i < Len(s)
      <4>1. t[i] = s[i] /\ t[i + 1] = s[i + 1] /\ i \in 1 .. Len(s) - 1
        BY <2>2, <3>1
      <4>. QED  BY <1>3, <4>1 DEF Framed, s
    <3>2. CASE i = Len(s)
      <4>1. t[i] = s[Len(s)] /\ t[i + 1] = Body1(r) /\ s # <<>>
        BY <2>2, <3>2
      <4>. QED  BY <1>3, <2>4, <4>1 DEF HeadOnly, UpFollows, s
    <3>. QED  BY <2>2, <3>1, <3>2
  <2>6. IF n.srv = NoReq THEN t[1].part = "head" ELSE t[1] = Body1(n.srv)
    <3>1. CASE s = <<>>
      <4>1. n.srv = r /\ r # NoReq /\ t[1] = Body1(r)
        BY <1>3, <2>2, <3>1, ExchangeAssumption DEF HeadOnly, s
      <4>. QED  BY <4>1
    <3>2. CASE s # <<>>
      <4>1. t[1] = s[1]
        BY <2>2, <3>2
      <4>. QED  BY <1>3, <3>2, <4>1 DEF Framed, s
    <3>. QED  BY <3>1, <3>2
  <2>7. Framed(nn)
    BY <1>3, <2>3, <2>5, <2>6 DEF Framed
  <2>8. Whole(nn)
    BY <2>2, <2>3, <2>4 DEF Whole
  <2>. QED  BY <1>1, <2>7, <2>8 DEF nn
<1>. QED  BY <1>2, <1>3

\* Both at once.
LEMMA SendBothFacts ==
  ASSUME NEW n \in NetType, Framed(n), Whole(n), NEW r \in Reqs, hasBody(r)
  PROVE  LET nn == Sent(n, <<Head1(r)>> \o <<Body1(r)>>) IN nn \in NetType /\ Framed(nn) /\ Whole(nn)
<1>. DEFINE nj == Sent(n, <<Head1(r)>>)
<1>1. nj \in NetType /\ Framed(nj) /\ HeadOnly(nj, r)
  BY SendHeadFacts
<1>2. Sent(n, <<Head1(r)>> \o <<Body1(r)>>) = Sent(nj, <<Body1(r)>>)
  <2>1. n.up \in Seq(Item) /\ <<Head1(r)>> \in Seq(Item) /\ <<Body1(r)>> \in Seq(Item)
    BY ItemFacts DEF NetType
  <2>2. (n.up \o <<Head1(r)>>) \o <<Body1(r)>> = n.up \o (<<Head1(r)>> \o <<Body1(r)>>)
    BY <2>1, ConcatAssociative
  <2>. QED  BY <2>2 DEF Sent, NetType
<1>. HIDE DEF nj
<1>. QED  BY <1>1, <1>2, SendBodyFacts

\* Nothing at all.
LEMMA SendNoneFacts ==
  ASSUME NEW n \in NetType PROVE Sent(n, <<>>) = n
<1>1. n.up \o <<>> = n.up
  BY DEF NetType
<1>. QED  BY <1>1 DEF Sent, NetType

\* A connection whose write loop is at work is in nobody else's hands.
LEMMA AtWork ==
  ASSUME Inv2, NEW c \in Conns, conn[c].wl \notin {"idle", "done"}
  PROVE  LET k == conn[c] IN
         /\ k \in ConnType /\ Good(k) /\ k.wr \in Reqs /\ k.open /\ net[c] \in NetType
         /\ ~Fit(k) /\ ~k.idle /\ k.rl \notin {"put", "putLocked"} /\ k.writech = NoReq
         /\ k.writeErrCh # "nil"
         /\ Framed(net[c]) /\ Unwritten(k, net[c])
<1>1. conn[c] \in ConnType /\ Good(conn[c]) /\ net[c] \in NetType
  BY AtConn DEF Inv2
<1>2. Framed(net[c]) /\ Unwritten(conn[c], net[c])
  BY DEF Inv2, FrameInv
<1>. QED  BY <1>1, <1>2 DEF Good, OneUse, Fit, Reading, WriteStages, ConnType, MaybeReq

\* A step of a write loop at work: what it leaves to be written.
LEMMA WorkStep ==
  ASSUME Inv2, NEW c \in Conns, conn[c].wl \notin {"idle", "done"}, OnlyAt(c), Calm,
         env' = env, mixed' = mixed, Framed(net'[c]),
         NEW kk, kk = conn'[c],
         kk.writech = NoReq, kk.writeErrCh = "nil" => Whole(net'[c]) \/ kk.continueCh = "closed" \/ isBroken(kk),
         kk.rl = conn[c].rl, ~kk.idle, kk.continueCh = conn[c].continueCh, kk.alive = conn[c].alive,
         kk.reqch = conn[c].reqch,
         kk.wl \in {"head", "body"} /\ ~kk.wrote => Whole(net'[c]),
         kk.wl # "head",
         kk.wl = "wait" => kk.wrote,
         kk.wl \in {"wait", "body"} /\ kk.wrote => hasBody(kk.wr) /\ HeadOnly(net'[c], kk.wr),
         kk.wl = "report" /\ kk.werr = "nil" => Whole(net'[c]) \/ kk.continueCh = "closed" \/ isBroken(kk)
  PROVE  FrameInv'
<1>1. /\ ~Fit(conn[c]) /\ conn[c].rl \notin {"put", "putLocked"} /\ Unwritten(conn[c], net[c])
  BY AtWork
<1>2. Unwritten(kk, net'[c])
  BY <1>1 DEF Unwritten
<1>. QED  BY <1>1, <1>2, FrameStep DEF FrameAt

\* The write loop takes its next request.
LEMMA WriteSelectFrame ==
  ASSUME Inv2, NEW c \in Conns, writeLoopSelect(c), Calm PROVE FrameInv'
<1>. DEFINE k == conn[c]
            kk == conn'[c]
<1>1. /\ k \in ConnType /\ Good(k) /\ conn \in [Conns -> ConnType] /\ k.wl = "idle"
      /\ Framed(net[c]) /\ Unwritten(k, net[c])
  BY AtConn DEF Inv2, Inv1, TypeOK, FrameInv, writeLoopSelect
<1>2. OnlyAt(c) /\ net' = net /\ env' = env /\ mixed' = mixed
  BY <1>1 DEF writeLoopSelect, OnlyAt
<1>3. CASE /\ k.writech # NoReq
           /\ conn' = [conn EXCEPT ![c].wl = IF k.continueCh = "nil" THEN "body" ELSE "head",
                                   ![c].wr = k.writech, ![c].writech = NoReq]
  <2>1. /\ kk.wl = (IF k.continueCh = "nil" THEN "body" ELSE "head") /\ kk.wr = k.writech
        /\ kk.writech = NoReq /\ kk.wrote = k.wrote /\ kk.werr = k.werr /\ kk.writeErrCh = k.writeErrCh
        /\ kk.continueCh = k.continueCh /\ kk.rl = k.rl /\ kk.idle = k.idle /\ kk.reqch = k.reqch
        /\ kk.alive = k.alive /\ kk.closed = k.closed
    BY <1>1, <1>3 DEF ConnType
  <2>2. ~k.wrote /\ k.writeErrCh = "none"
    BY <1>1, <1>3 DEF Good, WriteStages
  <2>. HIDE DEF kk
  <2>3. Unwritten(kk, net[c])
    BY <1>1, <1>3, <2>1, <2>2 DEF Unwritten, isBroken
  <2>. QED  BY <1>1, <1>2, <2>3, FrameStep DEF FrameAt, kk
<1>4. CASE conn' = [conn EXCEPT ![c].wl = "done"]
  <2>1. /\ kk.wl = "done" /\ kk.wr = k.wr
        /\ kk.writech = k.writech /\ kk.wrote = k.wrote /\ kk.werr = k.werr /\ kk.writeErrCh = k.writeErrCh
        /\ kk.continueCh = k.continueCh /\ kk.rl = k.rl /\ kk.idle = k.idle /\ kk.reqch = k.reqch
        /\ kk.alive = k.alive /\ kk.closed = k.closed
    BY <1>1, <1>4 DEF ConnType
  <2>. HIDE DEF kk
  <2>3. Unwritten(kk, net[c])
    BY <1>1, <2>1 DEF Unwritten, isBroken
  <2>. QED  BY <1>1, <1>2, <2>3, FrameStep DEF FrameAt, kk
<1>. QED  BY <1>3, <1>4 DEF writeLoopSelect

\* writeRequest up to the flush.
LEMMA WriteHeadFrame ==
  ASSUME Inv2, NEW c \in Conns, writeRequestHead(c), Calm PROVE FrameInv'
<1>. DEFINE k == conn[c]
            kk == conn'[c]
            nn == Sent(net[c], <<Head1(k.wr)>>)
<1>1. /\ conn \in [Conns -> ConnType] /\ net \in [Conns -> NetType] /\ k.wl = "head"
  BY DEF Inv2, Inv1, TypeOK, writeRequestHead
<1>2. /\ k \in ConnType /\ k.wr \in Reqs /\ ~k.idle /\ k.writech = NoReq /\ k.writeErrCh # "nil"
      /\ net[c] \in NetType /\ Framed(net[c]) /\ Unwritten(k, net[c])
  BY <1>1, AtWork
<1>3. OnlyAt(c) /\ net'[c] = nn /\ env' = env /\ mixed' = mixed
  BY <1>1 DEF writeRequestHead, OnlyAt
<1>4. Whole(net[c]) /\ hasBody(k.wr)
  BY <1>1, <1>2 DEF Unwritten
<1>5. Framed(nn) /\ HeadOnly(nn, k.wr)
  BY <1>2, <1>4, SendHeadFacts
<1>6. /\ kk.wl = "wait" /\ kk.wr = k.wr /\ kk.wrote = TRUE /\ kk.writech = k.writech
      /\ kk.writeErrCh = k.writeErrCh /\ kk.rl = k.rl /\ kk.idle = k.idle /\ kk.alive = k.alive
      /\ kk.continueCh = k.continueCh /\ kk.reqch = k.reqch
  BY <1>1, <1>2 DEF writeRequestHead, ConnType
<1>. HIDE DEF kk, nn
<1>. QED  BY <1>1, <1>2, <1>3, <1>4, <1>5, <1>6, WorkStep DEF kk

\* waitForContinue.
LEMMA ContinueFrame ==
  ASSUME Inv2, NEW c \in Conns, waitForContinue(c), Calm PROVE FrameInv'
<1>. DEFINE k == conn[c]
            kk == conn'[c]
<1>1. /\ conn \in [Conns -> ConnType] /\ net \in [Conns -> NetType] /\ k.wl = "wait"
  BY DEF Inv2, Inv1, TypeOK, waitForContinue
<1>2. /\ k \in ConnType /\ k.wr \in Reqs /\ ~k.idle /\ k.writech = NoReq /\ k.writeErrCh # "nil"
      /\ net[c] \in NetType /\ Framed(net[c]) /\ Unwritten(k, net[c])
  BY <1>1, AtWork
<1>3. OnlyAt(c) /\ net'[c] = net[c] /\ env' = env /\ mixed' = mixed
  BY <1>1 DEF waitForContinue, OnlyAt
<1>4. k.wrote /\ hasBody(k.wr) /\ HeadOnly(net[c], k.wr)
  BY <1>1, <1>2 DEF Unwritten
<1>6. /\ kk.wr = k.wr /\ kk.wrote = k.wrote /\ kk.writech = k.writech
      /\ kk.writeErrCh = k.writeErrCh /\ kk.rl = k.rl /\ kk.idle = k.idle /\ kk.alive = k.alive
      /\ kk.continueCh = k.continueCh /\ kk.reqch = k.reqch /\ kk.closed = k.closed
      /\ kk.wl = "body" \/ (kk.wl = "report" /\ (k.continueCh = "closed" \/ isBroken(k)))
  <2>1. CASE conn' = [conn EXCEPT ![c].wl = "body"]
    BY <1>1, <1>2, <2>1 DEF ConnType
  <2>2. CASE /\ k.continueCh = "closed" \/ isBroken(k)
             /\ conn' = [conn EXCEPT ![c].wl = "report", ![c].werr = "nil"]
    BY <1>1, <1>2, <2>2 DEF ConnType
  <2>. QED  BY <2>1, <2>2 DEF waitForContinue
<1>. HIDE DEF kk
<1>7. isBroken(k) => isBroken(kk)
  BY <1>6 DEF isBroken
<1>. QED  BY <1>1, <1>2, <1>3, <1>4, <1>6, <1>7, WorkStep DEF kk

\* writeRequest to its end.
LEMMA WriteBodyFrame ==
  ASSUME Inv2, NEW c \in Conns, writeRequestBody(c), Calm PROVE FrameInv'
<1>. DEFINE k == conn[c]
            kk == conn'[c]
            head == IF k.wrote THEN <<>> ELSE <<Head1(k.wr)>>
            nn == Sent(net[c], IF hasBody(k.wr) THEN head \o <<Body1(k.wr)>> ELSE head)
<1>1. /\ conn \in [Conns -> ConnType] /\ net \in [Conns -> NetType] /\ k.wl = "body"
  BY DEF Inv2, Inv1, TypeOK, writeRequestBody
<1>2. /\ k \in ConnType /\ k.wr \in Reqs /\ ~k.idle /\ k.writech = NoReq /\ k.writeErrCh # "nil"
      /\ net[c] \in NetType /\ Framed(net[c]) /\ Unwritten(k, net[c])
  BY <1>1, AtWork
<1>3. OnlyAt(c) /\ net'[c] = nn /\ env' = env /\ mixed' = mixed
  BY <1>1 DEF writeRequestBody, OnlyAt
<1>4. Framed(nn) /\ Whole(nn)
  <2>1. CASE k.wrote
    <3>1. hasBody(k.wr) /\ HeadOnly(net[c], k.wr)
      BY <1>1, <1>2, <2>1 DEF Unwritten
    <3>2. nn = Sent(net[c], <<Body1(k.wr)>>)
      BY <2>1, <3>1, <1>2, ItemFacts
    <3>. HIDE DEF nn
    <3>. QED  BY <1>2, <3>1, <3>2, SendBodyFacts
  <2>2. CASE ~k.wrote /\ hasBody(k.wr)
    <3>1. Whole(net[c])
      BY <1>1, <1>2, <2>2 DEF Unwritten
    <3>2. nn = Sent(net[c], <<Head1(k.wr)>> \o <<Body1(k.wr)>>)
      BY <2>2
    <3>. HIDE DEF nn
    <3>. QED  BY <1>2, <2>2, <3>1, <3>2, SendBothFacts
  <2>3. CASE ~k.wrote /\ ~hasBody(k.wr)
    <3>1. Whole(net[c])
      BY <1>1, <1>2, <2>3 DEF Unwritten
    <3>2. nn = Sent(net[c], <<Head1(k.wr)>>)
      BY <2>3
    <3>. HIDE DEF nn
    <3>. QED  BY <1>2, <2>3, <3>1, <3>2, SendHeadFacts
  <2>. QED  BY <2>1, <2>2, <2>3
<1>6. /\ kk.wl = "report" /\ kk.wr = k.wr /\ kk.wrote = TRUE /\ kk.writech = k.writech
      /\ kk.writeErrCh = k.writeErrCh /\ kk.rl = k.rl /\ kk.idle = k.idle /\ kk.alive = k.alive
      /\ kk.continueCh = k.continueCh /\ kk.reqch = k.reqch
  BY <1>1, <1>2 DEF writeRequestBody, ConnType
<1>. HIDE DEF kk, nn
<1>. QED  BY <1>1, <1>2, <1>3, <1>4, <1>6, WorkStep DEF kk

\* writeRequest fails: a part of the head may be the last the server gets.
LEMMA WriteFailsFrame ==
  ASSUME Inv2, NEW c \in Conns, writeRequestFails(c), Calm PROVE FrameInv'
<1>. DEFINE k == conn[c]
            kk == conn'[c]
            nn == net'[c]
<1>1. /\ conn \in [Conns -> ConnType] /\ net \in [Conns -> NetType] /\ k.wl \in {"head", "body"}
  BY DEF Inv2, Inv1, TypeOK, writeRequestFails
<1>2. /\ k \in ConnType /\ k.wr \in Reqs /\ ~k.idle /\ k.writech = NoReq /\ k.writeErrCh # "nil"
      /\ net[c] \in NetType /\ Framed(net[c]) /\ Unwritten(k, net[c])
  BY <1>1, AtWork
<1>3. OnlyAt(c) /\ env' = env /\ mixed' = mixed
  BY <1>1 DEF writeRequestFails, OnlyAt
<1>4. PICK out \in BOOLEAN : /\ k.wrote => ~out
                             /\ conn' = [conn EXCEPT ![c].wl = "report", ![c].werr = "err", ![c].wrote = @ \/ out]
                             /\ net' = [net EXCEPT ![c] = Sent(@, IF out THEN <<Head1(k.wr)>> ELSE <<>>)]
  BY DEF writeRequestFails
<1>5. Framed(nn)
  <2>1. CASE out
    <3>1. nn = Sent(net[c], <<Head1(k.wr)>>) /\ Whole(net[c])
      BY <1>1, <1>2, <1>4, <2>1 DEF Unwritten
    <3>. QED  BY <1>2, <3>1, SendHeadFacts
  <2>2. CASE ~out
    <3>1. nn = Sent(net[c], <<>>)
      BY <1>1, <1>4, <2>2
    <3>. QED  BY <1>2, <3>1, SendNoneFacts
  <2>. QED  BY <2>1, <2>2
<1>6. /\ kk.wl = "report" /\ kk.werr = "err" /\ kk.writech = k.writech
      /\ kk.writeErrCh = k.writeErrCh /\ kk.rl = k.rl /\ kk.idle = k.idle /\ kk.alive = k.alive
      /\ kk.continueCh = k.continueCh /\ kk.reqch = k.reqch
  BY <1>1, <1>2, <1>4 DEF ConnType
<1>. HIDE DEF kk, nn
<1>. QED  BY <1>1, <1>2, <1>3, <1>5, <1>6, WorkStep DEF kk, nn

\* The result of the write.
LEMMA ReportFrame ==
  ASSUME Inv2, NEW c \in Conns, writeLoopReport(c) \/ writeLoopClose(c), Calm PROVE FrameInv'
<1>. DEFINE k == conn[c]
            kk == conn'[c]
<1>1. /\ conn \in [Conns -> ConnType] /\ net \in [Conns -> NetType] /\ k.wl \in {"report", "close"}
  BY DEF Inv2, Inv1, TypeOK, writeLoopReport, writeLoopClose
<1>2. /\ k \in ConnType /\ k.wr \in Reqs /\ ~k.idle /\ k.writech = NoReq /\ k.writeErrCh # "nil"
      /\ net[c] \in NetType /\ Framed(net[c]) /\ Unwritten(k, net[c])
  BY <1>1, AtWork
<1>3. OnlyAt(c) /\ net' = net /\ env' = env /\ mixed' = mixed
  BY <1>1 DEF writeLoopReport, writeLoopClose, OnlyAt
<1>6. /\ kk.wl \in {"idle", "close", "done"} /\ kk.writech = k.writech
      /\ kk.rl = k.rl /\ kk.idle = k.idle /\ kk.alive = k.alive
      /\ kk.continueCh = k.continueCh /\ kk.reqch = k.reqch
      /\ kk.writeErrCh = "nil" => k.wl = "report" /\ k.werr = "nil" /\ kk.closed = k.closed
  <2>1. CASE writeLoopReport(c)
    BY <1>1, <1>2, <2>1 DEF ConnType, writeLoopReport
  <2>2. CASE writeLoopClose(c)
    BY <1>1, <1>2, <2>2 DEF ConnType, writeLoopClose, closeLocked
  <2>. QED  BY <2>1, <2>2
<1>. HIDE DEF kk
<1>7. kk.writeErrCh = "nil" => Whole(net[c]) \/ kk.continueCh = "closed" \/ isBroken(kk)
  BY <1>2, <1>6 DEF Unwritten, isBroken
<1>. QED  BY <1>1, <1>2, <1>3, <1>6, <1>7, WorkStep DEF kk

-----------------------------------------------------------------------------
(* The steps of the callers and of the response body.                      *)

\* The steps that touch no connection.
LEMMA CallerFrame ==
  ASSUME Inv2, NEW r \in Reqs, Calm,
         \/ roundTripReject(r) \/ roundTripCached(r) \/ roundTripCachedEnd(r)
         \/ mapRoundTripError(r) \/ roundTripFailed(r) \/ Cancel(r)
  PROVE  FrameInv'
<1>1. conn' = conn /\ net' = net /\ env' = env /\ mixed' = mixed
  BY DEF roundTripReject, roundTripCached, roundTripCachedEnd, mapRoundTripError, roundTripFailed, Cancel
<1>. QED  BY <1>1, NoFrameStep

\* The select of persistConn.roundTrip, and what the user of a response tells
\* the read loop.
LEMMA SelectFrame ==
  ASSUME Inv2, NEW r \in Reqs, roundTripSelect(r) \/ bodyReadErr(r) \/ bodyClose(r), Calm
  PROVE  FrameInv'
<1>. DEFINE c == req[r].conn
            k == conn[c]
<1>1. /\ c \in Conns /\ k \in ConnType /\ conn \in [Conns -> ConnType]
      /\ net' = net /\ env' = env /\ mixed' = mixed
  BY AtSent DEF Inv2, Inv1, TypeOK, roundTripSelect, bodyReadErr, bodyClose
<1>2. CASE conn' = conn
  BY <1>1, <1>2, NoFrameStep
<1>3. ASSUME OnlyAt(c), Drift(k, conn'[c]) PROVE FrameInv'
  BY <1>1, <1>3, DriftStep
<1>4. ASSUME NEW reason \in CloseReasons, conn' = [conn EXCEPT ![c] = closeLocked(@, reason)]
      PROVE  FrameInv'
  <2>1. OnlyAt(c) /\ conn'[c] = closeLocked(k, reason)
    BY <1>1, <1>4 DEF OnlyAt
  <2>2. Drift(k, conn'[c])
    BY <1>1, <2>1 DEF Drift, ConnType, closeLocked, isBroken, CloseReasons
  <2>. QED  BY <1>3, <2>1, <2>2
<1>5. CASE conn' = [conn EXCEPT ![c] = cancelRequest(@)]
  <2>1. OnlyAt(c) /\ conn'[c] = cancelRequest(k)
    BY <1>1, <1>5 DEF OnlyAt
  <2>2. Drift(k, conn'[c])
    BY <1>1, <2>1 DEF Drift, ConnType, cancelRequest, closeLocked, isBroken
  <2>. QED  BY <1>3, <2>1, <2>2
<1>6. CASE handleResponse(c, r)
  <2>1. PICK x \in {"exit", "bodyWait", "peek"} : conn' = [conn EXCEPT ![c].rl = x]
    BY <1>6 DEF handleResponse
  <2>2. OnlyAt(c)
    BY <1>1, <2>1 DEF OnlyAt
  <2>3. Drift(k, conn'[c])
    BY <1>1, <2>1 DEF Drift, ConnType, isBroken
  <2>. QED  BY <1>3, <2>2, <2>3
<1>7. CASE Signal(c, "early")
  <2>1. OnlyAt(c)
    BY <1>1, <1>7 DEF OnlyAt, Signal
  <2>2. Drift(k, conn'[c])
    BY <1>1, <1>7 DEF Drift, ConnType, isBroken, Signal
  <2>. QED  BY <1>3, <2>1, <2>2
<1>8. CASE roundTripSelect(r)
  BY <1>2, <1>4, <1>5, <1>6, <1>8 DEF roundTripSelect, CloseReasons
<1>. QED  BY <1>7, <1>8 DEF bodyReadErr, bodyClose

\* The end of a response body.
LEMMA ReadEOFFrame ==
  ASSUME Inv2, NEW r \in Reqs, bodyReadEOF(r), Calm PROVE FrameInv'
<1>. DEFINE c == req[r].conn
            k == conn[c]
            kk == conn'[c]
            n == net[c]
            nn == net'[c]
<1>1. /\ c \in Conns /\ k \in ConnType /\ conn \in [Conns -> ConnType]
      /\ n \in NetType /\ net \in [Conns -> NetType] /\ env' = env /\ mixed' = mixed
  BY AtSent DEF Inv2, Inv1, TypeOK, bodyReadEOF
<1>2. OnlyAt(c) /\ nn = [n EXCEPT !.down = Tail(@)]
  BY <1>1 DEF bodyReadEOF, OnlyAt
<1>3. nn.up = n.up /\ nn.fin = n.fin /\ nn.srv = n.srv
  BY <1>1, <1>2 DEF NetType
<1>4. Drift(k, kk)
  <2>1. PICK eof : conn' = [conn EXCEPT ![c].sawEOF = @ \/ eof,
                                        ![c].waitForBodyRead = IF @ = "none" THEN "EOF" ELSE @]
    BY DEF bodyReadEOF
  <2>2. \E a, b : kk = [k EXCEPT !.sawEOF = a, !.waitForBodyRead = b]
    BY <1>1, <2>1
  <2>. HIDE DEF kk
  <2>. QED  BY <1>1, <2>2 DEF Drift, ConnType, isBroken
<1>5. Framed(n) /\ Unwritten(k, n) /\ Good(k)
  BY <1>1, AtConn DEF Inv2, FrameInv
<1>. HIDE DEF kk, nn
<1>6. Framed(nn) /\ (Whole(nn) <=> Whole(n)) /\ \A s \in Reqs : HeadOnly(nn, s) <=> HeadOnly(n, s)
  BY <1>3, <1>5 DEF Framed, Whole, HeadOnly
<1>7. k.wl \in {"wait", "body"} => k.wr \in Reqs
  BY <1>1, <1>5 DEF Good, WriteStages, ConnType, MaybeReq
<1>8. Unwritten(kk, nn)
  BY <1>4, <1>5, <1>6, <1>7 DEF Unwritten, Drift
<1>. QED  BY <1>1, <1>2, <1>6, <1>8, FrameStep DEF FrameAt, kk, nn

\* getConn hands out a connection on which everything was written.
LEMMA GetConnFrame ==
  ASSUME Inv2, NEW r \in Reqs, getConn(r), Inv1' PROVE FrameInv'
<1>1. /\ conn \in [Conns -> ConnType] /\ req \in [Reqs -> ReqType] /\ req[r].pc = "loop"
      /\ net' = net /\ env' = env /\ mixed' = mixed
  BY DEF Inv2, Inv1, TypeOK, getConn
<1>2. CASE req' = [req EXCEPT ![r] = Return(closeBody(@), "error")] /\ UNCHANGED conn
  <2>1. req'[r].pc = "done"
    BY <1>1, <1>2 DEF Return
  <2>2. ASSUME NEW d \in Conns, NEW s \in Reqs, Pre(d, s)' PROVE Pre(d, s)
    BY <1>1, <1>2, <2>1, <2>2 DEF Pre
  <2>3. ASSUME NEW d \in Conns PROVE Framed(net[d])' /\ Unwritten(conn[d], net[d])'
    <3>1. Framed(net[d]) /\ Unwritten(conn[d], net[d])
      BY DEF Inv2, FrameInv
    <3>. QED  BY ZenonT(40), <1>1, <1>2, <3>1 DEF Framed, Unwritten, Whole, HeadOnly, UpFollows, hasBody, isBroken
  <2>4. ASSUME NEW d \in Conns, NEW s \in Reqs, Pre(d, s)' PROVE Whole(net[d])'
    BY <1>1, <2>2, <2>4 DEF Inv2, FrameInv, Whole, hasBody
  <2>. QED  BY <1>1, <2>3, <2>4 DEF Inv2, FrameInv
<1>3. ASSUME NEW c \in Conns,
             conn[c].open => conn[c].idle,
             conn' = [conn EXCEPT ![c].open = TRUE, ![c].idle = FALSE],
             req' = [req EXCEPT ![r].pc = "enter", ![r].conn = c]
      PROVE  FrameInv'
  <2>1. Whole(net[c])
    <3>1. CASE conn[c].open
      BY <1>3, <3>1 DEF Inv2, FrameInv, Unwritten
    <3>2. CASE ~conn[c].open
      <4>1. net[c] = NewNet
        BY <3>2 DEF Inv2, Inv1, LaneInv, Unopened
      <4>. QED  BY <4>1 DEF Whole, NewNet
    <3>. QED  BY <3>1, <3>2
  <2>2. Drift(conn[c], conn'[c]) /\ \A d \in Conns : d # c => conn'[d] = conn[d]
    BY <1>1, <1>3 DEF Drift, ConnType, isBroken
  <2>3. ASSUME NEW d \in Conns PROVE Framed(net[d])' /\ Unwritten(conn[d], net[d])'
    <3>1. Framed(net[d]) /\ Unwritten(conn'[d], net[d])
      BY <2>2 DEF Inv2, FrameInv, Unwritten, Drift
    <3>. QED  BY <1>1, <3>1 DEF Framed, Unwritten, Whole, HeadOnly, UpFollows, hasBody, isBroken
  <2>4. ASSUME NEW d \in Conns, NEW s \in Reqs, Pre(d, s)' PROVE Whole(net[d])'
    <3>1. d = c \/ Pre(d, s)
      BY <1>1, <1>3, <2>4 DEF Pre, ReqType
    <3>2. Whole(net[d])
      BY <2>1, <3>1 DEF Inv2, FrameInv
    <3>. QED  BY <1>1, <3>2 DEF Whole, hasBody
  <2>. QED  BY <1>1, <2>3, <2>4 DEF Inv2, FrameInv
<1>. QED  BY <1>2, <1>3 DEF getConn

\* The first critical section, and the request goes to both loops.
LEMMA SendFrame ==
  ASSUME Inv2, NEW r \in Reqs, roundTripEnter(r) \/ roundTripSend(r) PROVE FrameInv'
<1>. DEFINE c == req[r].conn
            k == conn[c]
            kk == conn'[c]
<1>1. /\ conn \in [Conns -> ConnType] /\ req \in [Reqs -> ReqType] /\ req[r].pc \in {"enter", "send"}
      /\ net' = net /\ env' = env /\ mixed' = mixed
  BY DEF Inv2, Inv1, TypeOK, roundTripEnter, roundTripSend
<1>2. c \in Conns /\ Fit(k) /\ ~k.idle /\ k \in ConnType /\ r # NoReq
  BY <1>1, AtPre, ExchangeAssumption DEF Inv2
<1>3. Whole(net[c]) /\ Unwritten(k, net[c])
  BY <1>1, <1>2 DEF Inv2, FrameInv, Pre
<1>4. Unwritten(kk, net[c])
  <2>1. CASE roundTripEnter(r)
    <3>1. Drift(k, kk)
      BY <1>1, <1>2, <2>1 DEF roundTripEnter, Drift, ConnType, isBroken
    <3>. QED  BY <1>3, <3>1 DEF Unwritten, Drift
  <2>2. CASE roundTripSend(r)
    <3>1. /\ kk.writech = r /\ kk.reqch = r /\ kk.wrote = FALSE
          /\ kk.continueCh = (IF env.profile[r].expect /\ hasBody(r) THEN "empty" ELSE "nil")
          /\ kk.wl = k.wl /\ kk.wr = k.wr /\ kk.werr = k.werr /\ kk.writeErrCh = k.writeErrCh
          /\ kk.rl = k.rl /\ kk.idle = k.idle /\ kk.alive = k.alive /\ kk.closed = k.closed
      BY <1>1, <1>2, <2>2 DEF roundTripSend, ConnType
    <3>2. k.wl \in {"idle", "done"} /\ k.writeErrCh = "none" /\ k.rl \notin {"put", "putLocked"}
      BY <1>2 DEF Fit, Resting, Recycled, Ending
    <3>. HIDE DEF kk
    <3>. QED  BY <1>2, <1>3, <3>1, <3>2 DEF Unwritten, isBroken
  <2>. QED  BY <2>1, <2>2
<1>5. \A d \in Conns : d # c => conn'[d] = conn[d]
  BY <1>1 DEF roundTripEnter, roundTripSend
<1>6. ASSUME NEW d \in Conns PROVE Framed(net[d])' /\ Unwritten(conn[d], net[d])'
  <2>1. Framed(net[d]) /\ Unwritten(conn'[d], net[d])
    BY <1>4, <1>5 DEF Inv2, FrameInv
  <2>. QED  BY <1>1, <2>1 DEF Framed, Unwritten, Whole, HeadOnly, UpFollows, hasBody, isBroken
<1>7. ASSUME NEW d \in Conns, NEW s \in Reqs, Pre(d, s)' PROVE Whole(net[d])'
  <2>1. Pre(d, s)
    <3>1. CASE roundTripEnter(r)
      BY <1>1, <1>7, <3>1 DEF Pre, roundTripEnter, ReqType
    <3>2. CASE roundTripSend(r)
      BY <1>1, <1>7, <3>2 DEF Pre, roundTripSend, ReqType
    <3>. QED  BY <3>1, <3>2
  <2>2. Whole(net[d])
    BY <2>1 DEF Inv2, FrameInv
  <2>. QED  BY <1>1, <2>2 DEF Whole, hasBody
<1>. QED  BY <1>1, <1>6, <1>7 DEF Inv2, FrameInv

-----------------------------------------------------------------------------
(* The steps of the server.                                                *)

\* A step of the server that keeps the order of what it has not read.
LEMMA ServerStep ==
  ASSUME Inv2, NEW c \in Conns, conn' = conn, req' = req, env' = env, mixed' = mixed,
         \A d \in Conns : d # c => net'[d] = net[d],
         Framed(net'[c]), Whole(net[c]) => Whole(net'[c]),
         \A r \in Reqs : HeadOnly(net[c], r) => HeadOnly(net'[c], r)
  PROVE  FrameInv'
<1>1. Calm
  BY CalmReq DEF Inv2
<1>2. Unwritten(conn[c], net[c]) /\ Good(conn[c]) /\ conn[c] \in ConnType
  BY AtConn DEF Inv2, FrameInv
<1>3. conn[c].wl \in {"wait", "body"} => conn[c].wr \in Reqs
  BY <1>2 DEF Good, WriteStages, ConnType, MaybeReq
<1>4. Unwritten(conn[c], net'[c])
  BY <1>2, <1>3 DEF Unwritten
<1>. QED  BY <1>1, <1>4, FrameStep DEF FrameAt, OnlyAt

\* Taking the first item off.
LEMMA TailFacts ==
  ASSUME NEW S, NEW s \in Seq(S), s # <<>>
  PROVE  /\ Head(s) = s[1] /\ Head(s) \in S /\ Len(s) \in Nat /\ Len(s) > 0
         /\ Tail(s) \in Seq(S) /\ Len(Tail(s)) = Len(s) - 1
         /\ \A i \in 1 .. Len(s) - 1 : Tail(s)[i] = s[i + 1]
         /\ Tail(s) = <<>> <=> Len(s) = 1
<1>1. Len(s) \in Nat /\ Len(s) > 0
  OBVIOUS
<1>2. Head(s) = s[1] /\ Head(s) \in S /\ Tail(s) \in Seq(S) /\ Len(Tail(s)) = Len(s) - 1
  OBVIOUS
<1>3. \A i \in 1 .. Len(s) - 1 : Tail(s)[i] = s[i + 1]
  OBVIOUS
<1>4. Tail(s) = <<>> <=> Len(s) = 1
  BY <1>1, <1>2
<1>. QED  BY <1>1, <1>2, <1>3, <1>4

\* The server reads: what it reads belongs to what it has read.
LEMMA ServerReadFrame ==
  ASSUME Inv2, NEW c \in Conns, serverRead(c) PROVE FrameInv'
<1>. DEFINE n == net[c]
            nn == net'[c]
            m == Head(n.up)
<1>1. /\ n \in NetType /\ net \in [Conns -> NetType] /\ n.fin = "no" /\ n.up # <<>> /\ Framed(n)
      /\ mixed = FALSE
  BY AtConn DEF Inv2, Inv1, TypeOK, FrameInv, serverRead
<1>2. /\ n.up \in Seq(Item) /\ m = n.up[1] /\ m \in Item /\ Len(n.up) \in Nat /\ Len(n.up) > 0
      /\ Tail(n.up) \in Seq(Item) /\ Len(Tail(n.up)) = Len(n.up) - 1
      /\ \A i \in 1 .. Len(n.up) - 1 : Tail(n.up)[i] = n.up[i + 1]
      /\ (Tail(n.up) = <<>> <=> Len(n.up) = 1)
  <2>1. n.up \in Seq(Item)
    BY <1>1 DEF NetType
  <2>. QED  BY <1>1, <2>1, TailFacts
<1>3. m.of \in Reqs /\ m.part \in {"head", "body"}
  BY <1>2 DEF Item
<1>4. IF n.srv = NoReq THEN m.part = "head" ELSE m = Body1(n.srv)
  BY <1>1, <1>2 DEF Framed
<1>5. mixed' = mixed
  <2>1. n.srv = IF m.part = "head" THEN NoReq ELSE m.of
    BY <1>3, <1>4 DEF Body1
  <2>. QED  BY <1>1, <2>1 DEF serverRead
<1>6. /\ nn.up = Tail(n.up) /\ nn.fin = "no"
      /\ nn.srv = IF m.part = "head" /\ hasBody(m.of) THEN m.of ELSE NoReq
  <2>1. CASE m.part = "head"
    BY <1>1, <2>1 DEF serverRead, NetType
  <2>2. CASE m.part # "head"
    BY <1>1, <2>2 DEF serverRead, NetType
  <2>. QED  BY <2>1, <2>2
<1>7. \A i \in 1 .. Len(n.up) - 1 : UpFollows(n.up[i], n.up[i + 1])
  BY <1>1 DEF Framed
<1>8. hasBody(m.of) \in BOOLEAN
  BY <1>3, EnvFacts DEF Inv2, Inv1, TypeOK
<1>. HIDE DEF nn, m
<1>9. Framed(nn)
  <2>1. ASSUME NEW i \in 1 .. Len(nn.up) - 1 PROVE UpFollows(nn.up[i], nn.up[i + 1])
    <3>1. nn.up[i] = n.up[i + 1] /\ nn.up[i + 1] = n.up[i + 2] /\ i + 1 \in 1 .. Len(n.up) - 1
      BY <1>2, <1>6
    <3>. QED  BY SMTT(30), <1>2, <1>7, <3>1
  <2>2. nn.up # <<>> => IF nn.srv = NoReq THEN nn.up[1].part = "head" ELSE nn.up[1] = Body1(nn.srv)
    <3>1. CASE nn.up # <<>>
      <4>1. nn.up[1] = n.up[2] /\ UpFollows(m, n.up[2])
        BY <1>2, <1>6, <1>7, <3>1
      <4>2. m.of # NoReq
        BY <1>3, ExchangeAssumption
      <4>. QED  BY <1>3, <1>6, <1>8, <4>1, <4>2 DEF UpFollows
    <3>. QED  BY <3>1
  <2>3. nn.srv # NoReq => hasBody(nn.srv)
    BY <1>6
  <2>. QED  BY <2>1, <2>2, <2>3 DEF Framed
<1>10. nn.up # <<>> => nn.up[Len(nn.up)] = n.up[Len(n.up)]
  BY SMTT(30), <1>2, <1>6
<1>11. Whole(n) => Whole(nn)
  <2>1. CASE nn.up = <<>>
    <3>1. n.up[Len(n.up)] = m
      BY <1>2, <1>6, <2>1
    <3>. QED  BY <1>1, <1>3, <1>6, <2>1, <3>1 DEF Whole
  <2>2. CASE nn.up # <<>>
    BY <1>1, <1>10, <2>2 DEF Whole
  <2>. QED  BY <2>1, <2>2
<1>12. ASSUME NEW r \in Reqs, HeadOnly(n, r), hasBody(r) PROVE HeadOnly(nn, r)
  <2>1. CASE nn.up = <<>>
    <3>1. m = Head1(r)
      BY <1>1, <1>2, <1>6, <1>12, <2>1 DEF HeadOnly
    <3>2. m.part = "head" /\ m.of = r
      BY <3>1 DEF Head1
    <3>. QED  BY <1>6, <1>12, <2>1, <3>2 DEF HeadOnly
  <2>2. CASE nn.up # <<>>
    BY <1>1, <1>10, <1>12, <2>2 DEF HeadOnly
  <2>. QED  BY <2>1, <2>2
<1>13. Unwritten(conn[c], n) /\ Good(conn[c]) /\ conn[c] \in ConnType
  BY AtConn DEF Inv2, FrameInv
<1>14. conn[c].wl \in {"wait", "body"} => conn[c].wr \in Reqs
  BY <1>13 DEF Good, WriteStages, ConnType, MaybeReq
<1>15. Unwritten(conn[c], nn)
  BY <1>11, <1>12, <1>13, <1>14 DEF Unwritten
<1>16. OnlyAt(c) /\ conn' = conn /\ req' = req /\ env' = env
  BY <1>1 DEF serverRead, OnlyAt
<1>17. Calm
  BY <1>16, CalmReq DEF Inv2
<1>. QED  BY <1>5, <1>9, <1>11, <1>15, <1>16, <1>17, FrameStep DEF FrameAt, nn

\* What a response of the server changes.
LEMMA ServerReplyDoes ==
  ASSUME Inv1, NEW c \in Conns, serverReply(c)
  PROVE  LET n == net[c]
             nn == net'[c]
             r == Head(n.owed)
         IN
         /\ n.fin = "no" /\ n.owed # <<>> /\ ~isBroken(conn[c])
         /\ \A d \in Conns : d # c => net'[d] = net[d]
         /\ nn.up = n.up /\ nn.srv = n.srv /\ nn.owed = Tail(n.owed)
         /\ \E p \in env.replies :
               LET head == Response(r, p.code, p.close, p.body) IN
               \/ /\ nn.down = n.down \o <<head>> \o (IF p.body THEN <<Rest(r)>> ELSE <<>>)
                  /\ nn.fin = IF p.close THEN "eof" ELSE "no"
               \/ p.body /\ nn.down = n.down \o <<head>> /\ nn.fin = "eof"
<1>. DEFINE n == net[c]
            nn == net'[c]
            r == Head(n.owed)
<1>1. n \in NetType /\ net \in [Conns -> NetType] /\ n.fin = "no" /\ n.owed # <<>> /\ ~isBroken(conn[c])
  BY AtConn DEF Inv1, TypeOK, serverReply
<1>2. PICK p \in env.replies :
        LET head == <<Response(r, p.code, p.close, p.body)>>
            rest == IF p.body THEN <<Response(r, "body", FALSE, FALSE)>> ELSE <<>>
        IN
        \/ net' = [net EXCEPT ![c].owed = Tail(@), ![c].hinted = FALSE,
                              ![c].down = @ \o head \o rest,
                              ![c].fin = IF p.close THEN "eof" ELSE @]
        \/ /\ p.body /\ "close" \in env.faults
           /\ net' = [net EXCEPT ![c].owed = Tail(@), ![c].down = @ \o head, ![c].fin = "eof"]
  BY DEF serverReply
<1>. DEFINE head == <<Response(r, p.code, p.close, p.body)>>
            rest == IF p.body THEN <<Rest(r)>> ELSE <<>>
            d1 == n.down \o head \o rest
            d2 == n.down \o head
            o == Tail(n.owed)
            f == IF p.close THEN "eof" ELSE n.fin
<1>3. \/ net' = [net EXCEPT ![c] = [n EXCEPT !.owed = o, !.hinted = FALSE, !.down = d1, !.fin = f]]
      \/ p.body /\ net' = [net EXCEPT ![c] = [n EXCEPT !.owed = o, !.down = d2, !.fin = "eof"]]
  BY <1>2 DEF Rest
<1>4. f = IF p.close THEN "eof" ELSE "no"
  BY <1>1
<1>. HIDE DEF d1, d2, o, f
<1>5. /\ \A d \in Conns : d # c => net'[d] = net[d]
      /\ nn.up = n.up /\ nn.srv = n.srv /\ nn.owed = o
      /\ (nn.down = d1 /\ nn.fin = f) \/ (p.body /\ nn.down = d2 /\ nn.fin = "eof")
  <2>1. CASE net' = [net EXCEPT ![c] = [n EXCEPT !.owed = o, !.hinted = FALSE, !.down = d1, !.fin = f]]
    BY <1>1, <2>1 DEF NetType
  <2>2. CASE p.body /\ net' = [net EXCEPT ![c] = [n EXCEPT !.owed = o, !.down = d2, !.fin = "eof"]]
    BY <1>1, <2>2 DEF NetType
  <2>. QED  BY <1>3, <2>1, <2>2
<1>. HIDE DEF nn
<1>6. /\ nn.owed = Tail(n.owed)
      /\ \/ /\ nn.down = n.down \o head \o rest /\ nn.fin = IF p.close THEN "eof" ELSE "no"
         \/ p.body /\ nn.down = n.down \o head /\ nn.fin = "eof"
  BY <1>4, <1>5 DEF o, d1, d2
<1>. QED  BY <1>1, <1>5, <1>6 DEF nn

\* The server writes or closes.
LEMMA ServerFrame ==
  ASSUME Inv2, NEW c \in Conns,
         serverReply(c) \/ serverHint(c) \/ serverTimeout(c) \/ serverClose(c)
  PROVE  FrameInv'
<1>. DEFINE n == net[c]
            nn == net'[c]
<1>1. n \in NetType /\ net \in [Conns -> NetType] /\ n.fin = "no" /\ Framed(n)
  BY AtConn DEF Inv2, Inv1, TypeOK, FrameInv, serverReply, serverHint, serverTimeout, serverClose
<1>2. /\ conn' = conn /\ req' = req /\ env' = env /\ mixed' = mixed
      /\ \A d \in Conns : d # c => net'[d] = net[d]
  BY <1>1 DEF serverReply, serverHint, serverTimeout, serverClose
<1>3. (nn.up = n.up /\ nn.srv = n.srv /\ nn.fin = "no") \/ nn.fin # "no"
  <2>1. CASE serverReply(c)
    BY <1>1, <2>1, ServerReplyDoes DEF Inv2
  <2>2. CASE serverHint(c)
    <3>1. PICK d : net' = [net EXCEPT ![c].hinted = TRUE, ![c].down = d]
      BY <2>2, Zenon DEF serverHint
    <3>. QED  BY <1>1, <3>1 DEF NetType
  <2>3. CASE serverTimeout(c)
    BY <1>1, <2>3 DEF serverTimeout, NetType
  <2>4. CASE serverClose(c)
    BY <1>1, <2>4 DEF serverClose, NetType
  <2>. QED  BY <2>1, <2>2, <2>3, <2>4
<1>. HIDE DEF nn
<1>4. Framed(nn) /\ (Whole(n) => Whole(nn)) /\ \A r \in Reqs : HeadOnly(n, r) => HeadOnly(nn, r)
  BY <1>1, <1>3 DEF Framed, Whole, HeadOnly
<1>. QED  BY <1>2, <1>4, ServerStep DEF nn

-----------------------------------------------------------------------------
(* No request inside another.                                              *)

\* At the start nothing was written.
LEMMA InitFrame == Init => FrameInv
BY DEF Init, FrameInv, Framed, Unwritten, Whole, NewNet, NewConn, NewReq, Pre

\* Every step keeps the bytes in order.
LEMMA NextFrame ==
  ASSUME Inv2, [Next]_vars PROVE Inv2'
<1>1. Inv1' /\ (Calm \/ Takes)
  BY NextLane DEF Inv2
<1>2. FrameInv'
  <2>1. CASE UNCHANGED vars
    <3>1. Calm
      BY <2>1, CalmReq DEF Inv2, vars
    <3>. QED  BY <2>1, <3>1, NoFrameStep DEF vars
  <2>2. CASE Takes
    BY <1>1, <2>2, GetConnFrame, SendFrame DEF Takes
  <2>3. CASE Calm /\ Next /\ ~Takes
    <3>1. ASSUME NEW r \in Reqs, Caller(r) \/ User(r) \/ Cancel(r) PROVE FrameInv'
      BY <2>3, <3>1, CallerFrame, SelectFrame, ReadEOFFrame DEF Caller, User, Takes
    <3>2. ASSUME NEW c \in Conns, writeLoop(c) PROVE FrameInv'
      BY <2>3, <3>2, WriteSelectFrame, WriteHeadFrame, ContinueFrame, WriteBodyFrame, WriteFailsFrame,
         ReportFrame DEF writeLoop
    <3>3. ASSUME NEW c \in Conns, readLoop(c) \/ closeConnIfStillIdle(c) PROVE FrameInv'
      BY <2>3, <3>3, PeekFrame, ExpectFrame, ReadResponseFrame, LoopFrame, WroteRequestFrame,
         PutCheckFrame, PutFrame DEF readLoop
    <3>4. ASSUME NEW c \in Conns, Server(c) PROVE FrameInv'
      BY <3>4, ServerReadFrame, ServerFrame DEF Server
    <3>. QED  BY <2>3, <3>1, <3>2, <3>3, <3>4 DEF Next
  <2>. QED  BY <1>1, <2>1, <2>2, <2>3
<1>. QED  BY <1>1, <1>2 DEF Inv2

\* The bytes of the requests stay in order in every state.
THEOREM Frames == Spec => []Inv2
<1>1. Init => Inv2
  BY InitLane, InitFrame DEF Inv2
<1>2. Inv2 /\ [Next]_vars => Inv2'
  BY NextFrame
<1>. QED  BY <1>1, <1>2, PTL DEF Spec

\* For any number of requests and connections: the server never reads the
\* bytes of one request inside another one, also when a request body was
\* skipped, a write failed half way, or the server answered before it had read
\* the body.
THEOREM NotMixed == Spec => []RequestsNotMixed
<1>1. Inv2 => RequestsNotMixed
  BY DEF Inv2, FrameInv, RequestsNotMixed
<1>. QED  BY <1>1, Frames, PTL
=============================================================================
