------------------------------ MODULE H3Stream ------------------------------
(***************************************************************************)
(* One HTTP/3 connection and the requests on it (internal/http3: conn.go,  *)
(* client.go, stream.go, state_tracking_stream.go, body.go): streams are   *)
(* opened while the server shuts down gracefully, and each request has its *)
(* caller, a goroutine that sends the body, one that watches the context,  *)
(* and a callback for the end of the send side.                            *)
(*                                                                         *)
(* QUIC is external: it delivers what the server sent on a stream in       *)
(* order, each side may give up its half, and all streams end with the     *)
(* connection.  What the server sends is a sequence of items: a frame      *)
(* header, a byte of a DATA frame, or the end of its half.  Stream IDs are *)
(* divided by 4.                                                           *)
(***************************************************************************)
EXTENDS Integers, Sequences, FiniteSets, FiniteSetsExt

CONSTANTS
    H3Calls,          \* requests
    StreamScenarios,  \* situations, see StreamScenario
    Max1xx,           \* max1xxResponses
    DatagramQueueLen  \* streamDatagramQueueLen

\* The header of a DATA frame, by the length it announces.
FrameLen == [data0 |-> 0, data1 |-> 1, data2 |-> 2, data3 |-> 3]

Invalid == -1   \* invalidStreamID, and a Content-Length that is not known

(* calls: the requests made; answers: what the server may send on a stream;*)
(* clen: Content-Length of the response; body: bytes of the request body   *)
(* or Invalid; ulen: its declared length; goAways: the IDs GOAWAY may      *)
(* carry; events: what may go wrong.                                       *)

VARIABLES
    henv,    \* the situation
    hconn,   \* the Conn: up, control (handleControlStream), next (QUIC's next
             \* stream), streams, lastStreamID, maxStreamID; cut (a history
             \* variable): requests in use when a graceful close was decided
    str,     \* str[r]: the request stream of r and the goroutines of r
    hcancel, \* requests whose context ended
    dgram    \* dgram[r]: queue, hasData and the caller of ReceiveDatagram

h3Vars == <<henv, hconn, str, hcancel, dgram>>

NewH3Stream ==
    [pc |-> "start", id |-> Invalid, send |-> FALSE, recv |-> "nil", snd |-> "open",
     hdr |-> FALSE, answer |-> <<>>, rest |-> <<>>, canceler |-> "none", sender |-> "none",
     sent |-> 0, reqDone |-> 0, once |-> FALSE, n1xx |-> 0, rd |-> "idle", remain |-> 0,
     trailer |-> FALSE, left |-> Invalid, violated |-> FALSE, got |-> 0, told |-> "nil"]

Init ==
    /\ henv \in StreamScenarios
    /\ hconn = [up |-> TRUE, control |-> "settings", next |-> 0, streams |-> {},
                lastStreamID |-> Invalid, maxStreamID |-> Invalid, cut |-> {}]
    /\ str = [r \in H3Calls |-> NewH3Stream]
    /\ hcancel = {}
    /\ dgram = [r \in H3Calls |-> [queue |-> 0, hasData |-> FALSE, at |-> "idle"]]

-----------------------------------------------------------------------------
(* stateTrackingStream.  x is a stream s with the connection k and the     *)
(* datagrams d of the stream, so that one step can do several of these.    *)

At(r) == [s |-> str[r], k |-> hconn, d |-> dgram[r]]
Becomes(r, x) ==
    /\ str' = [str EXCEPT ![r] = x.s]
    /\ hconn' = x.k
    /\ dgram' = [dgram EXCEPT ![r] = x.d]

Opened(r) == str[r].pc \notin {"start", "open", "unusable"}

\* Requests whose stream is registered and has an open side.
InUse == {r \in H3Calls : Opened(r) /\ str[r].pc # "register" /\ (~str[r].send \/ str[r].recv = "nil")}

\* Mutant: the first stream that is cleared after GOAWAY closes the connection.
clearStream_first(k, r) ==
    [k EXCEPT !.streams = @ \ {r}, !.up = @ /\ k.maxStreamID = Invalid,
              !.cut = IF k.maxStreamID # Invalid THEN @ \cup (InUse \ {r}) ELSE @]

clearStream(k, r) ==
    LET left    == k.streams \ {r}
        drained == k.maxStreamID # Invalid /\ left = {}
    IN [k EXCEPT !.streams = left, !.up = @ /\ ~drained,
                 !.cut = IF drained THEN @ \cup (InUse \ {r}) ELSE @]

closeSend(x, r) ==
    IF x.s.send THEN x
    ELSE [x EXCEPT !.s.send = TRUE,
                   !.k = IF x.s.recv # "nil" THEN clearStream(x.k, r) ELSE x.k]

closeReceive(x, r, e) ==
    IF x.s.recv # "nil" THEN x
    ELSE [x EXCEPT !.s.recv = e, !.k = IF x.s.send THEN clearStream(x.k, r) ELSE x.k,
                   !.d.hasData = TRUE]

CancelRead(x, r)  == closeReceive(x, r, "err")
CancelWrite(x, r) == [closeSend(x, r) EXCEPT !.s.snd = IF @ = "open" THEN "reset" ELSE @]
Close(x, r)       == [closeSend(x, r) EXCEPT !.s.snd = IF @ = "open" THEN "fin" ELSE @]
CancelBoth(x, r)  == CancelWrite(CancelRead(x, r), r)

Writable(r) == hconn.up /\ str[r].snd = "open"

\* What a Read of the QUIC stream would meet.
Status(r) ==
    LET s == str[r] IN
    CASE s.recv # "nil" -> s.recv
      [] s.recv = "nil" /\ ~hconn.up -> "err"
      [] s.recv = "nil" /\ hconn.up /\ s.rest = <<>> -> "wait"
      [] OTHER -> CASE Head(s.rest) = "fin" -> "EOF" [] Head(s.rest) = "reset" -> "err"
                    [] OTHER -> "item"

\* The callback of the send side's context: Close, CancelWrite, STOP_SENDING or
\* the end of the connection.
afterFunc(r) ==
    /\ Opened(r) /\ ~str[r].send /\ ~Writable(r)
    /\ Becomes(r, closeSend(At(r), r))
    /\ UNCHANGED <<henv, hcancel>>

-----------------------------------------------------------------------------
(* ClientConn.roundTrip and Conn.openRequestStream.                        *)

checkGoAway(r) ==
    LET next == IF hconn.lastStreamID = Invalid THEN 0 ELSE hconn.lastStreamID + 1
        max  == hconn.maxStreamID
    IN /\ str[r].pc = "start" /\ r \in henv.calls
       /\ str' = [str EXCEPT ![r].pc = IF max # Invalid /\ next >= max THEN "unusable" ELSE "open"]
       /\ UNCHANGED <<henv, hconn, hcancel, dgram>>

OpenStreamSync(r) ==
    /\ str[r].pc = "open"
    /\ IF hconn.up /\ r \notin hcancel
       THEN /\ str' = [str EXCEPT ![r].pc = "register", ![r].id = hconn.next]
            /\ hconn' = [hconn EXCEPT !.next = @ + 1]
       ELSE /\ str' = [str EXCEPT ![r].pc = "unusable"]
            /\ UNCHANGED hconn
    /\ UNCHANGED <<henv, hcancel, dgram>>

register(r) ==
    /\ str[r].pc = "register"
    /\ hconn' = [hconn EXCEPT !.streams = @ \cup {r}, !.lastStreamID = str[r].id]
    /\ str' = [str EXCEPT ![r].pc = "header", ![r].canceler = "run"]
    /\ UNCHANGED <<henv, hcancel, dgram>>

\* doRequest: the header is written, refused by the encoder ("invalid"), or
\* the write fails; in each case the response is read next.
sendRequestHeader(r) ==
    /\ str[r].pc = "header"
    /\ \/ /\ Writable(r) /\ "invalid" \notin henv.events
          /\ str' = [str EXCEPT ![r].hdr = TRUE,
                                ![r].pc = IF henv.body = Invalid THEN "finish" ELSE "response",
                                ![r].sender = IF henv.body = Invalid THEN "none" ELSE "send"]
          /\ UNCHANGED <<hconn, dgram>>
       \/ ~Writable(r) /\ Becomes(r, [closeSend(At(r), r) EXCEPT !.s.pc = "response"])
       \/ /\ "invalid" \in henv.events
          /\ str' = [str EXCEPT ![r].pc = "response"]
          /\ UNCHANGED <<hconn, dgram>>
    /\ UNCHANGED <<henv, hcancel>>

finish(r) ==
    /\ str[r].pc = "finish"
    /\ Becomes(r, [Close(At(r), r) EXCEPT !.s.pc = "response"])
    /\ UNCHANGED <<henv, hcancel>>

\* The goroutine that watches the context of the request.
canceler(r) ==
    /\ \/ /\ str[r].canceler = "run" /\ r \in hcancel
          /\ Becomes(r, [CancelWrite(At(r), r) EXCEPT !.s.canceler = "cancelRead"])
       \/ /\ str[r].canceler = "cancelRead"
          /\ Becomes(r, [CancelRead(At(r), r) EXCEPT !.s.canceler = "done"])
       \/ /\ str[r].canceler = "run" /\ str[r].reqDone > 0
          /\ str' = [str EXCEPT ![r].canceler = "done"]
          /\ UNCHANGED <<hconn, dgram>>
    /\ UNCHANGED <<henv, hcancel>>

\* A Read of the request body that fails, through cancelingReader.
cancelingReader(x, r) == CancelWrite(x, r)

\* sendRequestBody: one buffer, a body that breaks or is longer than declared,
\* the end; then Close.
sendRequestBody(r) ==
    LET s == str[r]
        full == henv.ulen # Invalid /\ s.sent = henv.ulen
    IN /\ \/ /\ s.sender = "send" /\ s.sent < henv.body /\ ~full
             /\ IF Writable(r) THEN Becomes(r, [At(r) EXCEPT !.s.sent = @ + 1])
                ELSE Becomes(r, [closeSend(At(r), r) EXCEPT !.s.sender = "close"])
          \/ /\ s.sender = "send" /\ "bodyRead" \in henv.events
             /\ Becomes(r, [cancelingReader(At(r), r) EXCEPT !.s.sender = "close"])
          \/ /\ s.sender = "send" /\ full /\ s.sent < henv.body
             /\ Becomes(r, [CancelWrite(At(r), r) EXCEPT !.s.sender = "close"])
          \/ /\ s.sender = "send" /\ s.sent = henv.body
             /\ Becomes(r, [At(r) EXCEPT !.s.sender = "close"])
          \/ /\ s.sender = "close"
             /\ Becomes(r, [Close(At(r), r) EXCEPT !.s.sender = "done"])
       /\ UNCHANGED <<henv, hcancel>>

\* frameParser.ParseNext has the next frame header.
Next1(x) == [x EXCEPT !.s.rest = Tail(@)]

\* RequestStream.ReadResponse in the loop of doRequest.  "bad" is a HEADERS
\* frame that is too large, cut or invalid.  With AutoDecompression ("auto")
\* the response has no body.
ReadResponse(r) ==
    LET s == str[r]  st == Status(r)  x == At(r)  fail(y) == [y EXCEPT !.s.pc = "failing"] IN
    /\ s.pc = "response" /\ st # "wait"
    /\ IF st # "item" THEN Becomes(r, fail(CancelBoth(closeReceive(x, r, st), r)))
       ELSE \/ Head(s.rest) = "skip" /\ Becomes(r, Next1(x))
            \/ /\ Head(s.rest) = "info"
               /\ LET y == [Next1(x) EXCEPT !.s.n1xx = @ + 1] IN
                  Becomes(r, IF s.n1xx < Max1xx THEN y ELSE fail(CancelBoth(y, r)))
            \/ /\ Head(s.rest) = "headers"
               /\ Becomes(r, [Next1(x) EXCEPT !.s.left = henv.clen,
                                        !.s.pc = IF "auto" \in henv.events THEN "noBody" ELSE "body"])
            \/ Head(s.rest) = "bad" /\ Becomes(r, fail(CancelBoth(Next1(x), r)))
            \/ /\ Head(s.rest) \in {"settings"} \cup DOMAIN FrameLen
               /\ Becomes(r, fail([Next1(x) EXCEPT !.k.up = FALSE]))
            \/ Head(s.rest) = "reserved"
               /\ Becomes(r, fail(CancelBoth([Next1(x) EXCEPT !.k.up = FALSE], r)))
    /\ UNCHANGED <<henv, hcancel>>

\* roundTrip after an error: close(reqDone), <-done.
roundTripFails(r) ==
    /\ \/ /\ str[r].pc = "failing"
          /\ str' = [str EXCEPT ![r].reqDone = @ + 1, ![r].pc = "await"]
       \/ /\ str[r].pc = "await" /\ str[r].canceler = "done"
          /\ str' = [str EXCEPT ![r].pc = "failed"]
    /\ UNCHANGED <<henv, hconn, hcancel, dgram>>

-----------------------------------------------------------------------------
(* The response body: hijackableBody over body over Stream.                *)

requestDone(x) == IF x.s.once THEN x
                  ELSE [x EXCEPT !.s.once = TRUE, !.s.reqDone = @ + 1]

\* Read returns the error e.
ReadEnds(x, e) == requestDone([x EXCEPT !.s.told = e, !.s.rd = "idle"])

tooMuch(s) == s.left # Invalid /\ (s.left < 0 \/ (s.left = 0 /\ s.remain > 0))

\* Mutant: Content-Length does not limit what a Read may take.
readable_frame(s) == s.remain

\* How much a Read may take of a DATA frame.
readable(s) == IF s.left = Invalid THEN s.remain ELSE Min({s.left, s.remain})

\* checkContentLengthViolation once it is violated.
tooMuchData(x, r) ==
    ReadEnds([(IF x.s.violated THEN x ELSE CancelBoth(x, r)) EXCEPT !.s.violated = TRUE], "tooMuch")

bodyRead(r) ==
    LET s == str[r] IN
    /\ s.pc = "body" /\ s.rd = "idle" /\ s.told = "nil"
    /\ Becomes(r, IF tooMuch(s) THEN tooMuchData(At(r), r)
                  ELSE [At(r) EXCEPT !.s.rd = IF s.remain = 0 THEN "parse" ELSE "data"])
    /\ UNCHANGED <<henv, hcancel>>

\* Stream.Read between frames.
streamParse(r) ==
    LET s == str[r]  st == Status(r)  x == At(r) IN
    /\ s.rd = "parse" /\ st # "wait"
    /\ IF st # "item" THEN Becomes(r, ReadEnds(closeReceive(x, r, st), st))
       ELSE \/ Head(s.rest) = "skip" /\ Becomes(r, Next1(x))
            \/ /\ Head(s.rest) \in DOMAIN FrameLen
               /\ Becomes(r, IF s.trailer THEN ReadEnds(Next1(x), "err")
                             ELSE [Next1(x) EXCEPT !.s.remain = FrameLen[Head(s.rest)], !.s.rd = "data"])
            \/ /\ Head(s.rest) = "headers"
               /\ Becomes(r, IF s.trailer THEN ReadEnds(Next1(x), "err")
                             ELSE [Next1(x) EXCEPT !.s.trailer = TRUE, !.s.rd = "idle"])
            \/ /\ Head(s.rest) \in {"info", "bad"}   \* not a trailer section
               /\ Becomes(r, ReadEnds([Next1(x) EXCEPT !.s.trailer = TRUE], "err"))
            \/ /\ Head(s.rest) \in {"settings", "reserved"}
               /\ Becomes(r, ReadEnds([Next1(x) EXCEPT !.k.up = FALSE], "err"))
    /\ UNCHANGED <<henv, hcancel>>

\* Stream.Read inside a DATA frame: some of the bytes that are there, at most
\* what the frame and Content-Length have left; an empty buffer reads nothing.
streamRead(r) ==
    LET s == str[r]  st == Status(r)  x == At(r)
        isByte(i) == Len(s.rest) >= i /\ s.rest[i] = "byte"
        read(n) == [x EXCEPT !.s.rest = SubSeq(@, n + 1, Len(@)), !.s.remain = @ - n,
                             !.s.left = IF @ = Invalid THEN @ ELSE @ - n, !.s.rd = "idle",
                             !.s.got = @ + n]
        checked(y) == IF tooMuch(y.s) THEN tooMuchData(y, r) ELSE y
    IN /\ s.rd = "data"
       /\ IF readable(s) = 0 THEN Becomes(r, checked(read(0)))
          ELSE IF st \in {"EOF", "err"} THEN Becomes(r, ReadEnds(closeReceive(x, r, st), st))
          ELSE \E n \in 1 .. readable(s) :
                 (\A i \in 1 .. n : isByte(i)) /\ Becomes(r, checked(read(n)))
       /\ UNCHANGED <<henv, hcancel>>

\* hijackableBody.Close, also while another goroutine is in Read.
bodyClose(r) ==
    /\ str[r].pc = "body" /\ "close" \in henv.events
    /\ Becomes(r, [requestDone(CancelRead(At(r), r)) EXCEPT !.s.pc = "closed"])
    /\ UNCHANGED <<henv, hcancel>>

\* ReceiveDatagram, called once at a time, and receiveDatagrams.
ReceiveDatagram(r) ==
    LET d == dgram[r] IN
    /\ "datagram" \in henv.events /\ Opened(r)
    /\ \/ d.at = "idle" /\ dgram' = [dgram EXCEPT ![r].at = "check"]
       \/ d.at = "check" /\ d.queue > 0
          /\ dgram' = [dgram EXCEPT ![r].queue = @ - 1, ![r].at = "idle"]
       \/ d.at = "check" /\ d.queue = 0
          /\ dgram' = [dgram EXCEPT ![r].at = IF str[r].recv # "nil" THEN "ended" ELSE "wait"]
       \/ d.at = "wait" /\ r \in hcancel /\ dgram' = [dgram EXCEPT ![r].at = "ended"]
       \/ d.at = "wait" /\ d.hasData
          /\ dgram' = [dgram EXCEPT ![r].hasData = FALSE, ![r].at = "check"]
    /\ UNCHANGED <<henv, hconn, str, hcancel>>

enqueueDatagram(r) ==
    /\ "datagram" \in henv.events /\ hconn.up /\ hconn.control # "settings"
    /\ r \in hconn.streams /\ str[r].recv = "nil" /\ dgram[r].queue < DatagramQueueLen
    /\ dgram' = [dgram EXCEPT ![r].queue = @ + 1, ![r].hasData = TRUE]
    /\ UNCHANGED <<henv, hconn, str, hcancel>>

-----------------------------------------------------------------------------
(* handleControlStream, and the server.                                    *)

handleSettings ==
    /\ hconn.control = "settings" /\ hconn.up
    /\ hconn' = [hconn EXCEPT !.control = "goAway"]
    /\ UNCHANGED <<henv, str, hcancel, dgram>>

\* The control stream ends or breaks the rules, or the server opens a stream
\* it must not open.
controlFails ==
    /\ "control" \in henv.events /\ hconn.up /\ hconn.control # "closing"
    /\ hconn' = [hconn EXCEPT !.up = FALSE, !.control = "done"]
    /\ UNCHANGED <<henv, str, hcancel, dgram>>

goAwayRefused(id) == hconn.maxStreamID # Invalid /\ id > hconn.maxStreamID

handleGoAway(id) ==
    /\ hconn.control = "goAway" /\ hconn.up /\ id \in henv.goAways
    /\ hconn' = IF goAwayRefused(id) THEN [hconn EXCEPT !.up = FALSE, !.control = "done"]
                ELSE [hconn EXCEPT !.maxStreamID = id,
                                   !.control = IF hconn.streams = {} THEN "closing" ELSE @,
                                   !.cut = IF hconn.streams = {} THEN @ \cup InUse ELSE @]
    /\ UNCHANGED <<henv, str, hcancel, dgram>>

goAwayClose ==
    /\ hconn.control = "closing"
    /\ hconn' = [hconn EXCEPT !.up = FALSE, !.control = "done"]
    /\ UNCHANGED <<henv, str, hcancel, dgram>>

serverAnswers(r) ==
    /\ str[r].hdr /\ str[r].answer = <<>> /\ hconn.up
    /\ \E a \in henv.answers : str' = [str EXCEPT ![r].answer = a, ![r].rest = a]
    /\ UNCHANGED <<henv, hconn, hcancel, dgram>>

serverResets(r) ==
    /\ "reset" \in henv.events /\ str[r].hdr /\ hconn.up
    /\ str' = [str EXCEPT ![r].rest = <<"reset">>, ![r].answer = <<"reset">>]
    /\ str[r].rest # <<"reset">> /\ str[r].recv # "EOF"
    /\ UNCHANGED <<henv, hconn, hcancel, dgram>>

serverStops(r) ==
    /\ "stop" \in henv.events /\ Opened(r) /\ Writable(r)
    /\ str' = [str EXCEPT ![r].snd = "reset"]
    /\ UNCHANGED <<henv, hconn, hcancel, dgram>>

connLost ==
    /\ "lost" \in henv.events /\ hconn.up
    /\ hconn' = [hconn EXCEPT !.up = FALSE]
    /\ UNCHANGED <<henv, str, hcancel, dgram>>

cancel(r) ==
    /\ "cancel" \in henv.events /\ r \in henv.calls \ hcancel
    /\ hcancel' = hcancel \cup {r}
    /\ UNCHANGED <<henv, hconn, str, dgram>>

-----------------------------------------------------------------------------
H3Caller(r) ==
    \/ checkGoAway(r) \/ OpenStreamSync(r) \/ register(r) \/ sendRequestHeader(r) \/ finish(r)
    \/ ReadResponse(r) \/ roundTripFails(r)

Next ==
    \/ \E r \in H3Calls :
         \/ H3Caller(r) \/ afterFunc(r) \/ canceler(r) \/ sendRequestBody(r)
         \/ bodyRead(r) \/ streamParse(r) \/ streamRead(r) \/ bodyClose(r)
         \/ ReceiveDatagram(r) \/ enqueueDatagram(r)
         \/ serverAnswers(r) \/ serverResets(r) \/ serverStops(r) \/ cancel(r)
    \/ \E id \in henv.goAways : handleGoAway(id)
    \/ handleSettings \/ controlFails \/ goAwayClose \/ connLost

Spec == Init /\ [][Next]_h3Vars

-----------------------------------------------------------------------------
(* Properties                                                              *)

Count(s, e) == Cardinality({i \in 1 .. Len(s) : s[i] = e})

\* The caller reads the response body and nothing else, never more than its
\* Content-Length, and io.EOF comes only when the server ended the stream,
\* every byte it sent was read and its trailers were parsed, however
\* cancellation, Close, resets and the end of the connection are interleaved.
\* reqDone is closed once (closing it again would panic).
ResponseFaithful ==
    \A r \in henv.calls :
       LET s == str[r] IN
       /\ henv.clen # Invalid => s.got <= henv.clen
       /\ s.told = "EOF" => /\ s.answer[Len(s.answer)] = "fin"
                            /\ s.got = Count(s.answer, "byte")
                            /\ s.trailer = (Count(s.answer, "headers") > 1)
       /\ s.reqDone <= 1

\* A request that broke off does not look complete to the server: the send
\* side is finished only after the header and the whole body, and never
\* carries more than the declared length.
UploadHonest ==
    \A r \in henv.calls :
       LET s == str[r] IN
       /\ s.snd = "fin" => s.hdr /\ (henv.body # Invalid => s.sent = henv.body)
       /\ henv.ulen # Invalid => s.sent <= henv.ulen

\* c.streams is exactly the registered streams with an open side, however their
\* sides end and even if one ended before the stream was registered; a graceful
\* shutdown is decided, by GOAWAY or by the stream cleared last, when none of
\* them is left, and not before; and who waits for a datagram is woken by one
\* and by the end.  A request that has opened its stream and not registered it
\* yet, or registers it between the decision of handleGoAway and its close, is
\* not counted: the connection is closed under it.
StreamsTracked ==
    /\ \A r \in henv.calls :
          /\ r \in hconn.streams <=> r \in InUse
          /\ dgram[r].at = "wait" /\ (dgram[r].queue > 0 \/ str[r].recv # "nil") => dgram[r].hasData
    /\ hconn.maxStreamID # Invalid /\ hconn.streams = {} /\ hconn.control # "closing" => ~hconn.up
    /\ hconn.cut = {}

\* RoundTrip of r has returned, and no Read of its body waits.
Returned(r) == str[r].pc \in {"unusable", "failed", "body", "noBody", "closed"} /\ str[r].rd = "idle"

\* RoundTrip: a request whose context ended returns, a Read of its response
\* body too, and nobody watches the context any more.
CanceledReturned == \A r \in hcancel : Returned(r) /\ str[r].canceler \in {"none", "done"}

\* The end of the connection releases every RoundTrip and every Read.
LossReleased == ~hconn.up => \A r \in henv.calls : Returned(r)
=============================================================================
