--------------------------- MODULE TransferWriter ---------------------------
(***************************************************************************)
(* How a request body is framed on an HTTP/1 connection: the first half of *)
(* transfer.go (newTransferWriter, probeRequestBody, writeHeader,          *)
(* writeBody) and the chunked writer of internal/chunked.go.               *)
(*                                                                         *)
(* For a method that usually has no body and a body of unknown length, one *)
(* byte is read in a goroutine of its own to see whether there is a body   *)
(* at all; after 200 ms the writer goes on and the byte joins later.  A    *)
(* body is the bytes 1, 2, ...; a chunk is the sequence of its bytes, and  *)
(* the empty chunk is the last one.                                        *)
(***************************************************************************)
EXTENDS Integers, Sequences, FiniteSets

CONSTANTS WriteRequests,  \* [method, cl, te, body, trailer]; see newTransferWriter
          MaxWrite        \* most bytes one Read of a body yields

VARIABLES
  wreq,        \* the request
  tpc,         \* "new", "probe", "header", "body", "tail", "done", "failed"
  tenc,        \* t.TransferEncoding: "none", "chunked", "identity"
  tcl,         \* t.ContentLength
  tbody,       \* t.Body: a sequence of "byte", "async", "rest", "err"
  nextByte,    \* the byte the user's body yields next
  pipech,      \* ByteReadCh: <<>>, <<"reading">>, or <<n, err>>
  bodyClosed,  \* BodyCloser.Close was called
  ncopy,       \* bytes copied from the body
  onWire,      \* the framed request: [head, chunks, end]
  werr         \* writeBody returned an error

writerVars == <<wreq, tpc, tenc, tcl, tbody, nextByte, pipech, bodyClosed, ncopy, onWire, werr>>

UsuallyLacksBody == {"GET", "HEAD", "DELETE", "OPTIONS"}

\* body = [len, fails]: after len bytes it ends, or breaks.
NoReqBody == [len |-> -1, fails |-> FALSE]
hasBody == wreq.body.len >= 0

outgoingLength == IF ~hasBody THEN 0 ELSE IF wreq.cl # 0 THEN wreq.cl ELSE -1

\* One Read of the user's body of at most m bytes: the bytes it yields and
\* "EOF", "err" or "nil".  Data and the end may come together.
BodyRead(m) ==
  LET left == wreq.body.len - nextByte + 1
      end == IF wreq.body.fails THEN "err" ELSE "EOF"
      fits(n, e) == /\ n <= left
                    /\ e # "nil" => n = left /\ e = end
                    /\ n = 0 => e # "nil"
  IN {t \in (0..m) \X {"nil", "EOF", "err"} : fits(t[1], t[2])}

Upto(n) == [i \in 1..n |-> nextByte + i - 1]

----------------------------------------------------------------------------
\* shouldSendChunkedRequestBody, up to the probe.
newTransferWriter ==
  /\ tpc = "new"
  /\ LET unknown == outgoingLength < 0 /\ wreq.te = "none"
         probe == unknown /\ wreq.method \in UsuallyLacksBody
         chunk == unknown /\ wreq.method # "CONNECT"
         enc == IF ~hasBody THEN "none" ELSE IF chunk THEN "chunked" ELSE wreq.te
     IN IF wreq.cl # 0 /\ ~hasBody
        THEN /\ tpc' = "failed" /\ UNCHANGED <<tenc, tcl, tbody, pipech>>
        ELSE /\ tenc' = enc
             /\ tcl' = IF enc = "chunked" THEN -1 ELSE outgoingLength
             /\ tbody' = IF hasBody THEN <<"rest">> ELSE <<>>
             /\ tpc' = IF probe THEN "probe" ELSE "header"
             /\ pipech' = IF probe THEN <<"reading">> ELSE <<>>
  /\ UNCHANGED <<wreq, nextByte, bodyClosed, ncopy, onWire, werr>>

\* The goroutine of probeRequestBody: its one byte, whenever it comes.
probeRead ==
  /\ pipech = <<"reading">>
  /\ \E r \in BodyRead(1) : pipech' = r /\ nextByte' = nextByte + r[1]
  /\ UNCHANGED <<wreq, tpc, tenc, tcl, tbody, bodyClosed, ncopy, onWire, werr>>

\* The probe answered within 200 ms.
probeAnswer ==
  /\ tpc = "probe" /\ Len(pipech) = 2
  /\ CASE pipech = <<0, "EOF">> ->
            tbody' = <<>> /\ tenc' = "none" /\ tcl' = 0
       [] pipech[1] = 1 ->
            /\ tbody' = <<"byte", IF pipech[2] = "nil" THEN "rest" ELSE pipech[2]>>
            /\ UNCHANGED <<tenc, tcl>>
       [] OTHER -> tbody' = <<pipech[2]>> /\ UNCHANGED <<tenc, tcl>>
  /\ tpc' = "header"
  /\ UNCHANGED <<wreq, nextByte, pipech, bodyClosed, ncopy, onWire, werr>>

\* Mutant: the byte the probe is reading is forgotten.
timedOutBody_rest == <<"rest">>

timedOutBody == <<"async", "rest">>

\* Too slow: the byte is waited for when the body is copied.
probeTimeout ==
  /\ tpc = "probe"
  /\ tbody' = timedOutBody
  /\ tpc' = "header"
  /\ UNCHANGED <<wreq, tenc, tcl, nextByte, pipech, bodyClosed, ncopy, onWire, werr>>

shouldSendContentLength ==
  /\ tenc # "chunked"
  /\ \/ tcl > 0
     \/ tcl = 0 /\ wreq.method \in {"POST", "PUT", "PATCH"}
     \/ tcl = 0 /\ tenc = "identity" /\ wreq.method \notin {"GET", "HEAD"}

writeHeader ==
  /\ tpc = "header"
  /\ onWire' = [onWire EXCEPT !.head = IF shouldSendContentLength THEN <<"len", tcl>>
                                   ELSE IF tenc = "chunked" THEN <<"chunked">>
                                   ELSE <<"none">>]
  /\ tpc' = "body"
  /\ UNCHANGED <<wreq, tenc, tcl, tbody, nextByte, pipech, bodyClosed, ncopy, werr>>

----------------------------------------------------------------------------
(* writeBody: the copy.  A Content-Length limits what reaches the wire;    *)
(* what is left of the body is read and dropped, to count it.              *)

\* chunkedWriter.Write, or the connection's writer.
\* Mutant: an empty write becomes a chunk.
Put_empty(bs) == Append(onWire.chunks, bs)

Put(bs) ==
  LET room == IF tenc # "chunked" /\ tcl >= 0 THEN tcl - ncopy ELSE Len(bs)
      fit == SubSeq(bs, 1, IF room < 0 THEN 0 ELSE IF room < Len(bs) THEN room
                           ELSE Len(bs))
  IN IF fit = <<>> THEN onWire.chunks ELSE Append(onWire.chunks, fit)

Copied(bs) == /\ onWire' = [onWire EXCEPT !.chunks = Put(bs)]
              /\ ncopy' = ncopy + Len(bs)

\* The deferred close of writeBody closes the body in every case.
Fail == tpc' = "failed" /\ werr' = TRUE /\ bodyClosed' = TRUE

copyStep ==
  /\ tpc = "body" /\ tbody # <<>>
  /\ LET s == Head(tbody)
     IN \/ /\ s = "byte"
           /\ Copied(<<1>>) /\ tbody' = Tail(tbody)
           /\ UNCHANGED <<nextByte, tpc, werr, bodyClosed, pipech>>
        \/ /\ s = "async" /\ Len(pipech) = 2      \* finishAsyncByteRead
           /\ Copied(IF pipech[1] = 1 THEN <<1>> ELSE <<>>)
           /\ IF pipech[2] = "err" THEN Fail /\ UNCHANGED tbody
              ELSE tbody' = Tail(tbody) /\ UNCHANGED <<tpc, werr, bodyClosed>>
           /\ UNCHANGED <<nextByte, pipech>>
        \/ /\ s = "rest"
           /\ \E r \in BodyRead(MaxWrite) \cup {<<0, "nil">>} :
                /\ Copied(Upto(r[1])) /\ nextByte' = nextByte + r[1]
                /\ CASE r[2] = "err" -> Fail /\ UNCHANGED tbody
                     [] r[2] = "EOF" -> tbody' = Tail(tbody) /\ UNCHANGED <<tpc, werr, bodyClosed>>
                     [] OTHER -> UNCHANGED <<tbody, tpc, werr, bodyClosed>>
           /\ UNCHANGED pipech
        \/ /\ s = "EOF" /\ tbody' = Tail(tbody)
           /\ UNCHANGED <<nextByte, onWire, ncopy, tpc, werr, bodyClosed, pipech>>
        \/ /\ s = "err" /\ Fail
           /\ UNCHANGED <<tbody, nextByte, onWire, ncopy, pipech>>
  /\ UNCHANGED <<wreq, tenc, tcl>>

\* chunkedWriter.Close writes the last chunk; then the body is closed.
copyDone ==
  /\ tpc = "body" /\ tbody = <<>>
  /\ onWire' = IF tenc = "chunked" THEN [onWire EXCEPT !.chunks = Append(@, <<>>)] ELSE onWire
  /\ bodyClosed' = hasBody
  /\ tpc' = "tail"
  /\ UNCHANGED <<wreq, tenc, tcl, tbody, nextByte, pipech, ncopy, werr>>

\* Mutant: a body that does not have the declared length is not an error.
lengthOK_any == TRUE

lengthOK == tcl = -1 \/ tcl = ncopy

writeTail ==
  /\ tpc = "tail"
  /\ IF ~lengthOK THEN tpc' = "failed" /\ werr' = TRUE /\ UNCHANGED onWire
     ELSE /\ tpc' = "done" /\ UNCHANGED werr
          /\ onWire' = IF tenc = "chunked" THEN [onWire EXCEPT !.end = TRUE] ELSE onWire
  /\ UNCHANGED <<wreq, tenc, tcl, tbody, nextByte, pipech, bodyClosed, ncopy>>

----------------------------------------------------------------------------
Init ==
  /\ wreq \in WriteRequests
  /\ tpc = "new" /\ tenc = "none" /\ tcl = 0 /\ tbody = <<>> /\ nextByte = 1
  /\ pipech = <<>> /\ bodyClosed = FALSE /\ ncopy = 0 /\ werr = FALSE
  /\ onWire = [head |-> <<"none">>, chunks |-> <<>>, end |-> FALSE]

Next == newTransferWriter \/ probeRead \/ probeAnswer \/ probeTimeout
          \/ writeHeader \/ copyStep \/ copyDone \/ writeTail

Spec == Init /\ [][Next]_writerVars

----------------------------------------------------------------------------
(* The server's view, from the rules of RFC 9112 section 6: a chunked body *)
(* ends with the first empty chunk and its closing line; another has the   *)
(* length the header says, or none.                                        *)

lasts == {i \in 1..Len(onWire.chunks) : onWire.chunks[i] = <<>>}
firstLast == CHOOSE i \in lasts : \A j \in lasts : i <= j
Sizes(k) == LET f[i \in 0..k] == IF i = 0 THEN 0 ELSE f[i - 1] + Len(onWire.chunks[i]) IN f[k]

ServerComplete ==
  CASE onWire.head[1] = "chunked" -> lasts # {} /\ onWire.end
    [] onWire.head[1] = "len" -> Sizes(Len(onWire.chunks)) >= onWire.head[2]
    [] OTHER -> TRUE

ServerLength ==
  CASE onWire.head[1] = "chunked" -> Sizes(firstLast - 1)
    [] onWire.head[1] = "len" -> onWire.head[2]
    [] OTHER -> 0

\* Bytes the server would take for the start of another request.
Spill == IF onWire.head[1] = "chunked" THEN Sizes(Len(onWire.chunks)) - Sizes(firstLast - 1)
         ELSE Sizes(Len(onWire.chunks)) - ServerLength

InOrder == LET all == onWire.chunks
           IN \A i \in 1..Len(all), k \in 1..MaxWrite :
                k <= Len(all[i]) => all[i][k] = Sizes(i - 1) + k

\* The connection's next request starts where this one ends: a request that
\* was written without an error is read by the server as exactly the bytes
\* of its body, in order and with nothing behind them, however slowly the
\* body comes and whatever the probe's timer did; a chunked request whose
\* body broke is never complete.  A body is always closed.  (CONNECT and an
\* explicit "identity" of unknown length ask for an unframed stream.)
RequestFramed ==
  LET framed == wreq.method # "CONNECT" /\ ~(tenc = "identity" /\ tcl = -1)
  IN /\ tpc = "done" /\ framed =>
          ServerComplete /\ ServerLength = wreq.body.len + (IF hasBody THEN 0 ELSE 1)
            /\ Spill = 0 /\ InOrder
     /\ werr /\ tenc = "chunked" => ~ServerComplete
     /\ tpc = "done" \/ werr => bodyClosed = hasBody
=============================================================================
