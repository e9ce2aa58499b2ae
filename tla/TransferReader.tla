--------------------------- MODULE TransferReader ---------------------------
(***************************************************************************)
(* How a response body is found and read on an HTTP/1 connection: the      *)
(* second half of transfer.go (readTransfer, fixLength, body) and the      *)
(* chunked reader of internal/chunked.go.                                  *)
(*                                                                         *)
(* The server sends a response whose framing follows its header, byte by   *)
(* byte, and may lose the connection or garble a chunk's end.  Bytes that  *)
(* have arrived are in the connection's buffer; a Read of the body is a    *)
(* loop that may wait for more of them at several places.  A byte is       *)
(* "x" (body), "cr", "lf", "tr" (a trailer field), "bad", "next" (of the   *)
(* next response) or a chunk size.  Chunk-size lines and trailers are well *)
(* formed.                                                                 *)
(***************************************************************************)
EXTENDS Integers, Sequences, FiniteSets

CONSTANTS ReadResponses,  \* the responses: see Body below
          ReadSizes,      \* lengths of the slices Read is called with
          TrailerRoom     \* capacity of the connection's buffer

VARIABLES
  rsp,     \* the response: header and what the server sends
  coming,  \* bytes on their way
  inbuf,   \* bytes in the bufio.Reader
  lost,    \* the connection has ended behind coming
  hdr,     \* readTransfer's result: [kind, n, close, trailer], or none yet
  call,    \* the Read or Close in progress: [op, room, n] or idle
  cr,      \* chunkedReader or LimitedReader: [n, checkEnd, err]
  bd,      \* body: [sawEOF, closed, hdr]
  given,   \* body bytes handed to the caller
  told     \* what the last Read or Close returned

readerVars == <<rsp, coming, inbuf, lost, hdr, call, cr, bd, given, told>>

Idle == [op |-> "idle", room |-> 0, n |-> 0]

Lim(a, b) == IF a < b THEN a ELSE b
Drop(k) == SubSeq(inbuf, k + 1, Len(inbuf))
Ended == lost /\ coming = <<>>       \* no byte will ever follow inbuf

----------------------------------------------------------------------------
(* The server.  rsp = [method, status, http10, te, cl, conn, trailer,      *)
(* chunks, bad]: cl the Content-Length fields, chunks the sizes it sends.  *)

Size(k) == <<"size", k>>
CR == <<"cr">>
LF == <<"lf">>
CRLF == <<CR, LF>>
nextMsg == <<"next">>
Xs(k) == [i \in 1..k |-> <<"x">>]

SentChunks ==
  LET f[i \in 0..Len(rsp.chunks)] ==
        IF i = 0 THEN <<>>
        ELSE f[i - 1] \o <<Size(rsp.chunks[i])>> \o CRLF \o Xs(rsp.chunks[i])
               \o IF rsp.bad = i THEN <<<<"bad">>, LF>> ELSE CRLF
  IN f[Len(rsp.chunks)] \o <<Size(0)>> \o CRLF
       \o (IF rsp.trailer THEN <<<<"tr">>>> \o CRLF ELSE <<>>) \o CRLF

Total == LET f[i \in 0..Len(rsp.chunks)] ==
               IF i = 0 THEN 0 ELSE f[i - 1] + rsp.chunks[i]
         IN f[Len(rsp.chunks)]

NoBodyStatus == rsp.status \in {100, 204, 304}

\* RFC 9112 section 6.3: what this response carries on the wire.
Body == CASE rsp.method = "HEAD" \/ NoBodyStatus -> <<>>
          [] rsp.te = "chunked" /\ ~rsp.http10 -> SentChunks
          [] OTHER -> Xs(Total)

\* The server keeps the connection open when the header delimits the body.
Persists ==
  /\ IF rsp.http10 THEN rsp.conn = "keep-alive" ELSE rsp.conn # "close"
  /\ rsp.method = "HEAD" \/ NoBodyStatus \/ rsp.cl # <<>> \/ (rsp.te = "chunked" /\ ~rsp.http10)

Arrive ==
  /\ coming # <<>> /\ Len(inbuf) < TrailerRoom
  /\ coming' = Tail(coming) /\ inbuf' = Append(inbuf, Head(coming))
  /\ UNCHANGED <<rsp, lost, hdr, call, cr, bd, given, told>>

\* The connection is lost with what has not arrived yet.
Lose ==
  /\ ~lost /\ rsp.cut /\ coming # <<>>
  /\ coming' = <<>> /\ lost' = TRUE
  /\ UNCHANGED <<rsp, inbuf, hdr, call, cr, bd, given, told>>

----------------------------------------------------------------------------
(* readTransfer                                                            *)

shouldClose == IF rsp.http10 THEN rsp.conn # "keep-alive" ELSE rsp.conn = "close"

Chunked == rsp.te = "chunked" /\ ~rsp.http10
badTE == rsp.te = "other" /\ ~rsp.http10

\* Equal duplicates count once; different or invalid values are refused.
badLength == \E i \in 1..Len(rsp.cl) : rsp.cl[i] # rsp.cl[1] \/ rsp.cl[i] < 0

\* Mutant: a Content-Length beside chunked encoding is used.
fixLength_length ==
  IF rsp.method = "HEAD" \/ NoBodyStatus THEN 0
  ELSE IF rsp.cl # <<>> THEN rsp.cl[1]
  ELSE -1

fixLength ==
  IF rsp.method = "HEAD" \/ NoBodyStatus THEN 0
  ELSE IF Chunked THEN -1
  ELSE IF rsp.cl # <<>> THEN rsp.cl[1]
  ELSE -1

readTransfer ==
  /\ hdr.kind = "unread"
  /\ LET n == fixLength
         close == shouldClose \/ (n = -1 /\ ~Chunked /\ ~NoBodyStatus)
         kind == IF badTE \/ badLength THEN "error"
                 ELSE IF Chunked /\ n = -1 THEN "chunked"
                 ELSE IF n = 0 THEN "none"
                 ELSE IF n > 0 THEN "limit"
                 ELSE IF close THEN "eof" ELSE "none"
     IN /\ hdr' = [kind |-> kind, n |-> n, close |-> close]
        /\ cr' = [cr EXCEPT !.n = IF kind = "limit" THEN n ELSE 0]
        /\ bd' = [sawEOF |-> kind = "none", closed |-> FALSE, hdr |-> kind = "chunked"]
  /\ UNCHANGED <<rsp, coming, inbuf, lost, call, given, told>>

----------------------------------------------------------------------------
(* body.Read and body.Close.  Close reads what is left, to find the end of *)
(* the message, unless the connection is to be closed anyway.              *)

Ready == hdr.kind \in {"chunked", "limit", "eof"} /\ call = Idle /\ ~bd.closed

\* The bodyEOFSignal around it asks no more after an error or EOF.
Read(room) ==
  /\ Ready /\ told = "nil"
  /\ call' = [op |-> "read", room |-> room, n |-> 0]
  /\ UNCHANGED <<rsp, coming, inbuf, lost, hdr, cr, bd, given, told>>

Close ==
  /\ Ready /\ rsp.closes
  /\ IF bd.sawEOF \/ (~bd.hdr /\ hdr.close)
     THEN /\ bd' = [bd EXCEPT !.closed = TRUE] /\ told' = "closed"
          /\ UNCHANGED call
     ELSE /\ call' = [op |-> "drain", room |-> 1000, n |-> 0]
          /\ UNCHANGED <<bd, told>>
  /\ UNCHANGED <<rsp, coming, inbuf, lost, hdr, cr, given>>

\* A Read returns n bytes and e; io.Copy of a drain goes on until e # nil.
Return(n, e) ==
  /\ given' = IF call.op = "read" THEN given + n ELSE given
  /\ IF call.op = "drain" /\ e = "nil"
     THEN call' = [call EXCEPT !.n = 0, !.room = 1000] /\ UNCHANGED told
     ELSE /\ call' = Idle
          /\ told' = IF call.op = "drain" /\ e = "EOF" THEN "closed" ELSE e

\* readLocked at the end of src: the trailer is still to be read.
AtEOF(e) ==
  /\ call' = [call EXCEPT !.op = IF @ = "read" THEN "trailer" ELSE "drainTrailer"]
  /\ cr' = [cr EXCEPT !.err = e]
  /\ UNCHANGED <<given, told, bd>>

----------------------------------------------------------------------------
(* chunkedReader.Read, one turn of its loop at a time                      *)

Working == call.op \in {"read", "drain"} /\ hdr.kind = "chunked"

Stop(e) == /\ cr' = [cr EXCEPT !.err = e]
           /\ Return(call.n, e)
           /\ bd' = [bd EXCEPT !.closed = (call.op = "drain")]

\* An error is kept: every later Read gets it again.
chunkSticky ==
  /\ Working /\ cr.err # "nil" /\ Return(call.n, cr.err)
  /\ bd' = [bd EXCEPT !.closed = (call.op = "drain")]
  /\ UNCHANGED <<rsp, coming, inbuf, lost, hdr, cr>>

\* Mutant: the end of a chunk is waited for with data in hand.
enoughForEnd_wait == FALSE

enoughForEnd == call.n > 0 /\ Len(inbuf) < 2

chunkEnd ==
  /\ Working /\ cr.err = "nil" /\ cr.checkEnd
  /\ \/ enoughForEnd /\ Return(call.n, "nil") /\ UNCHANGED <<inbuf, cr, bd>>
     \/ /\ ~enoughForEnd /\ Len(inbuf) >= 2
        /\ inbuf' = Drop(2)
        /\ IF SubSeq(inbuf, 1, 2) = CRLF
           THEN cr' = [cr EXCEPT !.checkEnd = FALSE] /\ UNCHANGED <<call, given, told, bd>>
           ELSE Stop("malformed")
     \/ /\ ~enoughForEnd /\ Len(inbuf) < 2 /\ Ended
        /\ inbuf' = <<>> /\ Stop("unexpected")
  /\ UNCHANGED <<rsp, coming, lost, hdr>>

\* A complete line is in the buffer.
chunkHeaderAvailable == \E i \in 1..Len(inbuf) : inbuf[i] = LF

beginChunk ==
  /\ Working /\ cr.err = "nil" /\ ~cr.checkEnd /\ cr.n = 0
  /\ \/ /\ call.n > 0 /\ ~chunkHeaderAvailable
        /\ Return(call.n, "nil") /\ UNCHANGED <<inbuf, cr, bd>>
     \/ /\ chunkHeaderAvailable
        /\ inbuf' = Drop(3)
        /\ IF inbuf[1][2] = 0 THEN AtEOF("EOF")
           ELSE cr' = [cr EXCEPT !.n = inbuf[1][2]] /\ UNCHANGED <<call, given, told, bd>>
     \/ /\ call.n = 0 /\ ~chunkHeaderAvailable /\ Ended
        /\ inbuf' = <<>> /\ Stop("unexpected")
  /\ UNCHANGED <<rsp, coming, lost, hdr>>

\* The rest of the slice from the rest of the chunk.
chunkData ==
  /\ Working /\ cr.err = "nil" /\ ~cr.checkEnd /\ cr.n > 0
  /\ \/ call.room = call.n /\ Return(call.n, "nil") /\ UNCHANGED <<inbuf, cr, bd>>
     \/ /\ call.room > call.n /\ inbuf # <<>>
        /\ LET k == Lim(Lim(call.room - call.n, cr.n), Len(inbuf))
           IN /\ inbuf' = Drop(k)
              /\ cr' = [cr EXCEPT !.n = @ - k, !.checkEnd = (cr.n = k)]
              /\ call' = [call EXCEPT !.n = @ + k]
        /\ UNCHANGED <<given, told, bd>>
     \/ /\ call.room > call.n /\ inbuf = <<>> /\ Ended
        /\ Stop("unexpected") /\ UNCHANGED inbuf
  /\ UNCHANGED <<rsp, coming, lost, hdr>>

\* body.readTrailer: an empty line, or a trailer whose end is in sight.
Terminator == {i \in 1..(Len(inbuf) - 3) :
                 SubSeq(inbuf, i, i + 3) = CRLF \o CRLF}

EndOfBody(e) ==
  /\ given' = IF call.op = "trailer" THEN given + call.n ELSE given
  /\ call' = Idle
  /\ told' = IF call.op = "drainTrailer" /\ e = "EOF" THEN "closed" ELSE e
  /\ bd' = [sawEOF |-> e = "EOF", hdr |-> FALSE,
            closed |-> e # "EOF" \/ call.op = "drainTrailer"]

\* Mutant: an error in the trailer is taken for the end of the body.
trailerError_end == "EOF"

trailerError == "trailer"

readTrailer ==
  /\ call.op \in {"trailer", "drainTrailer"}
  /\ \/ /\ Len(inbuf) >= 2 /\ SubSeq(inbuf, 1, 2) = CRLF
        /\ inbuf' = Drop(2) /\ EndOfBody("EOF")
     \/ /\ Len(inbuf) >= 2 /\ SubSeq(inbuf, 1, 2) # CRLF
        /\ \/ /\ Terminator # {}
              /\ inbuf' = Drop((CHOOSE i \in Terminator : TRUE) + 3)
              /\ EndOfBody("EOF")
           \/ /\ Terminator = {} /\ (Ended \/ Len(inbuf) >= TrailerRoom)
              /\ EndOfBody(trailerError) /\ UNCHANGED inbuf
     \/ /\ Len(inbuf) < 2 /\ Ended
        /\ EndOfBody(trailerError) /\ UNCHANGED inbuf
  /\ UNCHANGED <<rsp, coming, lost, hdr, cr>>

----------------------------------------------------------------------------
(* A body with a Content-Length, or up to the end of the connection        *)

\* Mutant: an end before the declared length is the end of the body.
shortEnd_ok == "EOF"

shortEnd == "unexpected"

plainRead ==
  /\ call.op \in {"read", "drain"} /\ hdr.kind \in {"limit", "eof"}
  /\ LET limit == hdr.kind = "limit"
         k == Lim(Lim(call.room, Len(inbuf)), IF limit THEN cr.n ELSE call.room)
         last == limit /\ k = cr.n      \* EOF comes with the last byte
     IN \/ /\ inbuf # <<>>
           /\ inbuf' = Drop(k)
           /\ cr' = [cr EXCEPT !.n = IF limit THEN @ - k ELSE @]
           /\ bd' = [bd EXCEPT !.sawEOF = last, !.closed = last /\ call.op = "drain"]
           /\ Return(k, IF last THEN "EOF" ELSE "nil")
        \/ /\ inbuf = <<>> /\ Ended
           /\ LET e == IF limit THEN shortEnd ELSE "EOF"
              IN /\ Return(0, e)
                 /\ bd' = [bd EXCEPT !.sawEOF = TRUE, !.closed = call.op = "drain"]
           /\ UNCHANGED <<inbuf, cr>>
  /\ UNCHANGED <<rsp, coming, lost, hdr>>

----------------------------------------------------------------------------
Init ==
  /\ rsp \in ReadResponses
  /\ coming = Body \o (IF Persists THEN <<nextMsg, nextMsg>> ELSE <<>>)
  /\ lost = ~Persists /\ inbuf = <<>>
  /\ hdr = [kind |-> "unread"] /\ call = Idle
  /\ cr = [n |-> 0, checkEnd |-> FALSE, err |-> "nil"]
  /\ bd = [sawEOF |-> FALSE, closed |-> FALSE, hdr |-> FALSE]
  /\ given = 0 /\ told = "nil"

Next ==
  \/ Arrive \/ Lose \/ readTransfer \/ Close
  \/ \E room \in ReadSizes : Read(room)
  \/ chunkSticky \/ chunkEnd \/ beginChunk \/ chunkData \/ readTrailer \/ plainRead

Spec == Init /\ [][Next]_readerVars

----------------------------------------------------------------------------
(* Properties                                                              *)

\* Every response is read to its own end and no further: when the caller is
\* told EOF all body bytes were handed over; when the end of a message was
\* seen on a connection that stays open, the next response's bytes are the
\* next ones to be read (sawEOF lets the connection be reused); a body of
\* known extent that is cut short, or chunked and with anything but CRLF
\* behind the data of a chunk, never ends with EOF.
MessageBoundary ==
  /\ told = "EOF" /\ hdr.kind # "none" => given = Total /\ rsp.bad \notin 1..Len(rsp.chunks)
  /\ hdr.kind \in {"chunked", "limit", "none"} /\ bd.sawEOF /\ Persists /\ call = Idle =>
       LET rest == inbuf \o coming
       IN rest = <<nextMsg, nextMsg>> \/ (lost /\ \A i \in 1..Len(rest) : rest[i] = nextMsg)

\* At the end of a chunk a Read that has data returns it instead of waiting
\* for the next chunk ("Return early ... instead of potentially blocking
\* while reading more").
NoWaitWithData ==
  Working /\ call.op = "read" /\ call.n > 0 /\ cr.n = 0 => ENABLED (chunkEnd \/ beginChunk)
=============================================================================
