------------------------------- MODULE Framer -------------------------------
(***************************************************************************)
(* The HTTP/2 Framer (internal/http2/frame.go): the Write functions of one *)
(* Framer, the wire, and ReadFrame of another with its parsers, the order  *)
(* check and readMetaFrame, which joins HEADERS and CONTINUATION frames    *)
(* and feeds their fragments to the hpack decoder.  The read loop ends the *)
(* connection on every error but a StreamError.                            *)
(*                                                                         *)
(* A payload is a sequence of bytes; bytes are digits of base Radix, so    *)
(* that a uint32 of four bytes fits TLC's integers, its high bit Hi        *)
(* included.  In a header block a byte is a field (see FieldOf); the hpack *)
(* decoder is external and its dynamic table is the history of its input.  *)
(***************************************************************************)
EXTENDS Integers, Sequences, FiniteSets

CONSTANTS Scripts,      \* [calls, n, limit]: up to n of these calls, MaxHeaderListSize
          MaxReadSize   \* largest payload that is read

VARIABLES
  script,   \* the calls the writing side may make
  made,     \* how many it has made
  transit,  \* the frames on the wire
  inBlock,  \* lastHeaderStream: 0 or the stream of the open header block
  meta,     \* readMetaFrame in progress, or NoMeta
  fed,      \* what was written to the hpack decoder
  owed,     \* what the peer's encoder produced, up to the last frame read
  block,    \* the header block as sent: its stream and bytes
  parsed,   \* the last frame read: its call, header and parser's result
  got,      \* the MetaHeadersFrame returned for it, or NoFrame
  skipped,  \* a StreamError left a header block undecoded
  up        \* the read loop runs

framerVars == <<script, made, transit, inBlock, meta, fed, owed, block, parsed, got, skipped, up>>

Radix == 8
Hi    == Radix^4 \div 2          \* 1<<31
Word  == Radix^4                 \* 1<<32

Digits(v, n) == [i \in 1 .. n |-> (v \div Radix^(n - i)) % Radix]
U32(v) == Digits(v, 4)
U16(v) == Digits(v, 2)
Num(p) == LET f[i \in 0 .. Len(p)] == IF i = 0 THEN 0 ELSE f[i - 1] * Radix + p[i] IN f[Len(p)]
From(p, i) == SubSeq(p, i, Len(p))
Zeros(n) == [i \in 1 .. n |-> 0]

----------------------------------------------------------------------------
(* Writing.  The result is a frame, or Refused.                            *)

Refused == [type |-> "refused"]
Flag(on, f) == IF on THEN {f} ELSE {}

endWrite(type, flags, stream, payload) ==
    IF Len(payload) >= Radix^3 THEN Refused
    ELSE [type |-> type, flags |-> flags, stream |-> stream, payload |-> payload]

validStreamID(s) == s # 0 /\ s < Hi
validStreamIDOrZero(s) == s < Hi

NoPriority == [dep |-> 0, excl |-> FALSE, weight |-> 0]
PriorityBytes(p) == U32(p.dep + (IF p.excl THEN Hi ELSE 0)) \o <<p.weight>>

\* c.padded: pad is not nil.
WriteDataPadded(c) ==
    IF ~validStreamID(c.stream) \/ \E i \in 1 .. Len(c.pad) : c.pad[i] # 0 THEN Refused
    ELSE endWrite("DATA", Flag(c.end, "END_STREAM") \cup Flag(c.padded, "PADDED"), c.stream,
                  (IF c.padded THEN <<Len(c.pad)>> ELSE <<>>) \o c.data \o c.pad)

WriteSettings(c) ==
    LET f[i \in 0 .. Len(c.settings)] ==
          IF i = 0 THEN <<>> ELSE f[i - 1] \o U16(c.settings[i][1]) \o U32(c.settings[i][2])
    IN endWrite("SETTINGS", Flag(c.ack, "ACK"), 0, IF c.ack THEN <<>> ELSE f[Len(c.settings)])

WritePing(c) == endWrite("PING", Flag(c.ack, "ACK"), 0, c.data)

WriteGoAway(c) == endWrite("GOAWAY", {}, 0, U32(c.last % Hi) \o U32(c.code) \o c.debug)

WriteWindowUpdate(c) ==
    IF c.incr < 1 \/ c.incr >= Hi THEN Refused
    ELSE endWrite("WINDOW_UPDATE", {}, c.stream, U32(c.incr))

\* Mutant: the padding is announced after the priority.
WriteHeaders_swapped(c) ==
    LET prio == c.prio # NoPriority
    IN endWrite("HEADERS", Flag(c.pad > 0, "PADDED") \cup Flag(c.end, "END_STREAM")
                  \cup Flag(c.endHeaders, "END_HEADERS") \cup Flag(prio, "PRIORITY"), c.stream,
                (IF prio THEN PriorityBytes(c.prio) ELSE <<>>)
                  \o (IF c.pad > 0 THEN <<c.pad>> ELSE <<>>) \o c.frag \o Zeros(c.pad))

WriteHeaders(c) ==
    LET prio == c.prio # NoPriority
    IN IF ~validStreamID(c.stream) \/ ~validStreamIDOrZero(c.prio.dep) THEN Refused
       ELSE endWrite("HEADERS", Flag(c.pad > 0, "PADDED") \cup Flag(c.end, "END_STREAM")
                       \cup Flag(c.endHeaders, "END_HEADERS") \cup Flag(prio, "PRIORITY"), c.stream,
                     (IF c.pad > 0 THEN <<c.pad>> ELSE <<>>)
                       \o (IF prio THEN PriorityBytes(c.prio) ELSE <<>>) \o c.frag \o Zeros(c.pad))

WritePriority(c) ==
    IF ~validStreamID(c.stream) \/ ~validStreamIDOrZero(c.prio.dep) THEN Refused
    ELSE endWrite("PRIORITY", {}, c.stream, PriorityBytes(c.prio))

WriteRSTStream(c) ==
    IF ~validStreamID(c.stream) THEN Refused
    ELSE endWrite("RST_STREAM", {}, c.stream, U32(c.code))

WriteContinuation(c) ==
    IF ~validStreamID(c.stream) THEN Refused
    ELSE endWrite("CONTINUATION", Flag(c.endHeaders, "END_HEADERS"), c.stream, c.frag)

WritePushPromise(c) ==
    IF ~validStreamID(c.stream) \/ ~validStreamID(c.promise) THEN Refused
    ELSE endWrite("PUSH_PROMISE", Flag(c.pad > 0, "PADDED") \cup Flag(c.endHeaders, "END_HEADERS"),
                  c.stream, (IF c.pad > 0 THEN <<c.pad>> ELSE <<>>) \o U32(c.promise)
                              \o c.frag \o Zeros(c.pad))

WriteRawFrame(c) == endWrite(c.type, c.flags, c.stream, c.payload)

Written(c) ==
    CASE c.op = "data" -> WriteDataPadded(c)
      [] c.op = "settings" -> WriteSettings(c)
      [] c.op = "ping" -> WritePing(c)
      [] c.op = "goaway" -> WriteGoAway(c)
      [] c.op = "window" -> WriteWindowUpdate(c)
      [] c.op = "headers" -> WriteHeaders(c)
      [] c.op = "priority" -> WritePriority(c)
      [] c.op = "reset" -> WriteRSTStream(c)
      [] c.op = "continuation" -> WriteContinuation(c)
      [] c.op = "push" -> WritePushPromise(c)
      [] c.op = "raw" -> WriteRawFrame(c)

\* The two sides share nothing but the wire, which holds one frame here.
Write ==
    /\ made < script.n /\ transit = <<>>
    /\ \E c \in script.calls :
          transit' = IF Written(c) = Refused THEN transit
                     ELSE Append(transit, [f |-> Written(c), call |-> c])
    /\ made' = made + 1
    /\ UNCHANGED <<script, inBlock, meta, fed, owed, block, parsed, got, skipped, up>>

----------------------------------------------------------------------------
(* Parsing.  The result has an err: "nil", "conn", "stream" or "io".       *)

Err(e) == [err |-> e]
OK(v) == [err |-> "nil", val |-> v]

\* readByte and the padding of DATA, HEADERS and PUSH_PROMISE frames.
padByte(f) == "PADDED" \in f.flags
padLen(f) == IF padByte(f) THEN f.payload[1] ELSE 0
Padless(f) == IF padByte(f) THEN Tail(f.payload) ELSE f.payload
Cut(p, n) == SubSeq(p, 1, Len(p) - n)

parseDataFrame(f) ==
    IF f.stream = 0 THEN Err("conn")
    ELSE IF padByte(f) /\ f.payload = <<>> THEN Err("io")
    ELSE IF padLen(f) > Len(Padless(f)) THEN Err("conn")
    ELSE OK([data |-> Cut(Padless(f), padLen(f))])

SettingAt(p, i) == <<Num(SubSeq(p, 6 * i - 5, 6 * i - 4)), Num(SubSeq(p, 6 * i - 3, 6 * i))>>
InitialWindowSize == 4

parseSettingsFrame(f) ==
    LET all == [i \in 1 .. Len(f.payload) \div 6 |-> SettingAt(f.payload, i)]
        windows == {i \in DOMAIN all : all[i][1] = InitialWindowSize}
        first == CHOOSE i \in windows : \A j \in windows : i <= j     \* Value
    IN IF "ACK" \in f.flags /\ f.payload # <<>> THEN Err("conn")
       ELSE IF f.stream # 0 \/ Len(f.payload) % 6 # 0 THEN Err("conn")
       ELSE IF windows # {} /\ all[first][2] >= Hi THEN Err("conn")
       ELSE OK([settings |-> all])

parsePingFrame(f) ==
    IF Len(f.payload) # 8 \/ f.stream # 0 THEN Err("conn") ELSE OK([data |-> f.payload])

parseGoAwayFrame(f) ==
    IF f.stream # 0 \/ Len(f.payload) < 8 THEN Err("conn")
    ELSE OK([last |-> Num(SubSeq(f.payload, 1, 4)) % Hi, code |-> Num(SubSeq(f.payload, 5, 8)),
             debug |-> From(f.payload, 9)])

parseWindowUpdateFrame(f) ==
    LET inc == Num(f.payload) % Hi
    IN IF Len(f.payload) # 4 THEN Err("conn")
       ELSE IF inc = 0 THEN Err(IF f.stream = 0 THEN "conn" ELSE "stream")
       ELSE OK([incr |-> inc])

\* Mutant: the high bit stays in the stream number.
Priority_unmasked(p) ==
    LET v == Num(SubSeq(p, 1, 4)) IN [dep |-> v, excl |-> v >= Hi, weight |-> p[5]]

Priority(p) ==
    LET v == Num(SubSeq(p, 1, 4)) IN [dep |-> v % Hi, excl |-> v >= Hi, weight |-> p[5]]

parseHeadersFrame(f) ==
    LET prio == "PRIORITY" \in f.flags
        rest == IF prio THEN From(Padless(f), 6) ELSE Padless(f)
    IN IF f.stream = 0 THEN Err("conn")
       ELSE IF padByte(f) /\ f.payload = <<>> THEN Err("io")
       ELSE IF prio /\ Len(Padless(f)) < 5 THEN Err("io")
       ELSE IF padLen(f) > Len(rest) THEN Err("stream")
       ELSE OK([frag |-> Cut(rest, padLen(f)),
                prio |-> IF prio THEN Priority(Padless(f)) ELSE NoPriority])

parsePriorityFrame(f) ==
    IF f.stream = 0 \/ Len(f.payload) # 5 THEN Err("conn") ELSE OK([prio |-> Priority(f.payload)])

parseRSTStreamFrame(f) ==
    IF Len(f.payload) # 4 \/ f.stream = 0 THEN Err("conn") ELSE OK([code |-> Num(f.payload)])

parseContinuationFrame(f) == IF f.stream = 0 THEN Err("conn") ELSE OK([frag |-> f.payload])

parsePushPromise(f) ==
    LET rest == From(Padless(f), 5)
    IN IF f.stream = 0 THEN Err("conn")
       ELSE IF f.payload = <<>> \/ Len(Padless(f)) < 4 THEN Err("io")
       ELSE IF padLen(f) > Len(rest) THEN Err("conn")
       ELSE OK([promise |-> Num(SubSeq(Padless(f), 1, 4)) % Hi, frag |-> Cut(rest, padLen(f))])

typeFrameParser(f) ==
    CASE f.type = "DATA" -> parseDataFrame(f)
      [] f.type = "HEADERS" -> parseHeadersFrame(f)
      [] f.type = "PRIORITY" -> parsePriorityFrame(f)
      [] f.type = "RST_STREAM" -> parseRSTStreamFrame(f)
      [] f.type = "SETTINGS" -> parseSettingsFrame(f)
      [] f.type = "PUSH_PROMISE" -> parsePushPromise(f)
      [] f.type = "PING" -> parsePingFrame(f)
      [] f.type = "GOAWAY" -> parseGoAwayFrame(f)
      [] f.type = "WINDOW_UPDATE" -> parseWindowUpdateFrame(f)
      [] f.type = "CONTINUATION" -> parseContinuationFrame(f)
      [] OTHER -> OK([payload |-> f.payload])     \* parseUnknownFrame

----------------------------------------------------------------------------
(* Header blocks                                                           *)

\* Fields by their byte: two pseudo fields of responses and requests, an
\* unknown one, a small, a large and an invalid regular field, the start of a
\* field that goes on, and what hpack cannot decode.
FieldOf == [b \in 0 .. Radix - 1 |->
    CASE b = 0 -> ":status" [] b = 1 -> ":method" [] b = 2 -> ":other" [] b = 3 -> "small"
      [] b = 4 -> "large" [] b = 5 -> "invalid" [] b = 6 -> "begun" [] OTHER -> "garbled"]
SizeOf(name) == IF name = "large" THEN 3 ELSE 1
isPseudo(name) == name \in {":status", ":method", ":other"}

NoMeta == [stream |-> 0, fields |-> <<>>, remain |-> 0, regular |-> FALSE, invalid |-> FALSE,
           truncated |-> FALSE, half |-> FALSE, broken |-> FALSE]

\* The function given to the decoder; after SetEmitEnabled(false) it is not
\* called again for the block.
emit(m, name) ==
    LET seen == [m EXCEPT !.regular = @ \/ ~isPseudo(name)]
    IN IF m.invalid \/ m.truncated THEN m
       ELSE IF name = "invalid" \/ (isPseudo(name) /\ m.regular)
       THEN [seen EXCEPT !.invalid = TRUE]
       ELSE IF SizeOf(name) > m.remain
       THEN [seen EXCEPT !.truncated = TRUE, !.remain = 0]
       ELSE [seen EXCEPT !.remain = @ - SizeOf(name), !.fields = Append(@, name)]

\* hdec.Write, external: one byte at a time, "begun" waiting for the next.
Decoded(m0, frag) ==
    LET f[i \in 0 .. Len(frag)] ==
          IF i = 0 THEN m0
          ELSE LET m == f[i - 1] name == FieldOf[frag[i]]
               IN IF name = "garbled" THEN [m EXCEPT !.broken = TRUE]
                  ELSE IF name = "begun" THEN [m EXCEPT !.half = TRUE]
                  ELSE emit([m EXCEPT !.half = FALSE], name)
    IN f[Len(frag)]

checkPseudos(fields) ==
    LET pf == {i \in 1 .. Len(fields) : isPseudo(fields[i])}
    IN /\ \A i \in pf : fields[i] # ":other" /\ \A j \in pf : i # j => fields[i] # fields[j]
       /\ ~\E i, j \in pf : fields[i] = ":status" /\ fields[j] = ":method"

NoFrame == [stream |-> 0, fields |-> <<>>]

\* The read loop returns.
Down == up' = FALSE /\ meta' = NoMeta /\ got' = NoFrame /\ UNCHANGED <<fed, skipped>>

\* Mutant: a fragment is not decoded once the limit was passed.
decodes_within(m) == ~m.truncated

decodes(m) == TRUE

\* One turn of readMetaFrame's loop, and what follows it.
Feed(m, f, frag) ==
    LET d == Decoded(m, frag)
    IN IF Len(frag) > (2 * m.remain) % Word \/ m.invalid THEN Down
       ELSE IF d.broken THEN Down
       ELSE /\ fed' = IF decodes(d) THEN fed \o frag ELSE fed
            /\ IF "END_HEADERS" \notin f.flags
               THEN meta' = d /\ got' = NoFrame /\ UNCHANGED <<skipped, up>>
               ELSE /\ meta' = NoMeta /\ UNCHANGED skipped
                    /\ up' = ~d.half                       \* hdec.Close
                    /\ got' = IF d.half \/ d.invalid \/ ~checkPseudos(d.fields) THEN NoFrame
                              ELSE [stream |-> d.stream, fields |-> d.fields]

----------------------------------------------------------------------------
(* ReadFrame                                                               *)

readFrameHeader(f) == [f EXCEPT !.stream = @ % Hi]

\* Mutant: a CONTINUATION frame of any stream continues the block.
orderOK_anyStream(f) == (inBlock # 0) <=> f.type = "CONTINUATION"

\* checkFrameOrder.
orderOK(f) ==
    IF inBlock # 0 THEN f.type = "CONTINUATION" /\ f.stream = inBlock
                   ELSE f.type # "CONTINUATION"

\* The part of a frame the peer's hpack encoder made, as RFC 9113 has it.
HeaderBytes(f, p) ==
    IF f.type \in {"HEADERS", "CONTINUATION"} /\ p.err = "nil" THEN p.val.frag ELSE <<>>

\* The frame f was read; what was known of the block goes on in block.
ReadFrame ==
    /\ up /\ transit # <<>>
    /\ LET f == readFrameHeader(Head(transit).f)
           p == typeFrameParser(f)
       IN /\ transit' = Tail(transit)
          /\ parsed' = [call |-> Head(transit).call, stream |-> f.stream, res |-> p]
          /\ owed' = owed \o HeaderBytes(f, p)
          /\ block' = IF f.type = "HEADERS" /\ p.err = "nil"
                      THEN [stream |-> f.stream, bytes |-> p.val.frag]
                      ELSE IF f.type = "CONTINUATION" /\ f.stream = block.stream
                      THEN [block EXCEPT !.bytes = @ \o f.payload] ELSE block
          /\ IF Len(f.payload) > MaxReadSize \/ p.err \in {"conn", "io"}
             THEN Down /\ UNCHANGED inBlock
             ELSE IF p.err = "stream"
             THEN /\ meta' = NoMeta /\ got' = NoFrame
                  /\ skipped' = (skipped \/ f.type = "HEADERS" \/ inBlock # 0)
                  /\ UNCHANGED <<inBlock, fed, up>>
             ELSE IF ~orderOK(f) THEN Down /\ UNCHANGED inBlock
             ELSE /\ inBlock' = IF f.type \in {"HEADERS", "CONTINUATION"}
                                THEN IF "END_HEADERS" \in f.flags THEN 0 ELSE f.stream
                                ELSE inBlock
                  /\ \/ /\ f.type = "HEADERS"
                        /\ Feed([NoMeta EXCEPT !.stream = f.stream, !.remain = script.limit],
                                f, p.val.frag)
                     \/ f.type = "CONTINUATION" /\ meta # NoMeta /\ Feed(meta, f, p.val.frag)
                     \/ f.type = "PUSH_PROMISE" /\ Down     \* processPushPromise
                     \/ /\ f.type \notin {"HEADERS", "PUSH_PROMISE"}
                        /\ f.type = "CONTINUATION" => meta = NoMeta
                        /\ got' = NoFrame /\ UNCHANGED <<meta, fed, skipped, up>>
    /\ UNCHANGED <<script, made>>

Init ==
    /\ script \in Scripts /\ made = 0 /\ transit = <<>> /\ inBlock = 0 /\ meta = NoMeta
    /\ fed = <<>> /\ owed = <<>> /\ block = [stream |-> 0, bytes |-> <<>>]
    /\ parsed = [stream |-> 0] /\ got = NoFrame /\ skipped = FALSE /\ up = TRUE

Next == Write \/ ReadFrame

Spec == Init /\ [][Next]_framerVars

----------------------------------------------------------------------------
(* Properties                                                              *)

\* The value a Write function was asked to put into the frame.
Meaning(c) ==
    CASE c.op = "data" -> [data |-> c.data]
      [] c.op = "settings" -> [settings |-> IF c.ack THEN <<>> ELSE c.settings]
      [] c.op = "ping" -> [data |-> c.data]
      [] c.op = "goaway" -> [last |-> c.last, code |-> c.code, debug |-> c.debug]
      [] c.op = "window" -> [incr |-> c.incr]
      [] c.op = "headers" -> [frag |-> c.frag, prio |-> c.prio]
      [] c.op = "priority" -> [prio |-> c.prio]
      [] c.op = "reset" -> [code |-> c.code]
      [] c.op = "continuation" -> [frag |-> c.frag]
      [] c.op = "push" -> [promise |-> c.promise, frag |-> c.frag]

\* What a Write function accepts is what the parser of the other side gets,
\* whatever the padding, the priority and the reserved bits; a SETTINGS frame
\* may be refused for the value of its initial window.
WriteParse ==
    "call" \in DOMAIN parsed =>
       LET c == parsed.call
           window == c.op = "settings" /\ \E i \in DOMAIN c.settings :
                        c.settings[i][1] = InitialWindowSize /\ c.settings[i][2] >= Hi
       IN c.op # "raw" =>
             IF window THEN parsed.res.err # "stream" ELSE parsed.res = OK(Meaning(c))

\* The fields of a header block that fit the limit.
FieldsWithin(bytes, limit) ==
    LET names == SelectSeq([i \in 1 .. Len(bytes) |-> FieldOf[bytes[i]]], LAMBDA n : n # "begun")
        total[i \in 0 .. Len(names)] == IF i = 0 THEN 0 ELSE total[i - 1] + SizeOf(names[i])
        fits == {i \in 0 .. Len(names) : total[i] <= limit}
    IN SubSeq(names, 1, CHOOSE i \in fits : \A j \in fits : j <= i)

\* A response header is the header block of one stream as it was sent: its
\* fields, in order, up to the limit, however the block is cut into frames and
\* whatever other frames come between.  And while the connection lives the
\* hpack decoder has seen every byte the peer's encoder made, of truncated and
\* invalid headers too ("The hpack decoder state is still valid"), or later
\* headers are decoded wrongly; a block is passed over only after a frame with
\* an error of its own stream (padding beyond a HEADERS frame, a
\* WINDOW_UPDATE of zero inside a block).
HeaderBlockIntact ==
    /\ got.stream # 0 => /\ got.stream = block.stream
                         /\ got.fields = FieldsWithin(block.bytes, script.limit)
    /\ up /\ ~skipped => fed = owed
=============================================================================
