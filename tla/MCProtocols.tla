---------------------------- MODULE MCProtocols ----------------------------
(***************************************************************************)
(* Finite instances of the components of Protocols, for TLC.  MC<name> is  *)
(* the value of the constant <name>.                                       *)
(***************************************************************************)
EXTENDS Protocols

----------------------------------------------------------------------------
(* Request.Do: every combination of options, limited and unlimited         *)
(* retries, and a client with common cookies and form data.  "upload" is a *)
(* SetMultipartField reader with common cookies; a multipart request does  *)
(* not get the form data.                                                  *)

Unlimited == -1

UploadConfig ==
    [retry |-> TRUE, max |-> 1, conds |-> FALSE, after |-> FALSE, body |-> "field",
     save |-> "no", auto |-> TRUE, limit |-> FALSE, result |-> FALSE, common |-> TRUE]

AllConfigs ==
    [retry : BOOLEAN, max : {2}, conds : BOOLEAN, after : BOOLEAN,
     body : {"func", "reader"}, save : {"no", "file", "writer", "closer"},
     auto : BOOLEAN, limit : BOOLEAN, result : BOOLEAN, common : {FALSE}]
    \cup [retry : {TRUE}, max : {Unlimited}, conds : BOOLEAN, after : BOOLEAN,
          body : {"func"}, save : {"no", "file"}, auto : BOOLEAN, limit : {FALSE},
          result : BOOLEAN, common : {FALSE}]
    \cup {[UploadConfig EXCEPT !.body = b] : b \in {"none", "func"}}

MCConfigs == IF "upload" \in Parts THEN {UploadConfig} ELSE AllConfigs
MCMaxAttempts == IF "upload" \in Parts THEN 1 ELSE 3

(* The dump of a request: what may be called before Do.                    *)
DumpCalls ==
    {<< <<"enable", {}>> >>,
     << <<"enable", {"reqBody"}>>,
        <<"options", [out |-> "nil", parts |-> {"reqHeader", "reqBody", "respBody"}]>> >>,
     << <<"file">>, <<"enable", {"respBody"}>> >>,
     << <<"file">>, <<"to">>, <<"options", [out |-> "nil", parts |-> {"respBody"}]>> >>}

(* The dump of a client and of its clone, reconfigured while two requests  *)
(* are dumped.                                                             *)
DumpKinds == {"head", "body"}
Async(w) == [out |-> w, parts |-> DumpKinds, async |-> TRUE]
Reconfigurations ==
    {<< <<"file", "c1", "f1">>, <<"async", "c1">>, <<"disable", "c1">>, <<"file", "c1", "f2">> >>,
     << <<"async", "c1">>, <<"file", "c1", "f1">>, <<"without", "c1", {"body"}>>,
        <<"file", "c1", "f2">> >>,
     << <<"async", "c1">>, <<"file", "c1", "f1">>, <<"options", "c1", Async("nil")>>,
        <<"to", "c1">>, <<"disable", "c1">> >>,
     << <<"all", "c1">>, <<"options", "c1", Async("w")>>, <<"clone", "c1">>,
        <<"file", "c2", "f1">>, <<"disable", "c2">> >>}

(* Digest authentication of two or three requests to one host, whose       *)
(* server refuses requests at will; copies that fail.                      *)
DigestPlain == [reqs |-> {"r1", "r2"}, body |-> "getBody", answers |-> {"ok", "challenge"},
                fresh |-> TRUE, faults |-> {}]
DigestCases ==
    {[DigestPlain EXCEPT !.reqs = {"r1", "r2", "r3"}, !.answers = {"challenge"}],
     [DigestPlain EXCEPT !.body = "none", !.answers = {"ok", "challenge", "plain401", "bad401"}],
     [DigestPlain EXCEPT !.body = "reader", !.faults = {"read", "close", "digest"}],
     [DigestPlain EXCEPT !.answers = {"err", "challenge"}, !.fresh = FALSE, !.faults = {"getBody"}]}

(* A parallel download by two workers, of no to three segments; everything *)
(* may fail.                                                               *)
MCContentLengths == {-1, 0, 1, 4, 5}

----------------------------------------------------------------------------
(* HTTP/1 messages.  A request of every method and length, with a body of  *)
(* 0 to 3 bytes that may fail.                                             *)

MCWriteRequests ==
    [method : {"GET", "POST", "CONNECT"}, cl : {-1, 0, 2},
     te : {"none", "chunked", "identity"},
     body : {[len |-> -1, fails |-> FALSE]} \cup [len : 0 .. 3, fails : BOOLEAN]]

(* Headers in every combination, and chunked bodies that are cut or        *)
(* garbled.                                                                *)
Ok == [method |-> "GET", status |-> 200, http10 |-> FALSE, te |-> "none", cl |-> <<>>,
       conn |-> "none", trailer |-> FALSE, chunks |-> <<2>>, bad |-> 0, cut |-> FALSE,
       closes |-> TRUE]
HeaderCases ==
    {[Ok EXCEPT !.method = m, !.status = st, !.http10 = v, !.te = t, !.cl = c, !.conn = k] :
       m \in {"GET", "HEAD"}, st \in {200, 204}, v \in BOOLEAN, t \in {"none", "chunked", "other"},
       c \in {<<>>, <<2>>, <<2, 2>>, <<2, 3>>, <<-1>>}, k \in {"none", "close", "keep-alive"}}
BodyCases ==
    {[Ok EXCEPT !.te = "chunked", !.chunks = c, !.trailer = t, !.bad = b, !.cut = x] :
       c \in {<<>>, <<1>>, <<3>>, <<2, 1>>}, t \in BOOLEAN, b \in {0, 1}, x \in BOOLEAN}
    \cup {[Ok EXCEPT !.cl = <<2>>, !.cut = TRUE], [Ok EXCEPT !.conn = "close"]}

MCReadResponses == HeaderCases \cup BodyCases

(* Every text of up to 7 bytes, read through a buffer of 3.  "dumped" is   *)
(* the same with a Dumper that wants the response header.                  *)
MCHeaderInputs == UNION {[1 .. k -> {"a", ":", "_", "n"}] : k \in 0 .. 7}
MCDumping == {"dumped" \in Parts}

----------------------------------------------------------------------------
(* HTTP/2.  The pool with up to three callers and two connections offered  *)
(* by the HTTP/1 transport.                                                *)

Kinds3(x, y, z) == [g \in {"g1", "g2", "g3"} |-> CASE g = "g1" -> x [] g = "g2" -> y [] OTHER -> z]
PoolPlans ==
    {[kind |-> Kinds3("share", "share", "share"), adders |-> {}],
     [kind |-> Kinds3("share", "share", "absent"), adders |-> {"a1"}],
     [kind |-> Kinds3("share", "cached", "close"), adders |-> {}],
     [kind |-> Kinds3("cached", "absent", "absent"), adders |-> {"a1", "a2"}]}

MCCtxOf == [g \in {"g1", "g2", "g3"} |-> g]

(* Frames.  Every kind of frame once, well-formed and not, and every       *)
(* sequence of four frames around a header block of stream 1, with room    *)
(* for a few fields.  Top is 1<<31 in the Framer's number base.            *)
Top == 2048
Prio0 == [dep |-> 0, excl |-> FALSE, weight |-> 0]
Prios == {Prio0, [dep |-> 3, excl |-> TRUE, weight |-> 1]}
Raw(type, flags, stream, payload) ==
    [op |-> "raw", type |-> type, flags |-> flags, stream |-> stream, payload |-> payload]
AnyFrame ==
    [op : {"data"}, stream : {0, 1, Top}, end : BOOLEAN, padded : {TRUE}, data : {<<>>, <<5, 6>>},
     pad : {<<>>, <<0, 0>>, <<1>>}]
    \cup [op : {"data"}, stream : {1}, end : BOOLEAN, padded : {FALSE}, data : {<<>>, <<5>>},
          pad : {<<>>}]
    \cup [op : {"settings"}, ack : BOOLEAN,
          settings : {<<>>, << <<4, Top - 1>> >>, << <<3, 9>>, <<4, Top>> >>}]
    \cup [op : {"ping"}, ack : BOOLEAN, data : {<<1, 2, 3, 4, 5, 6, 7, 0>>}]
    \cup [op : {"goaway"}, last : {0, Top - 1}, code : {2}, debug : {<<>>, <<1>>}]
    \cup [op : {"window"}, stream : {0, 1}, incr : {0, 1, Top - 1, Top}]
    \cup [op : {"headers"}, stream : {0, 1}, end : BOOLEAN, endHeaders : {TRUE}, pad : {0, 2},
          prio : Prios, frag : {<<>>, <<0, 3>>}]
    \cup [op : {"priority"}, stream : {1}, prio : Prios]
    \cup [op : {"reset"}, stream : {0, 1}, code : {8}]
    \cup [op : {"push"}, stream : {1}, promise : {0, 2}, endHeaders : BOOLEAN, pad : {0, 1},
          frag : {<<0>>}]
    \cup {Raw(t, f, s, p) :
            t \in {"DATA", "HEADERS", "PUSH_PROMISE", "SETTINGS", "PING", "ORIGIN"},
            f \in {{}, {"PADDED", "PRIORITY", "ACK"}}, s \in {0, 1},
            p \in {<<>>, <<1>>, <<1, 1, 1, 1, 1>>, [i \in 1 .. 13 |-> 0]}}
HeaderFrames ==
    [op : {"headers"}, stream : {1}, end : {FALSE}, endHeaders : BOOLEAN, pad : {0},
     prio : {Prio0}, frag : {<<0>>, <<0, 4>>, <<5>>, <<3, 0>>}]
    \cup [op : {"continuation"}, stream : {1}, endHeaders : BOOLEAN,
          frag : {<<3>>, <<6>>, <<4, 2>>, <<7>>}]
    \cup {[op |-> "continuation", stream |-> 3, endHeaders |-> TRUE, frag |-> <<3>>],
          [op |-> "window", stream |-> 3, incr |-> 1],
          Raw("WINDOW_UPDATE", {}, 3, <<0, 0, 0, 0>>),
          Raw("HEADERS", {"PADDED", "END_HEADERS"}, 1, <<5, 0>>)}

MCScripts ==
    {[calls |-> AnyFrame, n |-> 1, limit |-> 4],
     [calls |-> HeaderFrames, n |-> 4, limit |-> 4]}

(* Bodies and windows of one or two streams.  "closedTwice": the caller    *)
(* closes a response body a second time.                                   *)
Plain == [streams |-> {"s1"}, total |-> 3, clen |-> 3, pad |-> 0, trailers |-> FALSE,
          head |-> FALSE, reads |-> {2}, closes |-> 1, upload |-> 0, increments |-> {},
          initials |-> {}, updates |-> 0, events |-> {}]
Pair  == [Plain EXCEPT !.streams = {"s1", "s2"}, !.total = 2, !.clen = 2]
BodySituations ==
    {Pair,
     [Pair  EXCEPT !.clen = -1, !.closes = 0, !.events = {"cancel"}],
     [Plain EXCEPT !.events = {"reset", "cancel"}],
     [Plain EXCEPT !.clen = -1, !.pad = 1, !.trailers = TRUE, !.events = {"cancel", "reset"},
                   !.reads = {1, 2}],
     [Plain EXCEPT !.clen = 4, !.events = {"lost"}],
     [Plain EXCEPT !.total = 0, !.clen = 2],
     [Plain EXCEPT !.total = 0, !.clen = 2, !.head = TRUE],
     [Plain EXCEPT !.total = 0, !.clen = 0, !.events = {"cancel"}, !.upload = 3,
                   !.increments = {1, 3}, !.initials = {0, 4}, !.updates = 3],
     [Pair  EXCEPT !.total = 0, !.clen = 0, !.upload = 2, !.increments = {1}, !.updates = 1]}

MCSituations == IF "closedTwice" \in Parts THEN {[Plain EXCEPT !.closes = 2]} ELSE BodySituations

(* The buffer of a body: chunks of three sizes.                            *)

----------------------------------------------------------------------------
(* HTTP/3 and the SOCKS dialer.                                            *)

Shared == [reqs |-> {"r1", "r2"}, cached |-> {}, body |-> "getBody", events |-> {}]
H3Situations ==
    {[Shared EXCEPT !.events = {"idle", "add", "die"}],
     [Shared EXCEPT !.events = {"idle", "reject"}],
     [Shared EXCEPT !.events = {"cancel", "fail", "idle"}],
     [Shared EXCEPT !.events = {"close", "add", "fail"}, !.cached = {"r1"}, !.body = "none"],
     [Shared EXCEPT !.events = {"reject", "die"}, !.body = "stream"]}

(* One HTTP/3 connection: two requests during a graceful shutdown or the   *)
(* loss of the connection, and one request with every kind of answer,      *)
(* upload and interruption.                                                *)
Lone == [calls |-> {"r1"}, answers |-> {<<"headers", "data2", "byte", "byte", "fin">>},
         clen |-> -1, body |-> -1, ulen |-> -1, goAways |-> {}, events |-> {}]
Twin == [Lone EXCEPT !.calls = {"r1", "r2"}, !.answers = {<<"headers", "fin">>}]
OddAnswers ==
    {<<"info", "info", "headers", "fin">>,
     <<"info", "headers", "data1", "byte", "headers", "data1", "byte", "fin">>,
     <<"skip", "headers", "headers", "headers", "fin">>,
     <<"bad", "fin">>, <<"settings", "fin">>, <<"reserved">>,
     <<"headers", "data0", "bad">>, <<"headers", "reserved">>}
StreamSituations ==
    {[Twin EXCEPT !.goAways = {0, 1}],
     [Twin EXCEPT !.events = {"lost", "stop"}],
     [Lone EXCEPT !.answers = @ \cup {<<"headers", "data1", "byte", "skip", "data2", "byte", "byte",
                                        "headers", "fin">>},
                  !.clen = 2, !.events = {"close", "cancel", "reset", "lost", "control"}],
     [Lone EXCEPT !.answers = OddAnswers, !.events = {"close", "cancel", "reset"}],
     [Lone EXCEPT !.body = 2, !.ulen = 2, !.events = {"bodyRead", "cancel", "stop"}],
     [Lone EXCEPT !.body = 2, !.ulen = 1, !.events = {"cancel"}],
     [Lone EXCEPT !.body = 2, !.events = {"invalid", "cancel", "lost"}],
     [Lone EXCEPT !.goAways = {0, 1}, !.answers = {<<"headers", "fin">>},
                  !.events = {"datagram", "cancel", "close", "lost"}],
     [Lone EXCEPT !.events = {"auto", "cancel"}]}

Modes ==
    {[fallback |-> TRUE, cooldown |-> TRUE, entries |-> 2, outcomes |-> {"ok", "err", "ctx"}],
     [fallback |-> FALSE, cooldown |-> TRUE, entries |-> 2, outcomes |-> {"ok", "err"}],
     [fallback |-> TRUE, cooldown |-> FALSE, entries |-> 1, outcomes |-> {"ok", "err"}]}

MCAltReqs == 1 .. 4

MCDialers ==
    [version : {4, 5}, target : {"ip4", "ip6", "name", "badName"}, socks4A : BOOLEAN,
     auth : {"none", "userPass", "badUserPass"}, deadline : BOOLEAN,
     background : {FALSE}]
    \cup [version : {4, 5}, target : {"ip4"}, socks4A : {FALSE}, auth : {"none"},
          deadline : {FALSE}, background : {TRUE}]
=============================================================================
