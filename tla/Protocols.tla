----------------------------- MODULE Protocols -----------------------------
(***************************************************************************)
(* The components that are small on their own, side by side.  A behaviour  *)
(* is a behaviour of one of them: part names it and never changes, and the *)
(* variables of the component are v1 to v19, which every component reads   *)
(* in its own way.  The constants of the components keep their names; what *)
(* they stand for is said in the component's module.                       *)
(***************************************************************************)
EXTENDS Integers, Sequences, FiniteSets

CONSTANT Parts   \* the components and situations explored

CONSTANTS
    Configs, MaxAttempts,                                         \* RequestDo
    DumpPlans, MaxTries,                                          \* RequestDump
    DumpProducers, Kinds, DumpSetups, QueueCap, MaxPieces,        \* Dump
    DigestReqs, DigestModes, MaxNonces,                           \* Digest
    Concurrency, SegmentSize, ContentLengths, Failures,           \* ParallelDownload
    WriteRequests, MaxWrite,                                      \* TransferWriter
    ReadResponses, ReadSizes, TrailerRoom,                        \* TransferReader
    HeaderInputs, Dumping, BufSize,                               \* HeaderReader
    Getters, Adders, Plans, CtxOf, StreamLimit, MaxDials,         \* H2Pool
    Scripts, MaxReadSize,                                         \* Framer
    \* H2Body
    Streams, ConnWindow, StreamWindow, MinRefresh, MaxWindow, MaxFrameSize, MaxInFlight,
    Situations,
    Classes, MaxBytes, Writes, Reads, Expected,                   \* DataBuffer
    H3Reqs, H3Scenarios, MaxClients,                              \* H3Pool
    H3Calls, StreamScenarios, Max1xx, DatagramQueueLen,           \* H3Stream
    AltReqs, AltModes, MaxPas,                                    \* AltSvc
    Dialers                                                       \* Socks

VARIABLES part, v1, v2, v3, v4, v5, v6, v7, v8, v9, v10, v11, v12, v13, v14, v15, v16,
          v17, v18, v19

all == <<part, v1, v2, v3, v4, v5, v6, v7, v8, v9, v10, v11, v12, v13, v14, v15, v16,
         v17, v18, v19>>

\* The variables a component of n variables has no use for, and their value.
Spare16 == <<v17, v18, v19>>
Spare12 == <<v13, v14, v15, v16, Spare16>>
Spare11 == <<v12, Spare12>>
Spare10 == <<v11, Spare11>>
Spare9  == <<v10, Spare10>>
Spare8  == <<v9, Spare9>>
Spare7  == <<v8, Spare8>>
Spare5  == <<v6, v7, Spare7>>
Zero16  == v17 = 0 /\ v18 = 0 /\ v19 = 0
Zero12  == v13 = 0 /\ v14 = 0 /\ v15 = 0 /\ v16 = 0 /\ Zero16
Zero11  == v12 = 0 /\ Zero12
Zero10  == v11 = 0 /\ Zero11
Zero9   == v10 = 0 /\ Zero10
Zero8   == v9 = 0 /\ Zero9
Zero7   == v8 = 0 /\ Zero8
Zero5   == v6 = 0 /\ v7 = 0 /\ Zero7

----------------------------------------------------------------------------
(* Request.Do, the dumps, Digest authentication and the parallel download  *)

Request == INSTANCE RequestDo WITH
    cfg <- v1, pc <- v2, attempt <- v3, ctx <- v4, err <- v5, resp <- v6, canceled <- v7,
    arrived <- v8, open <- v9, out <- v10, outClosed <- v11, common <- v12, consumed <- v13,
    sent <- v14, late <- v15, failed <- v16

RequestDump == INSTANCE RequestDump WITH
    plan <- v1, ropts <- v2, rctx <- v3, closer <- v4, rpc <- v5, tries <- v6, loop <- v7,
    early <- v8, rbuf <- v9, rfile <- v10

ClientDump == INSTANCE Dump WITH
    setup <- v1, heap <- v2, dumper <- v3, client <- v4, file <- v5, admin <- v6,
    prod <- v7, sink <- v8

Digest == INSTANCE Digest WITH
    dmode <- v1, cache <- v2, dreq <- v3, issued <- v4, assigned <- v5

Download == INSTANCE ParallelDownload WITH
    size <- v1, main <- v2, start <- v3, next <- v4, result <- v5, pc <- v6, task <- v7,
    taskMap <- v8, notify <- v9, errCh <- v10, done <- v11, wg <- v12, waiter <- v13,
    panicked <- v14, files <- v15, tempDir <- v16, cleaned <- v17, output <- v18,
    reported <- v19

----------------------------------------------------------------------------
(* Messages of HTTP/1                                                      *)

Writer == INSTANCE TransferWriter WITH
    wreq <- v1, tpc <- v2, tenc <- v3, tcl <- v4, tbody <- v5, nextByte <- v6, pipech <- v7,
    bodyClosed <- v8, ncopy <- v9, onWire <- v10, werr <- v11

Reader == INSTANCE TransferReader WITH
    rsp <- v1, coming <- v2, inbuf <- v3, lost <- v4, hdr <- v5, call <- v6, cr <- v7,
    bd <- v8, given <- v9, told <- v10

Header == INSTANCE HeaderReader WITH
    htext <- v1, hdump <- v2, unread <- v3, hpc <- v4, piece <- v5, kv <- v6, fields <- v7

----------------------------------------------------------------------------
(* HTTP/2                                                                  *)

H2Pool == INSTANCE H2Pool WITH
    pool <- v1, dialing <- v2, calls <- v3, getter <- v4, addCall <- v5, adder <- v6,
    added <- v7, cc <- v8, ended <- v9, plan <- v10

Frames == INSTANCE Framer WITH
    script <- v1, made <- v2, transit <- v3, inBlock <- v4, meta <- v5, fed <- v6,
    owed <- v7, block <- v8, parsed <- v9, got <- v10, skipped <- v11, up <- v12

H2Body == INSTANCE H2Body WITH
    sit <- v1, wire <- v2, peer <- v3, credit <- v4, ccf <- v5, csf <- v6, pipe <- v7,
    body <- v8, got <- v9

Buffer == INSTANCE DataBuffer WITH
    chunks <- v1, r <- v2, w <- v3, size <- v4, expected <- v5, writtenBytes <- v6,
    readBytes <- v7

----------------------------------------------------------------------------
(* HTTP/3, Alt-Svc and the SOCKS dialer                                    *)

H3Pool == INSTANCE H3Pool WITH
    h3env <- v1, current <- v2, client <- v3, h3req <- v4, h3ended <- v5, h3closed <- v6,
    processed <- v7

H3Stream == INSTANCE H3Stream WITH
    henv <- v1, hconn <- v2, str <- v3, hcancel <- v4, dgram <- v5

AltSvc == INSTANCE AltSvc WITH
    mode <- v1, pending <- v2, pas <- v3, cooling <- v4, jar <- v5, prober <- v6,
    areq <- v7, proven <- v8

Socks == INSTANCE Socks WITH
    dialer <- v1, phase <- v2, input <- v3, want <- v4, proxy <- v5, socksCtx <- v6,
    watcher <- v7, errCh <- v8, deadline <- v9, result <- v10

----------------------------------------------------------------------------
(* What the components' constants are.                                     *)

\* Requests, with the options RequestDo tells apart.
RequestConstants == \A c \in Configs : Request!ConfigOK(c)
ASSUME RequestAssumption == RequestConstants

\* No SetMultipartField reader is combined with retries (Request.Do refuses
\* this for an io.Reader body, but not for the fields).
FieldsReplayable == \A c \in Configs : c.body = "field" => ~c.retry \/ c.max = 0

\* Calls that set up the dump of a request, and at least one attempt.
DumpOptionsType == [out : {"none", "nil", "buf", "w", "file"}, parts : SUBSET RequestDump!AllParts]
DumpCallType == ({"enable"} \X SUBSET RequestDump!AllParts) \cup {<<"to">>, <<"file">>}
                \cup ({"options"} \X DumpOptionsType)
RequestDumpConstants == MaxTries \in Nat \ {0} /\ DumpPlans \subseteq Seq(DumpCallType)
ASSUME RequestDumpAssumption == RequestDumpConstants

\* What the application does to a client with a dump and to its copy.
DumpArgType == [out : {"nil", "std", "w"}, parts : SUBSET Kinds, async : BOOLEAN]
DumpOpType == ({"all", "to", "async", "disable"} \X ClientDump!Clients) \cup {<<"clone", "c1">>}
              \cup ({"without"} \X ClientDump!Clients \X SUBSET Kinds)
              \cup ({"options"} \X ClientDump!Clients \X DumpArgType)
              \cup ({"file"} \X ClientDump!Clients \X ClientDump!Files)
\* No file is dumped to by two clients (ow says whose it is), and the client is
\* cloned, at most once, before it dumps to a file and before its copy is used.
SetupOK(q, ow) ==
    /\ \A i \in 1 .. Len(q) : q[i][1] = "file" => ow[q[i][3]] = q[i][2]
    /\ \A i, j \in 1 .. Len(q) : i < j /\ q[j][1] = "clone" =>
          q[i][1] \notin {"clone", "file"} /\ q[i][2] = "c1"
DumpConstants ==
    \A q \in DumpSetups : /\ q \in Seq(DumpOpType)
                          /\ \E ow \in [ClientDump!Files -> ClientDump!Clients] : SetupOK(q, ow)
ASSUME DumpAssumption == DumpConstants

\* Situations of a host that asks for Digest authentication.
DigestConstants ==
    \A m \in DigestModes :
       /\ m.reqs \subseteq DigestReqs /\ m.body \in {"none", "getBody", "reader"}
       /\ m.fresh \in BOOLEAN
ASSUME DigestAssumption == DigestConstants

\* Do puts a default in the place of a concurrency or a segment size that is
\* not positive; the Content-Length of the HEAD response may be anything.
DownloadConstants ==
    Concurrency \in Nat \ {0} /\ SegmentSize \in Nat \ {0} /\ ContentLengths \subseteq Int
ASSUME DownloadAssumption == DownloadConstants

\* WINDOW_UPDATE and SETTINGS_INITIAL_WINDOW_SIZE carry 31 bits.
H2BodyConstants ==
    /\ MaxWindow \in Nat \ {0} /\ MaxFrameSize \in Nat \ {0}
    /\ \A e \in Situations : /\ e.increments \subseteq 0 .. MaxWindow
                             /\ e.initials \subseteq 0 .. MaxWindow /\ e.upload \in Nat
ASSUME H2BodyAssumption == H2BodyConstants

\* Finitely many requests over HTTP/3, in the situations H3Pool describes.
H3PoolConstants == IsFiniteSet(H3Reqs) /\ H3Scenarios \subseteq H3Pool!H3ScenarioType
ASSUME H3PoolAssumption == H3PoolConstants
H3StreamConstants == \A e \in StreamScenarios : e.calls \subseteq H3Calls
ASSUME H3StreamAssumption == H3StreamConstants

\* Settings of the Alt-Svc code, and of the dialer.
AltSvcConstants == AltModes \subseteq AltSvc!AltModeType
ASSUME AltSvcAssumption == AltSvcConstants
SocksConstants == Dialers \subseteq Socks!DialerType
ASSUME SocksAssumption == SocksConstants

----------------------------------------------------------------------------
Init ==
    /\ part \in Parts
    /\ \/ part \in {"request", "upload"} /\ Request!Init /\ Zero16
       \/ part = "download" /\ Download!Init
       \/ part = "requestDump" /\ RequestDump!Init /\ Zero10
       \/ part = "dump" /\ ClientDump!Init /\ Zero8
       \/ part = "writer" /\ Writer!Init /\ Zero11
       \/ part = "reader" /\ Reader!Init /\ Zero10
       \/ part \in {"header", "dumped"} /\ Header!Init /\ Zero7
       \/ part = "h2pool" /\ H2Pool!Init /\ Zero10
       \/ part \in {"h2body", "closedTwice"} /\ H2Body!Init /\ Zero9
       \/ part = "buffer" /\ Buffer!Init /\ Zero7
       \/ part = "h3pool" /\ H3Pool!Init /\ Zero7
       \/ part = "h3stream" /\ H3Stream!Init /\ Zero5
       \/ part = "digest" /\ Digest!Init /\ Zero5
       \/ part = "altsvc" /\ AltSvc!Init /\ Zero8
       \/ part = "socks" /\ Socks!Init /\ Zero10
       \/ part = "frames" /\ Frames!Init /\ Zero12

Next ==
    /\ UNCHANGED part
    /\ \/ part \in {"request", "upload"} /\ Request!Next /\ UNCHANGED Spare16
       \/ part = "download" /\ Download!Next
       \/ part = "requestDump" /\ RequestDump!Next /\ UNCHANGED Spare10
       \/ part = "dump" /\ ClientDump!Next /\ UNCHANGED Spare8
       \/ part = "writer" /\ Writer!Next /\ UNCHANGED Spare11
       \/ part = "reader" /\ Reader!Next /\ UNCHANGED Spare10
       \/ part \in {"header", "dumped"} /\ Header!Next /\ UNCHANGED Spare7
       \/ part = "h2pool" /\ H2Pool!Next /\ UNCHANGED Spare10
       \/ part \in {"h2body", "closedTwice"} /\ H2Body!Next /\ UNCHANGED Spare9
       \/ part = "buffer" /\ Buffer!Next /\ UNCHANGED Spare7
       \/ part = "h3pool" /\ H3Pool!Next /\ UNCHANGED Spare7
       \/ part = "h3stream" /\ H3Stream!Next /\ UNCHANGED Spare5
       \/ part = "digest" /\ Digest!Next /\ UNCHANGED Spare5
       \/ part = "altsvc" /\ AltSvc!Next /\ UNCHANGED Spare8
       \/ part = "socks" /\ Socks!Next /\ UNCHANGED Spare10
       \/ part = "frames" /\ Frames!Next /\ UNCHANGED Spare12

Spec == Init /\ [][Next]_all

----------------------------------------------------------------------------
(* Properties: what each component promises, of the behaviours of its part. *)

\* Client.roundTrip and Request.do: no abandoned response keeps its connection,
\* and a file that was downloaded without an error holds the final response
\* and nothing of the attempts before it.
NoBodyLeak ==
    part = "request" => Request!NoBodyLeak /\ Request!FileIsFinalResponse

\* Request.do: Response.Err is set if and only if a step of the last attempt
\* failed; Do does not give up on a transport error while budget and context
\* are left; and the end of the context stops the retries, even if response
\* middleware swallows the error.
RetriesRight ==
    part = "request" =>
        /\ Request!TypeOK /\ Request!ErrReported
        /\ Request!ErrorsRetried /\ Request!CancelStopsRetries

\* Request.Do: an upload is complete in every attempt.  digestAuth: also in
\* the copy that answers a challenge, with credentials never used before.
BodyReplayed ==
    /\ part = "request" => Request!BodyReplayed
    /\ part = "digest" => Digest!ReplayComplete /\ Digest!CountsFresh

\* "A retry repeats the request": the same cookies, form fields and body.
SameRequest == part = "upload" => Request!SameRequest

\* ParallelDownload.Do: success means the whole output, segment by segment in
\* order, every failure of a worker or of the merger is reported, and the
\* WaitGroup's counter stays in its range.
DownloadComplete ==
    part = "download" =>
        Download!TypeOK /\ Download!NoSilentFailure /\ Download!CompleteOnSuccess

\* Response.Dump shows the attempt the Response belongs to (prepareRetry).
\* Dumper.Stop: switching the dump off loses nothing dumped before; and the
\* setters of a client act on its running Dumper, whatever the order of calls.
DumpFaithful ==
    /\ part = "requestDump" => RequestDump!DumpIsFinalAttempt
    /\ part = "dump" => ClientDump!DisableFlushes /\ ClientDump!SettersReachDumper

\* transferWriter: the server reads exactly the body that was given, and a
\* body that breaks is not taken for a complete one; over HTTP/3 too.
RequestFramed ==
    /\ part = "writer" => Writer!RequestFramed
    /\ part = "h3stream" => H3Stream!UploadHonest

\* readTransfer, body and chunkedReader: every response is read to its own end
\* and no further, and a Read with data in hand does not wait for more.
MessageBoundary == part = "reader" => Reader!MessageBoundary /\ Reader!NoWaitWithData

\* textprotoReader: a well-formed header is read as the fields it says.
HeaderMeaning == part \in {"header", "dumped"} => Header!HeaderMeaning

\* Framer: what was written is what is parsed; header blocks are whole, of one
\* stream, and leave the hpack decoder in step with the peer.
FramesFaithful == part = "frames" => Frames!WriteParse /\ Frames!HeaderBlockIntact

\* clientConnPool: requests share dials but not each other's cancellation, and
\* AddConnIfNeeded tells the truth about the connection it was offered.
PoolHonest == part = "h2pool" => H2Pool!CancelNotShared /\ H2Pool!HandoverExact

\* pipe, dataBuffer and transportResponseBody: the caller reads the response
\* body, its bytes in order and its end only when it ended; over HTTP/3 never
\* more than its Content-Length.
BodyFaithful ==
    /\ part = "h2body" => H2Body!BodyFaithful
    /\ part = "buffer" => Buffer!BufferIsQueue
    /\ part = "h3stream" => H3Stream!ResponseFaithful

\* Flow control of responses: no byte of the connection's window is lost or
\* returned twice, and a server that keeps to its windows is never refused or
\* starved; for bodies closed once and servers that keep to Content-Length.
WindowConserved ==
    part \in {"h2body", "closedTwice"} => H2Body!WindowConserved /\ H2Body!PolitePeerServed

\* Flow control of requests: the server's windows are never overdrawn.
NoOverdraft == part = "h2body" => H2Body!NoOverdraft

\* http3.Transport: no request is acted on twice, and CloseIdleConnections
\* spares clients with a request in RoundTrip.  http3.Conn: the streams it
\* counts are the registered ones in use, so that a graceful shutdown ends with
\* the last of them and cuts none off; a request between OpenStreamSync and its
\* registration is not counted, and may be cut off.
H3Careful ==
    /\ part = "h3pool" => H3Pool!ProcessedOnce /\ H3Pool!RoundTripSpared
    /\ part = "h3stream" => H3Stream!StreamsTracked

\* CloseIdleConnections: "This method does not interrupt any connections
\* currently in use."
InUseSpared == part = "h3pool" => H3Pool!InUseSpared

\* Alt-Svc: the jar holds what was seen to work.  With fallback and a cooldown
\* nothing stays pending without someone at work on it; without fallback, the
\* default, only after every entry of the header has failed.
AltSvcSettles == part = "altsvc" => AltSvc!AltSvcSettles

\* socks.Dialer: the connection it returns is ready for the target.
CleanHandover == part = "socks" => Socks!CleanHandover
=============================================================================
