# A TLA+ model of req

`req` is a Go HTTP client library: a request builder with middleware and retries
on top of its own copy of the `net/http` transport for HTTP/1, HTTP/2 and HTTP/3.
This directory holds TLA+ modules translated from its source, TLC configurations
that check them on small instances, and TLAPS proofs for every instance.
Paths below are relative to the repository (`src/` in `PROJECT.json`).

Every definition that models code keeps the name of the Go function where TLA+
allows it; `PROJECT.json` maps each one to its lines. Definitions whose name ends
in `_something` and whose comment begins with *Mutant* are deliberately wrong
versions of the definition that follows: replacing the definition by its mutant
makes TLC violate the property `PROJECT.json` names, which shows that the property
depends on that piece of code.

## 1. Inventory

| Component | Source | State it keeps | Operations | Interacts with | What is hard |
|---|---|---|---|---|---|
| HTTP/1 connection pool | `transport.go` | idle lists per host, LRU, waiting wantConns, dial queue, `connsPerHost` | getConn, queueForIdleConn, queueForDial, dialConnFor, tryPutIdleConn, removeIdleConn, idle timer, CloseIdleConnections | persistConn goroutines, HTTP/2 via ALPN | an idle connection, a dial and a cancellation race for one caller; exact counting; hand-over |
| persistent connection | `transport.go` | broken flag, pending request, read and write goroutines | readLoop, writeLoop, roundTrip, wroteRequest, waitForContinue, bodyEOFSignal | pool, user's body reader | early responses, write errors against read errors, cancel at any time |
| Transport.roundTrip | `transport.go` | request body rewinds, cancel map | roundTrip, rewindBody, shouldRetryRequest, alternate protocols | pool, HTTP/2, HTTP/3, Alt-Svc | what may be sent twice |
| HTTP/2 connection | `internal/http2/transport.go` | streams, reservations, next stream id, settings, GOAWAY, windows, pings | RoundTrip, roundTrip, writeRequest, cleanupWriteRequest, abortStream, readLoop handlers, Shutdown, Close | its pool, frame reader, body pipe | concurrent-stream limit, GOAWAY against new streams, every exit path gives its stream back |
| HTTP/2 pool | `internal/http2/client_conn_pool.go` | connections by address, dials and adds in flight | GetClientConn, AddConnIfNeeded, MarkDead, CloseIdleConnections | HTTP/2 connections, transport | shared dials, a connection that dies while it is added |
| HTTP/2 flow control | `internal/http2/flow.go` | send windows, receive windows and unsent credit | take, add, awaitFlowControl, processData, Read, Close | streams | 31-bit arithmetic, bytes that must be refunded exactly once |
| HTTP/2 pipe, buffer | `internal/http2/pipe.go`, `databuffer.go` | buffer, three errors | Read, Write, CloseWithError, BreakWithError | body reader and read loop | data before error, break at once |
| HTTP/2 framing | `internal/http2/frame.go` | header block in progress | ReadFrame, checkFrameOrder, readMetaFrame, Write* | connection | CONTINUATION sequences, limits |
| HTTP/3 transport | `internal/http3/transport.go` | clients by host with use counts | RoundTripOpt, getClient, removeClient, Close, CloseIdleConnections | quic, Alt-Svc | shared dials, removal while in use |
| HTTP/3 connection and streams | `internal/http3/*.go` | streams, control stream, state tracking | OpenRequestStream, ReadResponse, Read, Write, Close | quic | which half closed with which error |
| Alt-Svc, HTTP/3 fallback | `transport.go`, `internal/altsvcutil` | jar, pending Alt-Svc entries | handleAltSvc, handlePendingAltSvc, roundTripAltSvc, fallback | HTTP/3, HTTP/1-2 | concurrent upgrade, what may be retried over TCP |
| Request lifecycle | `request.go`, `client.go`, `middleware.go`, `response.go`, `retry.go` | the Request (headers, body, retry count), Response, output | Do, do, tryRetry, prepareRetry, Client.roundTrip, middleware, handleDownload | transport | a retried request must be the same request; errors travel through shared variables; bodies must be closed |
| Parallel download | `parallel_download.go` | task map, channels, WaitGroup, temporary files | Do, startWorker, handleTask, mergeFile, popTask, cleanupTempDir | requests, file system | five kinds of goroutines and four channels |
| Dump | `dump.go`, `internal/dump` | channel of 20 entries, start, stop and done channels | Start, Stop, DumpTo, Clone | all transports | a bounded queue, Stop against writers |
| Digest authentication | `digest.go` | challenge cache with nonce counts | HttpRoundTripWrapper | request, cookies | counts under concurrency, replay |
| Redirects | `redirect.go` | none | policies | net/http client | order of policies |
| Message transfer | `transfer.go`, `textproto_reader.go`, `internal/chunked.go` | remaining length, chunk state | transferReader, transferWriter, body.Read, chunkedReader.Read | persistConn | body length rules, EOF |
| SOCKS5 | `internal/socks` | none | connect, authentication | dialer | deadline and cancellation |
| everything else | see `PROJECT.json` | – | decoding, charsets, tracing, DNS, TLS fingerprints, wasm, helpers, vendored runtime packages, tests, examples | – | tables, text, I/O |

The properties that make each modelled component correct are given with its
module below.

How the models divide the code: `ConnPool` is who owns a connection, `Exchange` what happens on
it (and shows that reuse keeps the contract `RoundTripper`), `TransferWriter`, `TransferReader` and
`HeaderReader` how messages are cut out of its bytes. `H2Pool` is to `H2Conn` what ConnPool is to
Exchange; `H2Conn` has the life of streams, `H2Body` and `DataBuffer` their bytes, `Framer` the wire.
`AltSvc` decides between them and `H3Pool`, whose connections are `H3Stream`. `RequestDo`, `Digest`,
`RequestDump`, `Dump` and `ParallelDownload` are the client on top.

## 2. Modules

### ConnPool (`transport.go`), MCConnPool, ConnPoolProofs, ConnPoolOwners

One call of `getConn` is one element of `Reqs`; it owns one `wantConn`, is dialled for
at most once, and the persistConn dialled for it has the same name. `caller` follows
getConn (`start`, `queueForDial`, `select`, `using`, `returned`), `dialer` the goroutine
of dialConnFor, `put` the three places that return a connection (the read loop, the
dial goroutine whose caller is gone or whose connection is HTTP/2, the deferred
`w.cancel`), `reader` the read loop of an HTTP/1 connection. The other variables are the
fields of Transport: `idleConn`, `idleLRU`, `idleConnWait`, `closeIdle`, `connsPerHost`,
`connsPerHostWait`, `dialsInProgress`. An action is one critical section (`idleMu`,
`connsPerHostMu`, `persistConn.mu`, `wantConn.mu`), with everything nested in it, so
all interleavings of the goroutines at lock granularity are explored: the test of
`isBroken` before `idleMu` is taken is a step of its own.

A request that has a connection ends in one step (`UseConn`); what happens on the
wire is the persistent connection's business. The panics the code calls internal
errors are recorded in `panics` instead of ending the model.

* `SlotAccounting`: connsPerHost is exactly the number of dials under way plus open
  connections, and at most MaxConnsPerHost.
* `NoStrandedWaiter`: whoever waits for permission to dial is queued at a host that is
  full. `AllServed`, the state `CallersServed` of MCLive says is reached: everybody is
  answered, and without keep-alives every connection is closed.
* `ExclusiveOwner`, `NoOrphan`: an open HTTP/1 connection is in exactly one hand.
* `NoIdleWhileWanted`, `IdleIndexed`, `DialsTracked`, `NoPanic`, `IdleTimeoutSparesUsed`:
  the lists agree with one another and the timer never closes what a request has.
  `EvictionSafe` is NoPanic, IdleIndexed and NoOrphan; MCExchange checks it with two hosts
  that share room for one idle connection.

### ParallelDownload (`parallel_download.go`), MCParallelDownload

Do, the workers, the merger and the goroutine in `wg.Wait` are processes. The unbuffered
`taskCh` is a rendezvous between Do and an idle worker; `taskMap`, `taskNotifyCh`
(capacity Concurrency), `errCh` (capacity one), `doneCh` and the WaitGroup are
variables; a select is a disjunction. A segment's contents are its byte range, so
"the output is the resource" is a statement about consecutive ranges. Every call that
can fail (HEAD, creating a file, GET, the output file, the copy, the removal of the
temporary directory) may fail at any time.

* `CompleteOnSuccess`: Do returns nil only if the output is the whole resource in order.
* `NoSilentFailure`: no reported error is lost between errCh and wgDoneCh.
* `DoReturns`: Do returns. `Ended`, the state `DownloadEnds` of MCLive says is reached once
  doneCh is closed: workers, merger and temporary files are gone.

`protocols` checks the two invariants as `DownloadComplete`.

### RequestDo (`request.go`, `client.go`, `middleware.go`, `response.go`, `retry.go`)

One call of `Request.Do`: the retry loop of `do`, the user's and the built-in request
middleware, `Client.roundTrip` with its response middleware, and the request's own
response middleware. `cfg` is the request as the setters left it (retry option, retry
conditions, kind of body, output, automatic reading, size limit, result object,
common cookies and form data); `resp` is the Response, `err` the variable `err` of do,
`open` the response bodies not closed yet, `sent` the requests as they left. The user's
code (conditions, middleware, GetBody) answers nondeterministically; the context may
end between any two steps. `unReplayableBody` is `cfg.body = "reader"`.

* `NoBodyLeak`: no abandoned attempt keeps its connection, and the final response does only where its body is the caller's
  (no automatic reading, or a 101) or its file cannot be created.
* `ErrReported`: Response.Err is set exactly when the last attempt failed.
* `CancelStopsRetries`, `ErrorsRetried`: when do goes on and when it stops.
* `BodyReplayed`, `FileIsFinalResponse`: what is sent and what is saved.

In `protocols` the first and the last are one property (`NoBodyLeak`), those on errors and
retries another (`RetriesRight`).

### Digest (`digest.go`)

`HttpRoundTripWrapper` for the requests to one host: the copies (`cloner`, `clone`), `prepare` with
the shared challenge, both round trips, and what a 401 does to the cache. `cache` is the cached challenge and its
count, `dreq[r]` a request, `assigned` the credentials computed so far.

* `CountsFresh`: no credentials are used twice. `ReplayComplete`: both copies carry the whole body, and
  the second one answers a challenge.

### H2Conn (`internal/http2/transport.go`), MCH2Conn, H2ConnProofs

One `ClientConn` with the calls of `RoundTripOpt` that use it. Each call has a caller
(`caller`: waiting in roundTrip, reading or closing the response body) and a writer
(`writer`: the goroutine of `doRequest`); `cs` is its `clientStream`, `cc` the fields of the
connection guarded by `mu`, `streams` the map, `reqHeaderMu` the lock from the choice of a
stream ID to its HEADERS. The read loop is one action per frame type, `readError` and
`readLoopCleanup`. `shutdown` and `idleTimer` are the goroutines of Shutdown and the idle timer.
`env` is the scenario, fixed in the initial state: the options of the Transport, the server's
stream limits, the calls made and the events that may happen, so that one run covers several
configurations. What the server knows is kept in three history variables: `disowned` (it
said that it did not process the stream), `rst` (the stream was reset) and `highest`.

Flow control is reduced to "a window may be missing"; bytes, headers and the content of
frames are left out. A further attempt of a call on the same connection starts after the
writer of the attempt before has ended, because the model keeps one writer per call.

* `ReservationsHeld`, `BodyReleased`, `NoHalfOpenStream`: each exit path gives everything back. `NoHalfOpenStream` reads
  `endStream`, a history field for the END_STREAM that was written, and not `sentEndStream`; `NeverEnded` is its exception (the observation on Trailer).
* `OpenInOrder`: HEADERS in the order of the IDs.
* `RetryUnprocessed`: only a request the server did not process is repeated.
* `WaiterHasWaker`: a writer waiting for a slot has a stream to wait for.
* `CanceledReturned`, `LossReleased`: the states MCLive says are reached (`CancelReturns`,
  `ConnLossReleases`); nobody is left waiting, Shutdown included. Fairness: goroutines that can run do run (Go's scheduler), `Read` of a request body returns, a user
  closes a response body that has ended, and a closed TCP connection makes ReadFrame fail.
  Nothing is assumed of the server: it need not answer or open windows.

### Exchange (`transport.go`), RoundTripper, MCExchange, ExchangeProofs, ExchangeAnswers

`Transport.roundTrip` with its retry loop, `persistConn.roundTrip`, and `readLoop` and
`writeLoop` of every connection. `req[r]` is the caller (its place in roundTrip, its request
body, the channels of its requestAndChan), `conn[c]` a persistConn (both loops, `reqch`,
`writech`, `writeErrCh`, `numExpectedResponses`, the broken and reused flags, whether it is in
the idle list), `net[c]` the two directions of its TCP connection. A step is the code
between two blocking operations; a select is a disjunction. The server reads and
answers in its own time, may answer before the body, send 1xx, close, reset or
send an unasked 408; `env` fixes what may happen in a situation, so one run covers many. The pool is
reduced to the set of idle connections; `ConnPool` says why it may be;
MCExchange checks its eviction beside Exchange (`part`).

`RoundTripper` is the contract, in three actions and without connections: one answer to
each request, its own; more than one action of the server only on a request that may be
repeated. `ImplementsRoundTripper` is `Promised!Spec` under the refinement mapping that
forgets connections and channels: the server handles a request (`Handle`), the caller gets
its answer (`Answer`) or an error or 408 (`Refuse`), everything else stutters.

* `RequestsNotMixed`: the server never reads the bytes of one request as another's.
* `IdleIsClean`: what the idle list holds is fit for the next request.
* `BodyReleased`: the request body is closed or the write loop still has it.
* `CanceledReturned`, `BodyCallsReturned`: reached in the end (`CancelReturns`, `BodyCallReturns`).
  Fairness: the caller and the two loops of a connection run when they can, and the
  user's Read and Close of bodies return; the server need not do anything.

### H2Body, DataBuffer (`internal/http2/flow.go`, `pipe.go`, `databuffer.go`, `transport.go`)

The bytes that H2Conn leaves out. `pipe[s]` is the pipe of a stream with its buffer, its
two errors and `unread`; `ccf` and `csf[s]` are the `inflow` and `outflow` of the connection and
of the streams; `body[s]` is where the caller is in Read or Close, which take locks several times;
`wire` is what the server has sent and the read loop has not handled. The bytes of a
response are numbered. The server is external: it keeps to the windows it was told (`peer`,
`credit`), sends DATA with padding, trailers, RST_STREAM, WINDOW_UPDATE and SETTINGS. Windows
of streams are int32 with wrap-around at `MaxWindow` (2^31-1 in the code).

* `BodyFaithful`: the caller reads a prefix of what was sent, and EOF only at its end.
* `WindowConserved`, `PolitePeerServed`: no byte of the window is lost or returned twice, and
  a server that keeps to its windows is neither refused nor starved.
* `NoOverdraft`: uploads never exceed the server's windows, lowered ones included.

`DataBuffer` is `dataBuffer` with its chunks, size classes and offsets, checked against a queue of
bytes (`BufferIsQueue`).

### H2Pool (`internal/http2/client_conn_pool.go`)

`GetClientConn` (with shared dials, single-use and cached-only requests), `dialCall`,
`AddConnIfNeeded` with its addConnCall, `MarkDead` and `CloseIdleConnections`, one step per
critical section of `p.mu`. A ClientConn is whether it lives and how many streams it has room for.

* `CancelNotShared`: a request fails as canceled only if its own context ended.
* `HandoverExact`: AddConnIfNeeded says *used* if and only if a ClientConn runs on the connection.

### Framer (`internal/http2/frame.go`)

The `Write` functions of one Framer, the wire, and `ReadFrame` of another: header, parsers,
`checkFrameOrder`, and `readMetaFrame` with its emit function, limits and pseudo-header
checks. Payloads are sequences of digits of base 8, so that lengths, reserved bits and
`% 2^32` are the real computations on numbers TLC can hold. A byte of a header block is a
field; hpack is external and its dynamic table is the sequence of bytes it was given.

* `WriteParse`: what a Write function accepts is what the other side's parser gets.
* `HeaderBlockIntact`: a header is the block of one stream, in order and up to the limit,
  and the decoder has seen every byte of the peer's encoder as long as the connection lives.

### H3Pool (`internal/http3/transport.go`)

The map of clients for one host. `client[i]` is a roundTripperWithCount: dialing, connected,
dead or closed, and its useCount; `current` is the entry of the map; `h3req[r]` a request: waiting
for the dial, in RoundTrip, retrying once, reading its body. `AddConn`, `CloseIdleConnections`,
`Close` and the end of a connection may come at any time.

* `ProcessedOnce`: the retry never repeats a request the server processed.
* `RoundTripSpared`: CloseIdleConnections spares clients with a request dialing or in
  RoundTrip. `InUseSpared` is what its comment says, and does not hold.

### H3Stream (`internal/http3`: `conn.go`, `client.go`, `stream.go`, `state_tracking_stream.go`, `body.go`, `frames.go`)

One connection and its requests. `str[r]` is the request stream: where its caller is
(`pc`), its two sides (`send` and `recv` are sendErr and recvErr, `snd` what QUIC sends), the goroutines that
send the body and watch the context, the Read of the response body (`rd`) and what it has been told.
`hconn` is the Conn with its streams and the limit of GOAWAY; `dgram[r]` the queue of datagrams and
`hasData`. The server answers with a sequence of frame headers and DATA bytes and may reset, stop, shut
down gracefully or break the rules.

* `ResponseFaithful`: no more than Content-Length is read, io.EOF means that everything was read and the trailers
  parsed, reqDone is closed once. `UploadHonest`: a body that broke is never finished.
* `StreamsTracked`: `c.streams` is exactly the registered streams with an open side, and a graceful
  shutdown closes the connection when none of them is left and not before (`hconn.cut`, a history variable, has the streams in use
  when that was decided). It does not protect a request that has opened its stream and not registered it yet, or
  registers it after `handleControlStream` found no stream: the code closes the connection under that one.
  Who waits for a datagram has a token when there is something to see.
* `CanceledReturned`, `LossReleased`: reached in the end (`CancelReturns`, `ConnLossReleases`). Fairness: the caller,
  the goroutine that watches the context, and a Read that was called; the server need not answer.

### AltSvc (`transport.go`, `pkg/altsvc`)

The upgrade of one authority: `handleAltSvc` and the goroutine of `handlePendingAltSvc` that
tries the entries in turn, `checkAltSvc` with the jar, the pending entry under `pas.Mu` and the
cooldown, `roundTripHTTP3AltSvc` with the fallback. `mode` is the configuration (fallback, cooldown,
number of entries, outcomes of a dial and a round trip).

* `AltSvcSettles`: the jar holds only what carried a request. With fallback and cooldown a pending entry has
  someone at work on it; without fallback, the default, it may be left to itself, but only after each of its entries has failed (`failed`,
  a history field of `pas`). The third mode, fallback with a cooldown of zero, is left out.

### Socks (`internal/socks`)

`DialContext`, `connect` with the goroutine that watches the context, `connect4` and
`connect5`. `Transport.dialConn` has a connection already: it calls `DialWithConn` and closes the connection itself when
that fails, which is what `DialContext` does after its dial. The connection is the sequence of bytes not read yet; the proxy answers every
message with some reply, right or wrong, and may hang up or send the target's bytes at once.

* `CleanHandover`: the connection returned has no handshake byte left, has lost no byte of the target, carries
  no deadline and nobody who may set one; on an error it is closed.

### Dump, RequestDump (`dump.go`, `internal/dump/dump.go`, `client.go`, `request.go`)

`Dump` is the dump of a client: the Dumper with its bounded queue `ch`, the goroutine that
drains it, `stopCh` and `doneCh`, and the functions of Client and Transport that configure, switch and
clone it. Options are held by pointer and shared, so they live in `heap`; `file` is whether a
dump file is open, `sink` what was written. An application calls a sequence of setters (`setup`)
while two requests dump pieces with the Dumper they found.

* `DisableFlushes`: when the file is closed, all that was accepted before Stop is in it.
* `SettersReachDumper`: the running Dumper works with the client's options object.

`RequestDump` is the dump of one request over the attempts of Do: `dumpBuffer`, its reset in
prepareRetry, and the write loop of an abandoned attempt, which may still be writing.

* `DumpIsFinalAttempt`: Response.Dump shows the last attempt, except for the request body that the
  write loop of an early-answered attempt still dumps.

### TransferWriter, TransferReader, HeaderReader (`transfer.go`, `internal/chunked.go`, `textproto_reader.go`)

`TransferWriter`: newTransferWriter and probeRequestBody with its goroutine and timer,
writeHeader, writeBody and the chunked writer. The body is the bytes 1, 2, ...; the server's
reading of the wire is defined from the rules of HTTP and is the reference.

* `RequestFramed`: a request written without an error is read as exactly its body; a broken one is
  never complete; the body is closed.

`TransferReader`: readTransfer (fixLength, Transfer-Encoding, shouldClose) and the reader it
chooses: chunked with trailer, limited, until the end of the connection. Bytes arrive one at a
time and the connection may be lost at any of them; a Read is a loop of the steps of
chunkedReader.Read and body.readLocked.

* `MessageBoundary`: EOF means the whole body, and what follows on the connection is
  the next response, untouched. `NoWaitWithData`: at the end of a chunk, a Read with data returns.

`HeaderReader`: readMIMEHeader over a small bufio.Reader, with continuation lines, and
readLine with and without a dump; the reference is the division of the text into lines
and logical lines, and of these into a name and a value without the spaces around it, by RFC 9112.

* `HeaderMeaning`: a well-formed header gives its fields and nothing behind it is consumed. The reference is defined on the
  text alone, with none of the reader's operators but `trim` and the search for line ends; it has one exception (`EndsBlank`), the observation on blank continuation lines below.

### Protocols, MCProtocols, MCLive

Three modules that instantiate the others. In `Protocols` a behaviour is one of the
component that `part` names; the components have no variables in common, so a product of their
state spaces would show nothing more. Its variables `v1` to `v19` are read by every component in
its own way. Each property is guarded by its part and names what the component promises. The
constants of the components are constants of `Protocols`, with what the proofs assume of them
(`RequestAssumption` and so on); `MCProtocols` has their values for TLC.

`MCLive` does the same for what must happen in the end. `[]<>P` is the form of all five
properties: each `P` says that nobody is in a place he has to leave, and since every
modelled execution is finite in its calls and ends in stuttering, `[]<>P` says that `P` holds from some time on.
Fairness is weak and per goroutine: a goroutine that can run does run. That is what
Go's scheduler and its channels and mutexes give, as no action of one goroutine here is
enabled and disabled again for ever by others. Where a step waits for something outside (a dial, Read of a
request body, a request on a connection that was handed out) it is assumed to end, because
the code bounds it by a context, a timeout or the caller; the exact list is the definition
of each `...Fairness`. Nothing is assumed of cancellation, timers and servers.

## 3. Runs

Every run finishes within five minutes on two workers with TLC's coverage statistics, which
show that every action of every module fires in some passing run.

| Run | Module, configuration | Expected | Properties | Shows |
|---|---|---|---|---|
| `pool_core` | MCConnPool, `ConnPool_core.cfg` | pass | TypeOK, SlotAccounting, NoStrandedWaiter, ExclusiveOwner, NoIdleWhileWanted, DialsTracked, IdleTimeoutSparesUsed | Three getConn calls to one host limited to one connection, with cancellation and failed dials, HTTP/2, the idle timeout and a call of CloseIdleConnections, any two of these last three at a time or, with two calls, all of them and peers that close connections: slots are counted exactly, none is lost, no HTTP/1 connection is in two hands and every running dial can be found. |
| `pool_orphan` | MCConnPool, `ConnPool_orphan.cfg` | violation | NoOrphan | With an idle timeout, CloseIdleConnections between queueForIdleConn and the closeConnIfStillIdle it started leaves an open connection that nobody owns. |
| `download_hang` | MCParallelDownload, `ParallelDownload_hang.cfg` | violation | DoReturns | With more segments than workers and nothing failing, a merger that finds every segment in taskMap leaves taskNotifyCh full; the worker of the last segment blocks on it and Do waits forever. |
| `h2_conn` | MCH2Conn, `H2Conn_safe.cfg` | pass | TypeOK, ReservationsHeld, RetryUnprocessed, BodyReleased, NoHalfOpenStream, WaiterHasWaker, OpenInOrder | One HTTP/2 connection, up to two calls at a time, in twelve scenarios that combine the two stream-limit modes with GOAWAY, RST_STREAM, cancellation, connection loss, write errors, protocol errors, lost pings, Shutdown, idle timers, bad requests and a request with Trailer but no body: streams open in order and are closed on both sides (but for the observation on that request), reservations and request bodies are given back, only unprocessed requests are repeated, and no writer sleeps without a stream to wait for. |
| `h2_ctx` | MCH2Conn, `H2Conn_ctx.cfg` | violation | TimeoutEndsRead | The response arrives while the upload waits for a window; when the context then ends nobody wakes the writer, so the pipe of the response body stays open and the reader stays blocked. |
| `exchange` | MCExchange, `Exchange_all.cfg` | pass | RequestsNotMixed, IdleIsClean, BodyReleased, EvictionSafe, ImplementsRoundTripper | Two HTTP/1 requests, one after the other or together, on up to two connections with their read and write loops, in eleven situations: early answers, 100-continue, servers that close, reset or time out, cancellation, timeouts, failing bodies and a pool that refuses or closes connections. Every request gets its own answer and is repeated only when that is allowed; connections are recycled only when clean; request bodies are closed. Beside it, three calls to two hosts of the HTTP/1 pool that share room for one idle connection: eviction keeps the lists consistent and loses no connection. |
| `protocols` | MCProtocols, `Protocols.cfg` | pass | NoBodyLeak, RetriesRight, BodyReplayed, DownloadComplete, DumpFaithful, RequestFramed, MessageBoundary, HeaderMeaning, FramesFaithful, PoolHonest, BodyFaithful, WindowConserved, NoOverdraft, H3Careful, AltSvcSettles, CleanHandover | Sixteen components side by side, each alone: Request.do, Digest authentication, the dumps of requests and clients, the parallel download, HTTP/1 requests, responses and headers, HTTP/2 frames, pool, bodies and flow control, the HTTP/3 clients and streams, Alt-Svc and the SOCKS dialer keep what they promise under failures, cancellation and every interleaving of their goroutines. |
| `liveness` | MCLive, `Liveness.cfg` | pass | CallersServed, CancelReturns, ConnLossReleases, BodyCallReturns, DownloadEnds | Under fair scheduling of the goroutines: callers of getConn are answered and their connections closed, canceled requests of HTTP/1, 2 and 3 return, the end of a connection releases everybody on it, Read at EOF and Close return, and a parallel download ends without leaving goroutines or files. |
| `request_repeat` | MCProtocols, `RequestDo_repeat.cfg` | violation | SameRequest | A retried upload is not the request that failed: the client's cookies and form fields are in it twice and a part set with SetMultipartField is empty. |
| `header_dump` | MCProtocols, `HeaderReader_dump.cfg` | violation | HeaderMeaning | With a Dumper that wants response headers, a header line longer than the buffer is read as several lines. |
| `h2_credit` | MCProtocols, `H2Body_credit.cfg` | violation | WindowConserved | A response body that is closed a second time returns its unread bytes to the connection's window again. |
| `h3_idle` | MCProtocols, `H3Pool_idle.cfg` | violation | InUseSpared | CloseIdleConnections closes the HTTP/3 connection of a response whose body is still being read. |

`CHECK_DEADLOCK FALSE` is used everywhere: the modelled calls are finite in number
and the system rightly stops when all of them have returned. Absence of unwanted
blocking is stated by the liveness properties instead.

The bounds, and why they are enough:

* **ConnPool**: three calls, the least number with a caller holding, a caller waiting
  and a caller between the two, so that hand-over with a canceled entry in front of
  the queue happens; limits of one, so every queue is used. HTTP/2, the idle timeout and
  CloseIdleConnections are explored by twos with three calls, and all three, with peers
  that close connections, with two calls (`part` of MCConnPool); two hosts where eviction
  crosses hosts (`exchange`), with peers that close until the last call begins. The calls of
  `pool_core`, and the two to one host of `exchange`, are interchangeable (symmetry);
  `liveness` uses none. Fairness: every goroutine that can run does run, dials end
  (they have a context and the operating system's timeout) and a request that
  got a connection ends; no fairness on cancellation, timers, peers.
* **ParallelDownload**: two workers, segments of two bytes and lengths that give no, one,
  two and three segments, exact multiples and a short last one included; three segments
  are one more than the capacity of taskNotifyCh, where `download_hang` shows that Do may
  never return. Fairness: weak for each goroutine; requests end because of the client's timeout.
* **RequestDo**: two retries, so an attempt that is neither the first nor the last exists;
  all combinations of the options that change control flow. MaxAttempts bounds the
  retries where MaxRetries is negative (unlimited).
* **Digest**: three requests that are all challenged, two with other answers and faults; four challenges.
* **H2Conn**: two calls at a time are enough for one to wait for, overtake or be aborted
  with another; one has no body, one a body that cannot be repeated, a third, alone, has
  GetBody and `Connection: close`, a fourth, alone, a Trailer and no body. MaxAttempts = 2 (one repetition here, the next goes
  elsewhere), one SETTINGS frame, MaxStreamID = 5 so that the IDs do run out.
* **Exchange**: two requests and two connections: enough for reuse, for a retry on another
  connection and for two requests at a time. Eleven situations instead of all combinations of
  faults: each has the faults that interact, and every action fires in some of them. One
  informational response (`Max1xx`) beyond which the code gives up.
* **H2Body**: one or two streams, responses of up to three bytes, connection window 4,
  stream window 3, refresh threshold 2 (4096 in the code), largest window 7: windows run
  out, credit is held back and sent, and int32 overflow happens. Nine situations.
* **DataBuffer**: chunk sizes 1, 2 and 4 instead of 1 to 16 KiB, nine bytes.
* **H2Pool**: three callers and two offered connections, one stream per connection, two dials.
* **Framer**: one frame of every kind with the values at the edges (stream 0 and the reserved
  bit, increments 0, 1, 2^31-1 and 2^31, padding equal to and beyond the payload), and all
  sequences of four frames around one header block with a limit of four bytes: a block can
  be whole, cut, truncated, invalid, undecodable and interrupted.
* **H3Pool**: two requests and three clients: both share a dial, one retries, a third
  replaces a dead one. **H3Stream**: two requests where they meet (GOAWAY, loss of the connection),
  one elsewhere; answers of up to two DATA frames, 1xx, trailers and frames out of place; a limit of one 1xx and a queue
  of one datagram, so that both limits are met. **AltSvc**: four requests, two entries, two pending objects over time.
* **Socks**: every combination of version, target, authentication and context.
* **Dump**: a queue of one piece, two producers of two pieces, four sequences of
  setters. **RequestDump**: four sequences of setters, three attempts.
* **TransferWriter**: every method class, declared length and encoding, bodies of 0 to 3
  bytes that may fail at the end. **TransferReader**: all combinations of the header fields that decide, and
  chunked bodies of up to two chunks, whole, cut or with something else than CRLF behind a chunk, read one or four bytes at a time.
  **HeaderReader**: all texts of up to seven of four kinds of bytes, a buffer of three.


## 4. Proofs

`ConnPoolProofs` proves, for every finite set of calls, every set of hosts and every
value of the limits (`PoolAssumption` is all that is assumed of the constants):

* `TypeCorrect`: `Spec => []TypeOK`. Inductive invariant `TypeInv`: TypeOK and
  `HeldTyped` (a caller in `using`, or one whose canceled connection is being returned,
  holds a real connection); without it `KeyOf[held[w]]` has no type.
* `SlotsExact`: `Spec => []SlotAccounting` and `NoSlotLost`: `Spec => []NoStrandedWaiter`.
  Inductive invariant `SlotInv`: `DialStage` ties the stage of the caller, of its dial and of
  the connection together (a connection is open only after its dial; a caller that has
  not reached queueForDial has no dial), and `WaitQueue` says that whoever is
  in `connsPerHostWait` and not yet answered is in state `queued`. Both are needed so
  that a slot given away by decConnsPerHost goes to a call that holds none. The proof
  has one lemma for each way the set of slot holders can change (a slot is taken, given
  back, handed over, or untouched), with the arithmetic of cardinalities from
  `FiniteSetTheorems`, and one step per action that cites the right lemma.

`ConnPoolOwners` goes on from there, under the same assumptions:

* `OneHand` (`ExclusiveOwner`), `TimeoutSpares` (`IdleTimeoutSparesUsed`), `WaitersFirst`
  (`NoIdleWhileWanted`) and `DialsFound` (`DialsTracked`). Inductive invariant `OwnInv`: an HTTP/1
  connection has at most one owner, taken over all the places that can have it (`OneOwner`), none before it was
  dialled (`Dialled`), the idle lists and the LRU have the same connections, once, within their
  limits (`IdleLists`), a wantConn that is not done has no result (`Answered`), and no panic was reached.
  An action moves at most one connection from one owner to another (`Passed`, `Gain`): the action's
  lemma names the two, and the argument that one owner stays one owner is made once.
* `EvictionHolds` (`EvictionSafe`: `NoPanic`, `IdleIndexed`, `NoOrphan`). For the last one, `LeakInv`: an
  open connection has an owner. It needs to know that a closer has something to close
  (`Closer`), that who has not started has nothing (`Unstarted`), and that a connection is in
  a list while it has no other owner (`OpenListed`).

`H2ConnProofs` proves, for every finite set of calls, every set of scenarios and every
bound (`ConnAssumption`), of one HTTP/2 connection:

* `TypeCorrect` (`TypeOK`), `ReservationsReturned` (`ReservationsHeld`), `BodiesReleased`
  (`BodyReleased`) and the action property `HeadersInOrder` (`OpenInOrder`). Inductive
  invariant `IInv`: the types with `RetryBound` (a call that may start is below the limit),
  `LockInv` (whoever waits for a slot or is about to write HEADERS holds `reqHeaderMu`, so
  `pendingRequests` is at most one and its decrement is safe), `OrderInv` (a stream
  about to send HEADERS has an ID above all written ones and below the next), and the
  two invariants themselves. Most steps are *quiet*: they leave locks, IDs and reservations
  alone, move writers only between stages that hold none of them, and keep a closed body
  closed (`Quiet`, `Passes`, `Kept`). One lemma per action shows that it is quiet, `QuietInv`
  that a quiet step keeps `IInv`; the six actions that open or end a stream have a lemma each.

The second part of `H2ConnProofs` adds what becomes of a stream: `OnlyUnprocessedRepeated` (`RetryUnprocessed`),
`StreamsEnded` (`NoHalfOpenStream`) and `SleepersWakeable` (`WaiterHasWaker`). Inductive
invariant `StreamInv`, over `IInv`: the error a stream was aborted with, or writeRequest returned,
came with the frame that causes it (`Reasons`); before HEADERS nothing was sent, and who ends
without an error saw the peer's end (`Progress`); a call that will be repeated was disowned,
or its HEADERS were never sent (`Repeatable`); a writer is asleep only while a stream is open
(`Wakeable`). Most steps *drift* (`Drift`): they take no end back and abort only with a reason.

`ExchangeProofs` and `ExchangeAnswers` hold the layers of one argument about the HTTP/1 exchange, for any
requests, connections and situations. `ExchangeAssumption` says that scenarios are well formed and that
`NoReq` (nil in the code) is neither a request nor a connection.

* `Lanes`, `IdleClean` (`IdleIsClean`). `Inv1` is the types and `LaneInv`: a connection is idle, or
  taken by one request that has not sent yet (`Claim`), or has one request waiting for the read loop, or the read
  loop is at work on one (`OneUse`); where the read loop (`Reading`) and the write loop (`WriteStages`) are. A
  response without a body is put back into the pool *before* it is delivered, so the read loop
  may still have one request while the next one has the connection: `Recycled` is that state, and
  `IdleIsClean` is not inductive without it.
* `Frames`, `NotMixed` (`RequestsNotMixed`). `Inv2` adds `FrameInv`: what is on the wire is a sequence of
  heads, each followed by its body if it has one (`Framed`), and `Unwritten` says for each stage of
  the two loops whether the last request was written to its end (`Whole`) or only its head
  (`HeadOnly`). The one way out of a body that was announced and never sent is `continueCh = "closed"`, which
  goes with `~alive`: that is why such a connection is not reused.
* `Exchanges`, `Promise` (`ImplementsRoundTripper`). Step by step: a `roundTripCached` that HTTP/2 takes and a
  `serverRead` of a head are `Handle`, the step in which a call returns is `Answer` or `Refuse`, the others
  stutter. The invariant has three more layers. `WireInv`: whatever is on a wire belongs to the request that was
  last sent on it (`Latest`), at most one head is on its way and one answer is owed (`Serving`), the messages of an
  answer come in order, and the read loop is where the wire says it should be (`Turn`), so that a connection in the pool has
  nothing to read but a 408 (`Quiet`) and the response to be delivered is that of its request (`Own`).
  `CallInv`: a caller in select waits for the last request or for a response already recycled, and one in
  mapRoundTripError has a connection nobody else will use. `OnceInv`: for a request that must not be
  repeated, a connection from which the server may still get its head (`Token`) is the one its call uses or used, and
  while nothing was written of it (`Unseen`) the server has not acted. `Unseen` covers
  the error `nothingWritten`: it is given only when the write loop has ended (mapRoundTripError waits for
  writeLoopDone), so nothing of the request is left that could still be written.
* `BodiesClosed` (`BodyReleased`), with one layer more, `CloseInv`. Every error path of roundTrip closes the
  body itself; the hard case is a response that ends the call while the write loop is at work. `Closing`: while
  the caller waits, a body that is not closed is in writech or with the write loop (`InHand`); once it has
  returned, the write loop has it (`Has`). A response to the request itself comes after something of it was
  written (`Written`), so it is no longer in writech; a 408 sent unasked may come before, hence the exception.
  A response already recycled (`Recycled`) was recycled after the body had been closed, and is not mistaken for
  that of a second attempt on the same connection, because while a connection is whole the caller it works
  for is there (`Attended`, `Apart`).

The other three modules prove properties of `Protocols`, each about the behaviours of one part and
for every value of its constants; what they assume of these is stated in `Protocols`.

* `RequestProofs`, Request.Do (`RequestAssumption`: options of the kinds RequestDo tells apart): `BodiesReleased`
  (`NoBodyLeak`), `RetriesCorrect` (`RetriesRight`) and `UploadsComplete` (`BodyReplayed`). Inductive invariant
  `RequestInv`: where Do is, how many attempts it made (`Attempts`), that the error it holds is that of the last one
  (`ErrorsMatch`), that every earlier body was closed (`BodiesClosed`), that a canceled context goes through to
  the caller (`CancelGoesThrough`) and that an error is given up only without budget (`ErrorsRetried`).
  `BodySentOnce` adds where a body is replayed from. `UploadsComplete` has the hypothesis `FieldsReplayable`, without
  which it is false: that is the finding of the run `request_repeat`.
* `RequestProofs`, Digest, the other half of `UploadsComplete` (`DigestAssumption`). `DigestInv`: what was sent of each copy is what the
  caller gave (`CopiesRight`), the count in the cache is the number of credentials made with its challenge (`CountsKept`),
  and a challenge on its way to the cache is new there and nobody else's (`ChallengesNew`), if the server never repeats a nonce.
* `RequestProofs`, dumps: `DumpsFaithful` (`DumpFaithful`). For requests, `RequestDumpInv`: nothing was dumped of
  attempts that did not begin (`NothingSent`), a write loop has something left after its attempt only if the answer was early
  (`LoopsLate`). For clients, `DumpInv` says that there is a map from files to clients such that the options
  of the two never point to each other's (`Pointers`, `Apart`), a file has one owner, is open while it is used
  (`FilesOpen`), what is queued belongs to it (`TasksOwned`, `ProducersOwned`), and after doneCh nothing is left
  but what came after Stop (`Finished`, `StopsSeen`). `DumpAssumption` is what it rests on: no file is given to two clients, and a
  client is cloned at most once, before it dumps to a file and before the copy is used. Otherwise two
  Dumpers have one `*os.File` and the end of one cuts the other.
* `DownloadProofs`: `DownloadCorrect` (`DownloadComplete`). `DownloadInv`: the segments are cut one after the other
  (`Splitting`), every task is one of them and the output is the first of them in order (`SegmentsKnown`), one that is not yet stored is in no other
  place (`UnstoredAlone`), the merger ends with the whole output or somebody reported an error (`Merging`), a reported error is in errCh until Do takes
  it (`ErrorsKept`), and
  the WaitGroup is the number of goroutines that still owe a Done (`WgCounts`). `DownloadAssumption`: concurrency and
  segment size are positive, as Do makes them; the Content-Length is any integer.
* `TransportProofs`, clientConnPool: `SharedDialsHonest` (`PoolHonest`). `H2PoolInv`: who waits for a dial waits for
  one that is there (`CallsKnown`), a dial is canceled only by the context it was started with (`DialErrOwn`), and
  AddConnIfNeeded waits for its own addConnCall (`AddCallWaits`, `AddedWaits`).
* `TransportProofs`, HTTP/3: `H3ClientsCareful` (`H3Careful`). `H3PoolInv`: useCount is at least the number of
  requests that hold the client (`Counted`; it is more after a context ended during the dial), the client of
  the map was not closed as idle (`CurrentOpen`), and a request that may still be sent was not acted on
  (`NotYetProcessed`). `H3StreamInv`: of each stream (`StreamOK`), that it is in `c.streams` iff it was registered and has an open
  side, and that before it is registered only its send side can have ended; of the connection, that a graceful shutdown does not
  outlive its last stream (`Drained`) and cut none off (`cut` is empty). A step changes one stream, and what it does to the connection is
  one of few edits: the lemmas are about those. Assumptions: finitely many requests, and scenarios over them.
* `TransportProofs`, flow control of uploads: `WindowsRespected` (`NoOverdraft`). `FlowInv`: windows are int32
  values; that of a stream is at least its initial window less the largest one, so a change of
  SETTINGS_INITIAL_WINDOW_SIZE cannot take it below int32 (`StreamFlowOK`); the frames on their way carry 31 bits (`WireOK`).
  The lemma `OutflowAdd` shows that the test of `outflow.add`, a comparison after a sum that may have wrapped,
  refuses exactly the sums that are not int32. Most steps leave the flow alone (`SameFlow`).
  `H2BodyAssumption`: a frame size and a largest window that are positive, increments and initial windows within the latter.
* `TransportProofs`, Alt-Svc and SOCKS: `AltSvcSettled` (`AltSvcSettles`), with `AltSvcInv`: `pas.Mu` has one
  holder, who uses the entry the pas names (`HoldersLock`), handlePendingAltSvc runs only where no request is at
  work (`ProbersAlone`), a request that fell back was allowed to and, with a cooldown, has unregistered its pas (`FallbackGaveUp`), and without fallback the entries before the one being tried have all failed (`FailedInTurn`). `SocksHandsOver` (`CleanHandover`), with `SocksInv`: at each stage of the handshake, what
  the proxy has sent and was not read is what the stage goes on to read (`Negotiating`, `Connecting`, `Addressing`), data of the target
  comes last (`TunnelLast`), and the watcher's report is waited for (`WatcherReports`).

What stays with TLC: liveness (module MCLive) for the reason below; what is an induction
over input, because the correctness of `TransferWriter`, `TransferReader`, `HeaderReader`, `Framer` and
`DataBuffer` is that of loops over sequences of bytes (`RequestFramed`, `MessageBoundary`, `HeaderMeaning`,
`FramesFaithful`, `BodyFaithful`); `WindowConserved`, which compares a window with a sum over all
streams. `EvictionSafe` of the run `exchange` is that of ConnPool for one instance, proved in general as `EvictionHolds`.

Three things are outside what TLAPS can establish here and stay with TLC:
liveness under fairness (and `ENABLED`), induction over data (what a recursive
function computes for every input), and anything that needs a `RECURSIVE`
operator; no module with a theorem uses one.

## 5. Findings

Where the code and a comment, a document or a test disagree, a run with the
expectation `violation` shows the behaviour; `PROJECT.json` quotes both sides.

* `pool_orphan` (src/transport.go:1699): `queueForIdleConn` drops a too-old connection from its list and leaves the closing to a goroutine that looks it up in the LRU; a `CloseIdleConnections` in between empties the LRU and the connection stays open with no owner.
* `download_hang` (src/parallel_download.go:46): With more segments than workers a merger that takes tasks from taskMap leaves taskNotifyCh full; the last worker blocks and Do never returns, although the output is complete.
* `request_repeat` (src/middleware.go:655): Every retry appends the client's cookies again (and, unless the request is multipart, its form fields), and a reader given to `SetMultipartField`, which is not counted as unreplayable, sends an empty part.
* `h2_ctx` (src/internal/http2/transport.go:1952): A context that ends does not wake an upload that waits for a window, and then the response body is not ended either: the total timeout does not cover reading it.
* `h2_credit` (src/internal/http2/transport.go:2799): A second Close of a response body that was not read to its end returns the unread bytes to the connection's window again, because `pipe.unread` is never cleared.
* `h3_idle` (src/internal/http3/transport.go:567): `CloseIdleConnections` counts requests in RoundTrip only: it closes the connection of a response whose body is still being read.
* `header_dump` (src/textproto_reader.go:46): Dumping changes what is read: a header line longer than the read buffer is split into several lines when a Dumper is active.

Observations that are part of the models and not runs of their own:

* A connection returned by the deferred `w.cancel` can die between the `isBroken` test and the lock in tryPutIdleConn, and enters the idle list after its read loop has already run removeIdleConn; it stays there until a lookup or an eviction meets it.
* `wg.Add(1)` runs in the worker after the hand-over; it can meet a Wait that was woken and has not returned, for which WaitGroup panics. The model records it in `panicked`; `DownloadEnds` accepts that end.
* Response middleware of the request that returns nil clears a transport error before the retry decision, so it is not retried (`request.go`, `err = f(r.client, resp)`); `ErrorsRetried` excludes that case.
* Automatic reading skips the responses below 200 (`client.go`, `resp.StatusCode > 199`): the body of a 101 is the upgraded connection and stays open for the caller, who must close it although automatic reading is on; `NoBodyLeak` excludes that case.
* If the output file cannot be created, `handleDownload` returns before the body's Close is deferred and the response body stays open; `NoBodyLeak` excludes that case.
* An io.Writer given to `SetOutput` receives the bodies of abandoned attempts as well as the final one; only a file is replaced.
* A 401 without a Digest challenge is returned with its body drained and closed (`digest.go`, `return res, nil`), so reading that response fails.
* `digestAuth` forgets the count when the server repeats a nonce in a new challenge, so nc=1 is used again with it; `CountsFresh` is about servers with fresh nonces. A request whose 401 carries no challenge drops the cached one for everybody, also between another request's challenge and its second copy, which then goes out without credentials.
* A request with Trailer and no body never ends its side: encodeAndWriteHeaders sends END_STREAM only if `!hasBody && !hasTrailers` (`internal/http2/transport.go`), writeRequest writes no trailers without a body, but sets `sentEndStream` (its comment: 'sent an END_STREAM flag to the peer'). If the server answers and ends the stream, cleanupWriteRequest takes both sides for ended and sends no reset: the stream stays half-open on the server. `NoHalfOpenStream` excludes this case (`NeverEnded`); if the request fails otherwise the stream is reset as any other.
* A request that fails in `awaitOpenSlotForStreamLocked` gives its reservation back twice (`writeRequest` and, with stream ID 0, `cleanupWriteRequest`), which may take away that of another call; `ReservationsHeld` is therefore a bound and not an equation.
* `shouldRetryRequest` says that after errClientConnUnusable the body has not been touched, but `cleanupWriteRequest` has closed it.
* A SETTINGS frame that raises the stream limit wakes no writer that waits for a slot unless it also changes the window; with a limit of zero nothing else will.
* `processWindowUpdate` calls endStreamError on overflow with `mu` held, and `abortStream` locks it again; the model leaves this path out.
* `Shutdown` whose context ends when no stream is left marks the connection closed and leaves the TCP connection open.
* A 408 that the server sends unasked on a connection just handed out is returned as the response; if the write loop has not taken the request yet, its body is not closed (`transport.go`, readLoop; `BodyReleased` excludes the case).
* A canceled HTTP/1 request returns only after the write loop has ended (`mapRoundTripError`), and so not before the caller's own `Body.Read` returns.
* A response body longer than its Content-Length is aborted without returning the bytes of the last frame to the connection's window (`internal/http2/transport.go`, processData); the server is at fault, so `WindowConserved` leaves the case out.
* The bytes in the buffer of a canceled request are returned only if the caller closes the body, although a comment in processData promises of unread data: 'But at least return their flow control'.
* A WINDOW_UPDATE that overflows a stream's window makes processWindowUpdate call endStreamError with `cc.mu` held; abortStream locks it again and the read loop stops for ever. H2Body stops its read loop there (`Unlocked`).
* A connection that dies between the end of its dial and `dialCall.dial` taking `p.mu` is added to the pool dead and never removed; GetClientConn skips it.
* `internal/http2/frame.go`: a HEADERS frame whose padding exceeds its payload is a StreamError before its block reaches hpack; the connection lives on with a decoder that is out of step. The same holds for a header block that a WINDOW_UPDATE of zero interrupts: the error comes before `checkFrameOrder`, and the CONTINUATION after it is returned bare and ignored. The history variable `skipped` excuses both.
* `readMetaFrame` computes `2*remainSize` in uint32: a MaxHeaderListSize of 2^31 refuses every non-empty header block.
* A request whose context ends while it waits for a shared HTTP/3 dial returns without lowering useCount, so CloseIdleConnections never closes that client (`internal/http3/transport.go`, doRoundTripOpt).
* The HTTP/3 dial runs with the context of the request that started it; its cancellation fails the others that wait for it. `removeClient(hostname)` removes whatever client is in the map, a newer one included.
* A GOAWAY that arrives between OpenStreamSync and the registration of the stream closes the connection under that request ('immediately close the connection if there are currently no active requests', `internal/http3/conn.go`), and two requests that open streams at once may go past the limit of an earlier GOAWAY.
* With AutoDecompression, ReadResponse assigns the decoding body to res.Body and then overwrites it with s.responseBody, which is nil: the response has no body, and its stream stays open until the context ends (`internal/http3/stream.go`; `noBody` in H3Stream).
* A request header that the encoder refuses is not reported: doRequest goes on to ReadResponse and returns when the context ends or the server gives up. Neither then nor when no stream can be opened is the request body closed (`internal/http3/client.go`).
* A response that ends inside a DATA frame or before its Content-Length ends with io.EOF and no error (`internal/http3/stream.go`, `body.go`): `ResponseFaithful` compares with what was sent, not with what was announced.
* The end of an HTTP/3 connection wakes ReceiveDatagram only if somebody reads the stream: recvErr is set by Read and CancelRead alone. Two callers at a time share one token of hasData; H3Stream has one.
* Without fallback an Alt-Svc entry stays pending for ever once all its alternatives have failed, and with fallback and a cooldown of zero it may too; the later Alt-Svc headers of that authority are then ignored. `AltSvcSettles` says when this may happen without fallback, and leaves the other mode out. `AltSvcJar.GetAltSvc` reads its map before it locks it.
* `connect5` without an Authenticate function does not reject an authentication method it has not offered.
* The options of a clone are copied apart from those of its Dumper, so setters on the clone do not reach it (`internal/transport/option.go`, Options.Clone); `SettersReachDumper` is about the client itself. DisableDump on the parent closes the file its clone writes to.
* `EnableDumpAllTo` and `SetCommonDumpOptions` close the old dump file while an asynchronous Dumper still holds pieces for it; only DisableDump waits.
* A request-level Dumper with Async set is never started: it blocks after 20 pieces (`request.go`, SetDumpOptions).
* An abandoned attempt's write loop may dump into the buffer of the next attempt (see `DumpIsFinalAttempt`), because prepareRetry does not wait for it.
* An empty chunk-size line is taken for the size 0, the last chunk (`internal/chunked.go`, parseHexUint of an empty string).
* After ErrUnexpectedEOF a second Read of a cut body with a Content-Length would report EOF (`transfer.go`, body.readLocked sets sawEOF); the model's caller stops at the first error.
* TransferReader leaves out chunk-size lines that are malformed or too long, keys of `Trailer` that are not allowed and trailers that do not parse; in the code each of them is an error.
* TransferWriter leaves out a probe that reads neither a byte nor an error, an error of the body's Close and a `Trailer` key that is not allowed; in the code the first goes on to the chunked body, the others make the write fail.
* A field whose last continuation line is blank keeps a space at the end of its value: readContinuedLineSlice joins the empty line with a space and readMIMEHeader only trims the left (`textproto_reader.go`, bytes.TrimLeft); `HeaderMeaning` accepts that space there and nowhere else.

## 6. Not modelled

* **Request lifecycle (Request.Do, middleware, retry)** (partly): Do, do, tryRetry, prepareRetry, Client.roundTrip, the request and response middleware and the download to a file or a writer. The setters that only fill fields are the inputs of the model; the wording of URLs, queries and headers is left out.
* **HTTP/2 client connection and streams** (partly): RoundTripOpt, roundTrip, doRequest with every way it ends, the read loop's handlers, Shutdown, the idle timer, the health check and the response body's Close. Header encoding and decoding, Ping by the user and the byte counts of flow control are left out.
* **HTTP/2 framing** (partly): All Write functions and parsers, ReadFrame, checkFrameOrder and readMetaFrame with digits for bytes. hpack is external; the cached frame objects, debug logging and header name tables are left out.
* **HTTP/3 connection, streams, bodies** (partly): openRequestStream, the tracking of streams, the control stream and GOAWAY, RoundTrip with its goroutines, ReadResponse, the body with Content-Length and trailers, and datagrams. The bytes of frames, header coding (qpack), the wait for SETTINGS of extended CONNECT, 0-RTT and qlog are left out.
* **Alt-Svc and HTTP/3 fallback** (partly): handleAltSvc, handlePendingAltSvc, checkAltSvc, the jar, the cooldown and the fallback, for one authority; the parsing of the header is left out.
* **Redirect policies** (not modelled): Pure policies over host names and header fields, called one after the other by net/http; no state and nothing concurrent.
* **Message transfer (bodies, chunked, textproto)** (partly): The framing decisions of both directions, the probe of unknown bodies, chunked reading and writing, trailers and header lines. The canonical form of header keys and numeric response codes are left out.
* **Content decoding and charset detection** (not modelled): Streaming calls into decompression and charset libraries; the control is a lazy initialisation.
* **Tracing** (not modelled): Time stamps written by httptrace callbacks; pure bookkeeping.
* **DNS and dial helpers** (not modelled): Calls of the resolver and the dialer: pure I/O.
* **TLS fingerprints and browser impersonation** (not modelled): Tables of constants and calls into utls; no state of its own.
* **Browser (js/wasm) round tripper** (not modelled): Glue to the fetch API of the browser, built only for js/wasm.
* **Header and URL helpers, logging, top-level wrappers** (not modelled): String helpers, wrappers and option records without behaviour of their own.
* **Vendored runtime helpers** (not modelled): Copies of Go's internal packages, outside the program's own logic.
* **Test support and examples** (not modelled): Test fixtures, certificates and example programs.

## 7. Plan

Done: every component that decides something over time. The order was the HTTP/1 pool and its
proofs, the parallel download, the life of a request, HTTP/2 connections, then the HTTP/1
exchange as a refinement of RoundTripper, bodies, flow control, framing and pools of
HTTP/2, HTTP/3, Alt-Svc, dumps, message framing, SOCKS and Digest. Next, in this order:

1. Proofs about sums and loops: `WindowConserved`, then what the readers and writers of bytes
   compute (`BodyFaithful`, `MessageBoundary`, `FramesFaithful`), which need induction.
2. HTTP/2 over the HTTP/1 pool: H2Pool and H2Conn on one connection, with MarkDead at the time
   the connection learns of its end.
3. The bytes of HTTP/3 frames, as the Framer has those of HTTP/2.
