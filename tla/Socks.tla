-------------------------------- MODULE Socks --------------------------------
(***************************************************************************)
(* The SOCKS4, SOCKS4a and SOCKS5 client (internal/socks): DialContext and *)
(* the handshake, with the goroutine that watches the context.  The proxy  *)
(* is external: it answers each message with some reply, may hang up, and  *)
(* after granting the request may send the target's bytes at once.         *)
(* Transport.dialConn makes the connection itself, calls DialWithConn and  *)
(* closes the connection on an error: the same steps as in DialContext.    *)
(*                                                                         *)
(* The connection's input is the sequence of bytes not read yet.           *)
(***************************************************************************)
EXTENDS Integers, Sequences

CONSTANTS Dialers   \* configurations of the Dialer: see DialerType

DialerType ==
    [version : {4, 5},
     target : {"ip4", "ip6", "name", "badName"},
     socks4A : BOOLEAN,
     auth : {"none", "userPass", "badUserPass"},  \* Authenticate and its credentials
     deadline : BOOLEAN,                          \* whether the context has one
     background : BOOLEAN]                        \* it is context.Background()

NotRequired == 0
UserPass == 2
NoAcceptable == 255
Granted4 == 90
Tunnel == 1000     \* a byte of the target
Filler(n) == [i \in 1 .. n |-> 7]

VARIABLES
    dialer,    \* the Dialer and context, which never change
    phase,     \* what connect waits for or does next
    input,     \* bytes from the proxy that were not read
    want,      \* the number of bytes io.ReadFull waits for
    proxy,     \* the proxy: greeted, auth, connect, granted, gone
    socksCtx,  \* whether the context ended
    watcher,   \* the goroutine of connect: none, run, done
    errCh,     \* the error it sent: empty, nil, ctx
    deadline,  \* of the connection: none, set, past
    result     \* of DialContext: error and whether c is closed

socksVars == <<dialer, phase, input, want, proxy, socksCtx, watcher, errCh, deadline, result>>

\* connect starts the goroutine and sends the first message.
Init ==
    /\ dialer \in Dialers
    /\ phase = "start" /\ input = <<>> /\ want = 0 /\ proxy = "new"
    /\ socksCtx = FALSE
    /\ watcher = IF dialer.background THEN "none" ELSE "run"
    /\ errCh = "empty"
    /\ deadline = IF dialer.deadline THEN "set" ELSE "none"
    /\ result = [err |-> "none", open |-> TRUE]

\* Where connect4 or connect5 returns: the deferred calls come next.
End(e) == /\ phase' = "deferred" /\ result' = [result EXCEPT !.err = e]
          /\ UNCHANGED <<input, want>>

\* A message is written and a reply of n bytes awaited in phase p.
Ask(p, n, to) ==
    /\ phase' = p /\ want' = n /\ proxy' = to
    /\ UNCHANGED <<input, result>>

\* io.ReadFull has its bytes; they are taken off the input.
Full == Len(input) >= want
Take == input' = SubSeq(input, want + 1, Len(input))

Rest == <<dialer, socksCtx, watcher, errCh, deadline>>

-----------------------------------------------------------------------------
(* connect4                                                                *)

\* The request, unless the target cannot be expressed.
connect4 ==
    /\ phase = "start" /\ dialer.version = 4
    /\ \/ /\ dialer.target = "ip6" \/ (dialer.target = "badName" /\ dialer.socks4A)
          /\ End("target") /\ UNCHANGED proxy
       \/ /\ dialer.target \in {"name", "badName"} /\ ~dialer.socks4A   \* LookupIP fails
          /\ End("lookup") /\ UNCHANGED proxy
       \/ /\ dialer.target = "ip4" \/ dialer.target = "name"
          /\ Ask("reply4", 8, "connect4")
    /\ UNCHANGED Rest

reply4 ==
    /\ phase = "reply4" /\ Full
    /\ LET ok == input[1] \in {0, 4} /\ input[2] = Granted4 IN
       /\ Take /\ want' = 0 /\ phase' = "deferred"
       /\ result' = [result EXCEPT !.err = IF ok THEN "nil" ELSE "refused"]
    /\ UNCHANGED proxy /\ UNCHANGED Rest

-----------------------------------------------------------------------------
(* connect5                                                                *)

greet ==
    /\ phase = "start" /\ dialer.version = 5
    /\ Ask("method", 2, "greeted")
    /\ UNCHANGED Rest

\* The method the proxy chose; Authenticate, if given, is called with it.
method ==
    /\ phase = "method" /\ Full
    /\ LET am == input[2]
           bad == \/ input[1] # 5 \/ am = NoAcceptable
                  \/ dialer.auth # "none" /\ am \notin {NotRequired, UserPass}
                  \/ dialer.auth = "badUserPass" /\ am = UserPass
           next == IF am = UserPass /\ dialer.auth # "none" THEN "auth" ELSE "request" IN
       /\ Take
       /\ phase' = IF bad THEN "deferred" ELSE IF next = "auth" THEN "authReply" ELSE "request"
       /\ proxy' = IF ~bad /\ next = "auth" THEN "auth" ELSE proxy
       /\ want' = IF ~bad /\ next = "auth" THEN 2 ELSE 0
       /\ result' = [result EXCEPT !.err = IF bad THEN "method" ELSE @]
    /\ UNCHANGED Rest

\* UsernamePassword.Authenticate reads the proxy's verdict.
authReply ==
    /\ phase = "authReply" /\ Full
    /\ LET ok == input[1] = 1 /\ input[2] = 0 IN
       /\ Take /\ want' = 0
       /\ phase' = IF ok THEN "request" ELSE "deferred"
       /\ result' = [result EXCEPT !.err = IF ok THEN @ ELSE "auth"]
    /\ UNCHANGED proxy /\ UNCHANGED Rest

request ==
    /\ phase = "request"
    /\ IF dialer.target = "badName" THEN End("target") /\ UNCHANGED proxy
       ELSE Ask("reply5", 4, "connect5")
    /\ UNCHANGED Rest

\* Mutant: the two bytes of the port are not counted.
addrLen_portless(t) == IF t = 1 THEN 4 ELSE 16

\* What follows the header of the reply for address type t: address and port.
addrLen(t) == 2 + (IF t = 1 THEN 4 ELSE 16)

reply5 ==
    /\ phase = "reply5" /\ Full
    /\ LET ok == input[1] = 5 /\ input[2] = 0 /\ input[3] = 0 /\ input[4] \in {1, 3, 4}
           t == input[4] IN
       /\ Take
       /\ phase' = IF ~ok THEN "deferred" ELSE IF t = 3 THEN "nameLen" ELSE "address"
       /\ want' = IF ~ok THEN 0 ELSE IF t = 3 THEN 1 ELSE addrLen(t)
       /\ result' = [result EXCEPT !.err = IF ok THEN @ ELSE "refused"]
    /\ UNCHANGED proxy /\ UNCHANGED Rest

\* The length of a name, then the name or address and the port.
nameLen ==
    /\ phase = "nameLen" /\ Full /\ Take
    /\ phase' = "address" /\ want' = 2 + input[1]
    /\ UNCHANGED <<proxy, result>> /\ UNCHANGED Rest

address ==
    /\ phase = "address" /\ Full /\ Take
    /\ phase' = "deferred" /\ want' = 0 /\ result' = [result EXCEPT !.err = "nil"]
    /\ UNCHANGED proxy /\ UNCHANGED Rest

\* A read or write fails: the proxy hung up or the deadline passed.
ioError ==
    /\ phase \notin {"deferred", "await", "returned"}
    /\ \/ proxy = "gone" /\ ~Full
       \/ deadline = "past"
       \/ deadline = "set" /\ socksCtx
    /\ End("io")
    /\ UNCHANGED proxy /\ UNCHANGED Rest

-----------------------------------------------------------------------------
(* The goroutine of connect, its deferred calls, and DialContext           *)

watch ==
    /\ watcher = "run" /\ watcher' = "done"
    /\ \/ socksCtx /\ deadline' = "past" /\ errCh' = "ctx"
       \/ phase \in {"await", "returned"} /\ errCh' = "nil" /\ UNCHANGED deadline
    /\ UNCHANGED <<dialer, phase, input, want, proxy, socksCtx, result>>

\* Mutant: close(done) is not followed by waiting for the goroutine.
deferred_unawaited ==
    /\ phase = "deferred" /\ phase' = "returned"
    /\ deadline' = IF dialer.deadline THEN "none" ELSE deadline
    /\ result' = [result EXCEPT !.open = result.err = "nil"]
    /\ UNCHANGED <<dialer, input, want, proxy, socksCtx, watcher, errCh>>

\* close(done): after a success the goroutine's verdict is awaited, which may
\* be that the context ended; last, a deadline that was set is removed, and
\* DialContext closes the connection of a handshake that failed.
deferred ==
    /\ phase = "deferred"
    /\ IF result.err = "nil" /\ watcher # "none"
       THEN phase' = "await" /\ UNCHANGED <<deadline, result>>
       ELSE /\ phase' = "returned"
            /\ deadline' = IF dialer.deadline THEN "none" ELSE deadline
            /\ result' = [result EXCEPT !.open = result.err = "nil"]
    /\ UNCHANGED <<dialer, input, want, proxy, socksCtx, watcher, errCh>>

awaitErr ==
    /\ phase = "await" /\ errCh # "empty"
    /\ phase' = "returned"
    /\ result' = [err |-> IF errCh = "ctx" THEN "ctx" ELSE "nil", open |-> errCh # "ctx"]
    /\ deadline' = IF dialer.deadline THEN "none" ELSE deadline
    /\ UNCHANGED <<dialer, input, want, proxy, socksCtx, watcher, errCh>>

cancel ==
    /\ ~dialer.background /\ ~socksCtx /\ socksCtx' = TRUE
    /\ UNCHANGED <<dialer, phase, input, want, proxy, watcher, errCh, deadline, result>>

-----------------------------------------------------------------------------
(* The proxy, external.                                                    *)

Replies(p) ==
    CASE p = "greeted" -> {<<5, NotRequired>>, <<5, UserPass>>, <<5, NoAcceptable>>, <<4, 0>>}
      [] p = "auth" -> {<<1, 0>>, <<1, 1>>}
      [] p = "connect4" -> {<<v, c>> \o Filler(6) : v \in {0, 4, 5}, c \in {Granted4, 91}}
      [] p = "connect5" -> {<<5, 0, 0, 1>> \o Filler(6), <<5, 0, 0, 4>> \o Filler(18),
                            <<5, 0, 0, 3, 0>> \o Filler(2), <<5, 0, 0, 3, 2>> \o Filler(4),
                            <<5, 1, 0, 1>> \o Filler(6), <<5, 0, 0, 2>> \o Filler(6)}

\* Whether reply b grants the request.
Grants(p, b) == \/ p = "connect4" /\ b[1] # 5 /\ b[2] = Granted4
                \/ p = "connect5" /\ b[2] = 0 /\ b[4] # 2

\* The proxy answers; the target's first byte may follow at once or later.
answer ==
    /\ proxy \in {"greeted", "auth", "connect4", "connect5"}
    /\ \E b \in Replies(proxy), early \in BOOLEAN :
          LET grants == Grants(proxy, b) IN
          /\ early => grants
          /\ input' = input \o b \o (IF early THEN <<Tunnel>> ELSE <<>>)
          /\ proxy' = IF early THEN "tunnel" ELSE IF grants THEN "granted" ELSE "answered"
    /\ UNCHANGED <<dialer, phase, want, socksCtx, watcher, errCh, deadline, result>>

tunnel ==
    /\ proxy = "granted" /\ proxy' = "tunnel" /\ input' = Append(input, Tunnel)
    /\ UNCHANGED <<dialer, phase, want, socksCtx, watcher, errCh, deadline, result>>

hangUp ==
    /\ proxy \notin {"new", "gone", "tunnel"} /\ proxy' = "gone"
    /\ UNCHANGED <<dialer, phase, input, want, socksCtx, watcher, errCh, deadline, result>>

Next ==
    \/ connect4 \/ reply4 \/ greet \/ method \/ authReply \/ request \/ reply5 \/ nameLen
    \/ address \/ ioError \/ watch \/ deferred \/ awaitErr \/ cancel \/ answer \/ tunnel \/ hangUp

Spec == Init /\ [][Next]_socksVars

-----------------------------------------------------------------------------

\* The connection DialContext returns is ready for the target: every byte of
\* the handshake was read and none after it, no deadline of the handshake is
\* left on it, and the goroutine that could still set one is gone; and after
\* an error it is closed.  The context may end at any moment of it.
CleanHandover ==
    phase = "returned" =>
       /\ result.err = "nil" => /\ result.open
                                /\ input \in {<<>>, <<Tunnel>>}
                                /\ proxy = "tunnel" => input = <<Tunnel>>
                                /\ deadline = "none" /\ watcher # "run"
       /\ result.err # "nil" => ~result.open
=============================================================================
