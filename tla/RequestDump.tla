----------------------------- MODULE RequestDump -----------------------------
(***************************************************************************)
(* The request-level dump: the Enable functions of request.go, the Dumper  *)
(* a request carries in its context, and what becomes of its output over   *)
(* the attempts of Request.Do.  Every attempt has a write loop of its own  *)
(* that sends the request and dumps it; a server may answer before the     *)
(* request body is sent, so an abandoned attempt may still be writing      *)
(* while the next one runs.  A piece is <<attempt, part>>.                 *)
(***************************************************************************)
EXTENDS Integers, Sequences, FiniteSets

CONSTANTS
  DumpPlans,   \* calls made on the Request before Do
  MaxTries     \* bound: attempts of Do

VARIABLES
  plan,    \* calls still to be made
  ropts,   \* r.dumpOptions: [out, parts], out = "none" while nil
  rctx,    \* a Dumper is in the request's context (it holds ropts by pointer)
  closer,  \* r.dumpOutputCloser # nil
  rpc,     \* "setup", "send", "answered", "read", "return"
  tries,   \* the attempt, 1 .. MaxTries
  loop,    \* attempt -> parts of the request its write loop has yet to send
  early,   \* attempts answered before their request was sent
  rbuf,    \* r.dumpBuffer
  rfile    \* the dump file: pieces written while it was open

rdumpVars == <<plan, ropts, rctx, closer, rpc, tries, loop, early, rbuf, rfile>>

AllParts == {"reqHeader", "reqBody", "respHeader", "respBody"}
Tries == 1..MaxTries

----------------------------------------------------------------------------
(* Calls on the Request                                                    *)

getDumpOptions == IF ropts.out = "none" THEN [out |-> "buf", parts |-> AllParts]
                  ELSE ropts

\* The dump file is closed and the options go back to the buffer.
closeDumpOutput(o) == IF closer /\ o.out # "none" THEN [o EXCEPT !.out = "buf"]
                      ELSE o

\* EnableDump and the variants that leave parts out.
EnableDumpWithout(ks) ==
  /\ ropts' = [getDumpOptions EXCEPT !.parts = @ \ ks]
  /\ rctx' = TRUE
  /\ UNCHANGED closer

EnableDumpTo ==
  /\ ropts' = [getDumpOptions EXCEPT !.out = "w"]
  /\ rctx' = TRUE /\ closer' = FALSE

\* Its os.Create succeeds here; a failure makes Do return at once.
EnableDumpToFile ==
  /\ ropts' = [getDumpOptions EXCEPT !.out = "file"]
  /\ rctx' = TRUE /\ closer' = TRUE

SetDumpOptions(o) ==
  /\ ropts' = IF o.out = "nil" THEN [o EXCEPT !.out = "buf"] ELSE o
  /\ closer' = FALSE
  /\ UNCHANGED rctx

Setup ==
  /\ rpc = "setup" /\ plan # <<>> /\ plan' = Tail(plan)
  /\ LET c == Head(plan)
     IN \/ c[1] = "enable" /\ EnableDumpWithout(c[2])
        \/ c[1] = "to" /\ EnableDumpTo
        \/ c[1] = "file" /\ EnableDumpToFile
        \/ c[1] = "options" /\ SetDumpOptions(c[2])
  /\ UNCHANGED <<rpc, tries, loop, early, rbuf, rfile>>

----------------------------------------------------------------------------
(* Do, its attempts and their write loops                                  *)

\* DumpTo of the request's Dumper, if it is asked for this part.
Dumped(a, part) ==
  LET on == rctx /\ part \in ropts.parts
  IN /\ rbuf' = IF on /\ ropts.out = "buf" THEN Append(rbuf, <<a, part>>) ELSE rbuf
     /\ rfile' = IF on /\ ropts.out = "file" /\ closer
                 THEN Append(rfile, <<a, part>>) ELSE rfile

Do ==
  /\ rpc = "setup" /\ plan = <<>>
  /\ rpc' = "send"
  /\ loop' = [loop EXCEPT ![1] = <<"reqHeader", "reqBody">>]
  /\ UNCHANGED <<plan, ropts, rctx, closer, tries, early, rbuf, rfile>>

\* A write loop sends the next part of its request and dumps it; that of an
\* attempt that is over may also find its connection closed.
WriteLoop(a) ==
  /\ loop[a] # <<>>
  /\ \/ loop' = [loop EXCEPT ![a] = Tail(@)] /\ Dumped(a, Head(loop[a]))
     \/ (a < tries \/ rpc = "return") /\ loop' = [loop EXCEPT ![a] = <<>>]
        /\ UNCHANGED <<rbuf, rfile>>
  /\ UNCHANGED <<plan, ropts, rctx, closer, rpc, tries, early>>

\* The response header is read and dumped, before roundTrip returns.
Answer ==
  /\ rpc = "send" /\ (loop[tries] = <<>> \/ Len(loop[tries]) = 1)
  /\ rpc' = "answered"
  /\ early' = IF loop[tries] = <<>> THEN early ELSE early \cup {tries}
  /\ Dumped(tries, "respHeader")
  /\ UNCHANGED <<plan, ropts, rctx, closer, tries, loop>>

\* The response body is read through dumpResponseBodyReadCloser.
ReadBody ==
  /\ rpc = "answered" /\ rpc' = "read"
  /\ Dumped(tries, "respBody")
  /\ UNCHANGED <<plan, ropts, rctx, closer, tries, loop, early>>

\* Mutant: what an abandoned attempt dumped stays in the buffer.
resetBuffer_keep == rbuf

resetBuffer == <<>>

\* prepareRetry: after the response body is closed and the wait is over the
\* buffer is reset; a file or a writer of the caller is not.
prepareRetry ==
  /\ rpc = "read" /\ tries < MaxTries
  /\ rbuf' = resetBuffer
  /\ tries' = tries + 1 /\ rpc' = "send"
  /\ loop' = [loop EXCEPT ![tries + 1] = <<"reqHeader", "reqBody">>]
  /\ UNCHANGED <<plan, ropts, rctx, closer, early, rfile>>

\* Do returns; its deferred closeDumpOutput closes the dump file.
Return ==
  /\ rpc = "read" /\ rpc' = "return"
  /\ ropts' = closeDumpOutput(ropts) /\ closer' = FALSE
  /\ UNCHANGED <<plan, rctx, tries, loop, early, rbuf, rfile>>

Init ==
  /\ plan \in DumpPlans
  /\ ropts = [out |-> "none", parts |-> {}] /\ rctx = FALSE /\ closer = FALSE
  /\ rpc = "setup" /\ tries = 1 /\ loop = [a \in Tries |-> <<>>]
  /\ early = {} /\ rbuf = <<>> /\ rfile = <<>>

Next ==
  \/ Setup \/ Do \/ Answer \/ ReadBody \/ prepareRetry \/ Return
  \/ \E a \in Tries : WriteLoop(a)

Spec == Init /\ [][Next]_rdumpVars

----------------------------------------------------------------------------
(* Properties                                                              *)

\* Response.Dump shows the attempt the Response belongs to: what it holds
\* of an earlier attempt was dumped by the write loop of a request that had
\* been answered before it was sent (prepareRetry resets the buffer, but
\* does not wait for that write loop), and only parts that were asked for.
DumpIsFinalAttempt ==
  rpc = "return" =>
    \A i \in 1..Len(rbuf) :
      /\ rbuf[i][1] # tries => rbuf[i][1] \in early /\ rbuf[i][2] = "reqBody"
      /\ rbuf[i][2] \in ropts.parts
=============================================================================
