------------------------------- MODULE AltSvc -------------------------------
(***************************************************************************)
(* The upgrade of one authority to HTTP/3 through Alt-Svc, and its         *)
(* fallback (transport.go: handleAltSvc, handlePendingAltSvc, checkAltSvc, *)
(* roundTripHTTP3AltSvc, and the jar of pkg/altsvc).                       *)
(*                                                                         *)
(* A response that advertises HTTP/3 starts a goroutine that tries the     *)
(* entries in turn; the request that first uses the entry found holds      *)
(* pas.Mu during its round trip.  HTTP/3 itself and the other protocols    *)
(* are reduced to their outcomes.                                          *)
(***************************************************************************)
EXTENDS Integers, Sequences, FiniteSets

CONSTANTS
    AltReqs,        \* requests to the authority, each made once
    AltModes,       \* see AltModeType
    MaxPas          \* bound: pendingAltSvc objects made

AltModeType ==
    [fallback : BOOLEAN,     \* http3FallbackOnFailure
     cooldown : BOOLEAN,     \* whether the cooldown is positive
     entries : Nat,          \* h3 entries of the Alt-Svc header
     outcomes : SUBSET {"ok", "err", "ctx"}]   \* of an HTTP/3 round trip

None == 0

VARIABLES
    mode,       \* the configuration, which never changes
    pending,    \* t.pendingAltSvcs[addr]: the number of a pas, or None
    pas,        \* the pendingAltSvc objects made so far; failed (a history variable):
                \* the entries over which AddConn or a round trip failed
    cooling,    \* whether http3AltSvcFails[addr] is set and in the future
    jar,        \* the entry in t.altSvcJar, None if there is none
    prober,     \* per pas: the entry handlePendingAltSvc tries, None if it ended
    areq,       \* each request
    proven      \* the entries over which a request succeeded

altVars == <<mode, pending, pas, cooling, jar, prober, areq, proven>>

Init ==
    /\ mode \in AltModes
    /\ pending = None /\ pas = <<>> /\ cooling = FALSE /\ jar = None /\ prober = <<>>
    /\ areq = [r \in AltReqs |-> [at |-> "start", pas |-> None, entry |-> None, sent |-> 0]]
    /\ proven = {}

Go(r, at) == areq' = [areq EXCEPT ![r].at = at]

\* Mutant: the failed entry stays pending.
Marked_pending == cooling' = mode.cooldown /\ UNCHANGED pending

\* markHTTP3AltSvcFailure.
Marked == IF mode.cooldown THEN cooling' = TRUE /\ pending' = None
                           ELSE UNCHANGED <<cooling, pending>>

-----------------------------------------------------------------------------
(* checkAltSvc                                                             *)

\* isHTTP3AltSvcCoolingDown, then the pending entry, each under
\* pendingAltSvcsMu; pas.Transport is read without pas.Mu.
checkAltSvc(r) ==
    /\ areq[r].at = "start"
    /\ Go(r, IF cooling THEN "plain" ELSE "lookup")
    /\ UNCHANGED <<mode, pending, pas, cooling, jar, prober, proven>>

lookup(r) ==
    /\ areq[r].at = "lookup"
    /\ IF pending # None /\ pas[pending].transport
       THEN areq' = [areq EXCEPT ![r].at = "lock", ![r].pas = pending]
       ELSE Go(r, "jar")
    /\ UNCHANGED <<mode, pending, pas, cooling, jar, prober, proven>>

\* pas.Mu.Lock; the transport may have gone meanwhile.
lockPas(r) ==
    /\ areq[r].at = "lock" /\ ~pas[areq[r].pas].mu
    /\ IF pas[areq[r].pas].transport
       THEN /\ areq' = [areq EXCEPT ![r].at = "h3", ![r].entry = pas[areq[r].pas].index]
            /\ pas' = [pas EXCEPT ![areq[r].pas].mu = TRUE]
       ELSE Go(r, "plain") /\ UNCHANGED pas
    /\ UNCHANGED <<mode, pending, cooling, jar, prober, proven>>

\* GetAltSvc of the jar.
getAltSvc(r) ==
    /\ areq[r].at = "jar"
    /\ areq' = IF jar # None THEN [areq EXCEPT ![r].at = "h3", ![r].entry = jar]
               ELSE [areq EXCEPT ![r].at = "plain"]
    /\ UNCHANGED <<mode, pending, pas, cooling, jar, prober, proven>>

\* What checkAltSvc does with the outcome of a request that holds pas.Mu.
Settle(r, used, failed) ==
    LET i == areq[r].pas IN
    IF i = None THEN UNCHANGED <<pas, prober, jar>>
    ELSE LET more == failed /\ pas[i].index + 1 <= mode.entries IN
         /\ pas' = [pas EXCEPT ![i].mu = FALSE, ![i].transport = used,
                               ![i].index = IF more THEN @ + 1 ELSE @,
                               ![i].failed = IF used THEN @ ELSE @ \cup {pas[i].index}]
         /\ prober' = IF more THEN [prober EXCEPT ![i] = pas[i].index + 1] ELSE prober
         /\ jar' = IF used THEN pas[i].index ELSE jar

\* roundTripHTTP3AltSvc succeeds over HTTP/3.
h3OK(r) ==
    /\ areq[r].at = "h3" /\ "ok" \in mode.outcomes
    /\ areq' = [areq EXCEPT ![r].at = "done", ![r].sent = @ + 1]
    /\ proven' = proven \cup {areq[r].entry}
    /\ cooling' = FALSE
    /\ pending' = IF areq[r].pas = None THEN pending ELSE None
    /\ Settle(r, TRUE, FALSE)
    /\ UNCHANGED mode

\* It fails, and there is no fallback: always without http3FallbackOnFailure,
\* and when the context ended.
h3Err(r) ==
    /\ areq[r].at = "h3"
    /\ \E e \in mode.outcomes \ {"ok"} :
          /\ mode.fallback => e = "ctx"
          /\ IF mode.fallback THEN Marked ELSE UNCHANGED <<cooling, pending>>
    /\ areq' = [areq EXCEPT ![r].at = "failed", ![r].sent = @ + 1]
    /\ Settle(r, FALSE, TRUE)
    /\ UNCHANGED <<mode, proven>>

\* It fails and the request goes to another protocol (roundTripWithoutHTTP3),
\* its body rewound; pas.Mu is still held.
h3Fallback(r) ==
    /\ areq[r].at = "h3" /\ mode.fallback /\ "err" \in mode.outcomes
    /\ Marked
    /\ areq' = [areq EXCEPT ![r].at = "fallback", ![r].sent = @ + 1]
    /\ UNCHANGED <<mode, pas, jar, prober, proven>>

fallbackDone(r, ok) ==
    /\ areq[r].at = "fallback"
    /\ Go(r, IF ok THEN "done" ELSE "failed")
    /\ Settle(r, FALSE, ~ok)
    /\ UNCHANGED <<mode, pending, cooling, proven>>

-----------------------------------------------------------------------------
(* A plain response and handleAltSvc                                       *)

\* roundTrip over HTTP/1 or 2; the response advertises HTTP/3 or not.
plainRoundTrip(r) ==
    /\ areq[r].at = "plain"
    /\ \E at \in {"advertised", "done", "failed"} : Go(r, at)
    /\ UNCHANGED <<mode, pending, pas, cooling, jar, prober, proven>>

\* handleAltSvc: not while cooling down or when the jar has an entry ...
handleAltSvc(r) ==
    /\ areq[r].at = "advertised"
    /\ Go(r, IF cooling \/ jar # None THEN "done" ELSE "pend")
    /\ UNCHANGED <<mode, pending, pas, cooling, jar, prober, proven>>

\* ... and unless one is pending a goroutine tries the entries.
startPending(r) ==
    /\ areq[r].at = "pend" /\ Go(r, "done")
    /\ IF pending # None \/ mode.entries = 0 \/ Len(pas) = MaxPas
       THEN UNCHANGED <<pending, pas, prober>>
       ELSE /\ pas' = Append(pas, [index |-> 1, transport |-> FALSE, mu |-> FALSE, failed |-> {}])
            /\ prober' = Append(prober, 1)
            /\ pending' = Len(pas')
    /\ UNCHANGED <<mode, cooling, jar, proven>>

\* handlePendingAltSvc: AddConn of one entry succeeds or fails.
addConnOK(i) ==
    /\ prober[i] # None
    /\ pas' = [pas EXCEPT ![i].index = prober[i], ![i].transport = TRUE]
    /\ prober' = [prober EXCEPT ![i] = None]
    /\ cooling' = FALSE
    /\ UNCHANGED <<mode, pending, jar, areq, proven>>

addConnErr(i) ==
    /\ prober[i] # None
    /\ pas' = [pas EXCEPT ![i].failed = @ \cup {prober[i]}]
    /\ IF prober[i] + 1 <= mode.entries
       THEN prober' = [prober EXCEPT ![i] = @ + 1] /\ UNCHANGED <<cooling, pending>>
       ELSE prober' = [prober EXCEPT ![i] = None] /\ Marked
    /\ UNCHANGED <<mode, jar, areq, proven>>

-----------------------------------------------------------------------------
(* Time                                                                    *)

cooldownEnds ==
    /\ cooling /\ cooling' = FALSE
    /\ UNCHANGED <<mode, pending, pas, jar, prober, areq, proven>>

\* The entry of the jar expires; GetAltSvc forgets it.
expire ==
    /\ jar # None /\ jar' = None
    /\ UNCHANGED <<mode, pending, pas, cooling, prober, areq, proven>>

Next ==
    \/ \E r \in AltReqs :
          \/ checkAltSvc(r) \/ lookup(r) \/ lockPas(r) \/ getAltSvc(r)
          \/ h3OK(r) \/ h3Err(r) \/ h3Fallback(r) \/ (\E ok \in BOOLEAN : fallbackDone(r, ok))
          \/ plainRoundTrip(r) \/ handleAltSvc(r) \/ startPending(r)
    \/ \E i \in DOMAIN pas : addConnOK(i) \/ addConnErr(i)
    \/ cooldownEnds \/ expire

Spec == Init /\ [][Next]_altVars

-----------------------------------------------------------------------------

\* Whether a goroutine or a request still works on pas i.
Busy(i) == prober[i] # None \/ pas[i].transport \/ pas[i].mu

\* HTTP/3 is remembered for what was seen to work, and is not given up by
\* accident: an entry in the jar carried a request successfully; and an authority
\* marked as pending, whose later Alt-Svc headers are ignored, has a connection
\* to use or someone who tries to get one.  The code leaves it pending with
\* nobody at work in two modes: without fallback, the default, but only after
\* every entry of the header has failed; and with fallback but no cooldown.
AltSvcSettles ==
    /\ jar # None => jar \in proven
    /\ pending # None =>
          \/ Busy(pending)
          \/ ~mode.fallback /\ pas[pending].failed = 1 .. mode.entries
          \/ mode.fallback /\ ~mode.cooldown
=============================================================================
