------------------------------- MODULE Digest -------------------------------
(***************************************************************************)
(* HTTP Digest authentication (digest.go): the requests of a client to one *)
(* host share a cached challenge and the number of times it was used; a    *)
(* request that is refused with a challenge is sent once more.             *)
(*                                                                         *)
(* A challenge is its nonce; credentials are a nonce and a count (the nc   *)
(* field of RFC 7616).  The server is external: it accepts or refuses what *)
(* it likes.                                                               *)
(***************************************************************************)
EXTENDS Integers, Sequences, FiniteSets

CONSTANTS
    DigestReqs,   \* requests
    DigestModes,  \* situations: reqs (the requests made), body ("none", "getBody"
                  \* or "reader"), answers ("ok", "err", "challenge", "plain401",
                  \* "bad401"), fresh (does every challenge have a new nonce) and
                  \* faults ("read", "close", "getBody", "digest")
    MaxNonces     \* how many challenges the server sends

VARIABLES
    dmode,    \* the situation
    cache,    \* da.cache of the host: the challenge c (0: none) and its count n
    dreq,     \* dreq[r]: where HttpRoundTripWrapper is, with what
    issued,   \* the challenges issued so far
    assigned  \* the credentials computed so far, in the order of their counts

digestVars == <<dmode, cache, dreq, issued, assigned>>

NoCred == <<0, 0>>

Init ==
    /\ dmode \in DigestModes
    /\ cache = [c |-> 0, n |-> 0]
    /\ dreq = [r \in DigestReqs |->
                 [pc |-> "start", attempt |-> 0, source |-> "whole", body |-> "none",
                  chal |-> 0, cred |-> NoCred, sent |-> <<>>, out |-> "none"]]
    /\ issued = 0
    /\ assigned = <<>>

Return(r, out) == dreq' = [dreq EXCEPT ![r].pc = "done", ![r].out = out]

\* cloner: without GetBody the body is read into memory and closed.
cloner(r) ==
    /\ dreq[r].pc = "start"
    /\ \/ dreq' = [dreq EXCEPT ![r].pc = "clone",
                               ![r].source = IF dmode.body = "reader" THEN "memory" ELSE @]
       \/ dmode.body = "reader" /\ dmode.faults \cap {"read", "close"} # {} /\ Return(r, "err")
    /\ UNCHANGED <<dmode, cache, issued, assigned>>

\* The body of the next copy.  The one that was read by cloner is empty now.
copied(s) ==
    CASE dmode.body = "none" -> "none"
      [] dmode.body = "getBody" \/ s.source = "memory" -> "whole"
      [] OTHER -> "empty"

\* clone().
clone(r) ==
    LET s == dreq[r] IN
    /\ s.pc = "clone"
    /\ \/ dreq' = [dreq EXCEPT ![r].pc = "prepare", ![r].body = copied(s), ![r].cred = NoCred,
                               ![r].attempt = @ + 1]
       \/ dmode.body = "getBody" /\ "getBody" \in dmode.faults /\ Return(r, "err")
    /\ UNCHANGED <<dmode, cache, issued, assigned>>

\* prepare with challenge, which looks the challenge up and counts it under
\* cacheMu; digest may fail.
prepare(r) ==
    LET cred == <<cache.c, cache.n + 1>> IN
    /\ dreq[r].pc = "prepare"
    /\ IF cache.c = 0
       THEN /\ dreq' = [dreq EXCEPT ![r].pc = "send"]
            /\ UNCHANGED <<cache, assigned>>
       ELSE /\ cache' = [cache EXCEPT !.n = @ + 1]
            /\ assigned' = Append(assigned, cred)
            /\ \/ dreq' = [dreq EXCEPT ![r].pc = "send", ![r].cred = cred]
               \/ "digest" \in dmode.faults /\ Return(r, "err")
    /\ UNCHANGED <<dmode, issued>>

\* rt.RoundTrip.
RoundTrip(r) ==
    /\ dreq[r].pc = "send"
    /\ dreq' = [dreq EXCEPT ![r].pc = "flight",
                            ![r].sent = Append(@, [cred |-> dreq[r].cred, body |-> dreq[r].body])]
    /\ UNCHANGED <<dmode, cache, issued, assigned>>

\* The server's answer; a 401 to the first copy is drained and closed.
answered(r) ==
    LET s == dreq[r]
        refused == dreq' = [dreq EXCEPT ![r].pc = "refused", ![r].chal = issued'] IN
    /\ s.pc = "flight"
    /\ \/ "ok" \in dmode.answers /\ Return(r, "ok") /\ UNCHANGED issued
       \/ "err" \in dmode.answers /\ Return(r, "err") /\ UNCHANGED issued
       \/ /\ "challenge" \in dmode.answers /\ (~dmode.fresh \/ issued < MaxNonces)
          /\ issued' = IF dmode.fresh \/ issued = 0 THEN issued + 1 ELSE issued
          /\ IF s.attempt = 1 THEN refused ELSE Return(r, "401")
       \/ /\ dmode.answers \cap {"plain401", "bad401"} # {} /\ UNCHANGED issued
          /\ IF s.attempt = 1
             THEN dreq' = [dreq EXCEPT ![r].pc = "refused", ![r].chal = 0]
             ELSE Return(r, "401")
    /\ UNCHANGED <<dmode, cache, assigned>>

\* findDigestChallenge found one: it replaces the cached one.
cacheChallenge(r) ==
    /\ dreq[r].pc = "refused" /\ dreq[r].chal # 0
    /\ cache' = [c |-> dreq[r].chal, n |-> 0]
    /\ dreq' = [dreq EXCEPT ![r].pc = "clone"]
    /\ UNCHANGED <<dmode, issued, assigned>>

\* It found none, or none that can be answered: the cached one is removed.
dropChallenge(r) ==
    /\ dreq[r].pc = "refused" /\ dreq[r].chal = 0
    /\ cache' = [c |-> 0, n |-> 0]
    /\ \/ "plain401" \in dmode.answers /\ Return(r, "401")
       \/ "bad401" \in dmode.answers /\ Return(r, "err")
    /\ UNCHANGED <<dmode, issued, assigned>>

Next ==
    \E r \in dmode.reqs :
       \/ cloner(r) \/ clone(r) \/ prepare(r) \/ RoundTrip(r) \/ answered(r)
       \/ cacheChallenge(r) \/ dropChallenge(r)

Spec == Init /\ [][Next]_digestVars

-----------------------------------------------------------------------------
(* Properties                                                              *)

\* prepare: with a server that never repeats a nonce, no credentials are used
\* twice and the counts of a nonce have no gap, however requests to the host
\* replace and drop each other's challenges; every nonce used was issued.
CountsFresh ==
    dmode.fresh =>
       \A i \in 1 .. Len(assigned) :
          LET c == assigned[i] IN
          /\ c[1] \in 1 .. issued
          /\ c[2] = 1 + Cardinality({j \in 1 .. i - 1 : assigned[j][1] = c[1]})

\* HttpRoundTripWrapper: both copies carry the whole body, and if the server
\* sends a challenge with every 401, the second copy answers one.
ReplayComplete ==
    \A r \in DigestReqs :
       LET s == dreq[r].sent IN
       \A i \in 1 .. Len(s) :
          /\ s[i].body = IF dmode.body = "none" THEN "none" ELSE "whole"
          /\ i = 2 /\ dmode.answers \cap {"plain401", "bad401"} = {} => s[i].cred # NoCred
=============================================================================
