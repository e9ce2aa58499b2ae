---------------------------- MODULE RoundTripper ----------------------------
(***************************************************************************)
(* What Transport.roundTrip promises its callers, connections left out: a  *)
(* request gets one answer, which is its own response, a server's notice   *)
(* that it gave up waiting (408), or an error; and the server acts more    *)
(* than once only on a request that may be repeated.                       *)
(***************************************************************************)
EXTENDS Naturals

CONSTANTS Reqs,         \* the requests
          Unsolicited   \* the 408 notice a server sends unasked

VARIABLES replayable,   \* the requests that may be sent again
          answer,       \* answer[r]: "none", "error", Unsolicited, or the
                        \* request whose response r was given
          handled       \* handled[r]: times the server acted on r

vars == <<replayable, answer, handled>>

Init ==
    /\ replayable \subseteq Reqs
    /\ answer = [r \in Reqs |-> "none"]
    /\ handled = [r \in Reqs |-> 0]

\* The server acts on r: while r is under way, or after the caller gave up on
\* what was already sent.
Handle(r) ==
    /\ handled[r] = 0 \/ r \in replayable
    /\ handled' = [handled EXCEPT ![r] = @ + 1]
    /\ UNCHANGED <<replayable, answer>>

\* r is answered with its own response, which the server must have made.
Answer(r) ==
    /\ answer[r] = "none"
    /\ handled[r] > 0
    /\ answer' = [answer EXCEPT ![r] = r]
    /\ UNCHANGED <<replayable, handled>>

\* r is answered without the server having acted on it.
Refuse(r) ==
    /\ answer[r] = "none"
    /\ \E a \in {"error", Unsolicited} : answer' = [answer EXCEPT ![r] = a]
    /\ UNCHANGED <<replayable, handled>>

Next == \E r \in Reqs : Handle(r) \/ Answer(r) \/ Refuse(r)

Spec == Init /\ [][Next]_vars
=============================================================================
