------------------------------ MODULE MCH2Conn ------------------------------
(* Instances of H2Conn: a request with a body that cannot be repeated, one *)
(* without a body, one with GetBody and Connection: close and one with a   *)
(* Trailer but no body, in several scenarios.                              *)
EXTENDS H2Conn, TLC

CONSTANTS r1, r2, r3, r4

MCBody == r1 :> "stream" @@ r2 :> "none" @@ r3 :> "getBody" @@ r4 :> "none"

\* Two streams at a time until the server allows only one.
Plain == [strict |-> FALSE, singleUse |-> FALSE, idleTimeout |-> FALSE,
          headerTimeout |-> FALSE, initialMax |-> 2, limits |-> {1},
          calls |-> {r1, r2}, events |-> {}]

\* One stream at a time; the second request waits for its slot.
Strict == [Plain EXCEPT !.strict = TRUE, !.initialMax = 1]

Alone == [Strict EXCEPT !.calls = {r3}]

SafetyScenarios ==
    {[Strict EXCEPT !.events = {"cancel", "goAway"}],
     [Plain  EXCEPT !.events = {"goAway"}],
     [Strict EXCEPT !.events = {"reset"}],
     [Strict EXCEPT !.events = {"cancel", "eof"}],
     [Plain  EXCEPT !.events = {"eof"}],
     [Plain  EXCEPT !.events = {"write"}],
     [Strict EXCEPT !.events = {"peer"}, !.headerTimeout = TRUE],
     [Plain  EXCEPT !.events = {"request", "closeIdle"}, !.idleTimeout = TRUE],
     [Strict EXCEPT !.events = {"ping", "shutdown"}, !.limits = {0}],
     [Strict EXCEPT !.events = {"ping"}, !.singleUse = TRUE],
     [Alone  EXCEPT !.events = {"cancel", "reset", "goAway", "eof"}],
     [Alone  EXCEPT !.calls = {r4}, !.events = {"cancel", "reset", "write"}]}

ContextScenario == {[Alone EXCEPT !.events = {"cancel"}]}
=============================================================================
