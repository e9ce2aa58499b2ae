------------------------------- MODULE H2Pool -------------------------------
(***************************************************************************)
(* The pool of HTTP/2 connections to one host                              *)
(* (internal/http2/client_conn_pool.go): callers of GetClientConn that     *)
(* share one dial, the HTTP/1 transport handing over connections that      *)
(* negotiated h2 (AddConnIfNeeded), and connections that die at any time.  *)
(*                                                                         *)
(* A step is a critical section of p.mu, or of cc.mu outside it.           *)
(***************************************************************************)
EXTENDS Integers, Sequences, FiniteSets, SequencesExt

CONSTANTS
    Getters,       \* callers of GetClientConn
    Adders,        \* callers of AddConnIfNeeded, each with its own connection
    Plans,         \* which callers there are, see Init
    CtxOf,         \* the context of each getter's request
    StreamLimit,   \* requests one connection may carry
    MaxDials       \* bound: dials

NoCall == 0
Ctxs == {CtxOf[g] : g \in Getters}
Dialed(i) == <<"dialed", i>>
Own(g) == <<"own", g>>
Offered(a) == <<"offered", a>>
Conns == {Dialed(i) : i \in 1 .. MaxDials} \cup {Own(g) : g \in Getters}
            \cup {Offered(a) : a \in Adders}

VARIABLES
    pool,       \* p.conns of the host, in order
    dialing,    \* p.dialing: the number of the dial in flight, or NoCall
    calls,      \* dialCall 1, 2, ...: its context, outcome and whether done
    getter,     \* each getter: where it is, the dial it waits for, its result
    addCall,    \* p.addConnCalls: the adder whose connection is set up
    adder,      \* each adder: where it is and the call it waits for
    added,      \* the outcome of each adder's addConnCall
    cc,         \* the ClientConns: alive, requests reserved
    ended,      \* the contexts that have ended
    plan        \* the callers: of each getter whether it may share a
                \* connection, wants its own (Connection: close), takes only a
                \* cached one, or is absent; and the adders

poolVars == <<pool, dialing, calls, getter, addCall, adder, added, cc, ended, plan>>

Init ==
    /\ plan \in Plans
    /\ pool = <<>> /\ dialing = NoCall /\ calls = <<>> /\ addCall = {} /\ ended = {}
    /\ getter = [g \in Getters |-> [at |-> IF plan.kind[g] = "absent" THEN "done" ELSE "start", call |-> NoCall, cc |-> {}, err |-> "nil"]]
    /\ adder = [a \in Adders |-> [at |-> IF a \in plan.adders THEN "start" ELSE "absent", call |-> {}, used |-> FALSE]]
    /\ added = [a \in Adders |-> "none"]
    /\ cc = [c \in Conns |-> [state |-> "none", reserved |-> 0]]

canTakeNewRequest(c) == cc[c].state = "up" /\ cc[c].reserved < StreamLimit
ReserveNewRequest(c) == cc' = [cc EXCEPT ![c].reserved = @ + 1]

\* addConnLocked.
addConnLocked(c) == IF c \in Range(pool) THEN pool ELSE Append(pool, c)

Return(g, c, e) ==
    getter' = [getter EXCEPT ![g] = [at |-> "done", call |-> NoCall, cc |-> c, err |-> e]]

-----------------------------------------------------------------------------
(* GetClientConn                                                           *)

\* A request that asks for Connection: close gets its own connection.
dialSingleUse(g) ==
    /\ getter[g].at = "start" /\ plan.kind[g] = "close"
    /\ \/ /\ CtxOf[g] \notin ended
          /\ cc' = [cc EXCEPT ![Own(g)].state = "up"] /\ Return(g, {Own(g)}, "nil")
       \/ /\ Return(g, {}, IF CtxOf[g] \in ended THEN "canceled" ELSE "dial")
          /\ UNCHANGED cc
    /\ UNCHANGED <<pool, dialing, calls, addCall, adder, added, ended, plan>>

\* Under p.mu: the first connection of the pool with room is reserved; else
\* the caller waits for the dial in flight, which it starts if there is none.
GetClientConn(g) ==
    /\ getter[g].at = "start" /\ plan.kind[g] # "close"
    /\ LET room == SelectSeq(pool, canTakeNewRequest) IN
       \/ /\ room # <<>>
          /\ ReserveNewRequest(room[1]) /\ Return(g, {room[1]}, "nil")
          /\ UNCHANGED <<dialing, calls>>
       \/ /\ room = <<>> /\ plan.kind[g] = "cached"
          /\ Return(g, {}, "noCachedConn") /\ UNCHANGED <<cc, dialing, calls>>
       \/ /\ room = <<>> /\ plan.kind[g] = "share" /\ dialing # NoCall
          /\ getter' = [getter EXCEPT ![g].at = "wait", ![g].call = dialing]
          /\ UNCHANGED <<cc, dialing, calls>>
       \/ /\ room = <<>> /\ plan.kind[g] = "share" /\ dialing = NoCall /\ Len(calls) < MaxDials
          /\ calls' = Append(calls, [ctx |-> CtxOf[g], err |-> "nil", done |-> FALSE])
          /\ dialing' = Len(calls')
          /\ getter' = [getter EXCEPT ![g].at = "wait", ![g].call = Len(calls')]
          /\ UNCHANGED cc
    /\ UNCHANGED <<pool, addCall, adder, added, ended, plan>>

\* dialCall.dial: dialClientConn starts the connection and its read loop ...
dialClientConn(i) ==
    /\ dialing = i /\ calls[i].err = "nil" /\ cc[Dialed(i)].state = "none"
    /\ \/ /\ calls[i].ctx \notin ended
          /\ cc' = [cc EXCEPT ![Dialed(i)].state = "up"] /\ UNCHANGED calls
       \/ /\ calls' = [calls EXCEPT ![i].err = IF calls[i].ctx \in ended THEN "canceled" ELSE "dial"]
          /\ UNCHANGED cc
    /\ UNCHANGED <<pool, dialing, getter, addCall, adder, added, ended, plan>>

\* ... and the outcome is recorded: the connection joins the pool.
dialDone(i) ==
    /\ dialing = i /\ (calls[i].err # "nil" \/ cc[Dialed(i)].state # "none")
    /\ dialing' = NoCall
    /\ pool' = IF calls[i].err = "nil" THEN addConnLocked(Dialed(i)) ELSE pool
    /\ calls' = [calls EXCEPT ![i].done = TRUE]
    /\ UNCHANGED <<getter, addCall, adder, added, cc, ended, plan>>

\* Mutant: the error of a shared dial is everyone's error.
shouldRetryDial_never(call, ctx) == FALSE

\* Whether the dial failed because the context of another request ended.
shouldRetryDial(call, ctx) ==
    /\ call.err # "nil" /\ call.ctx # ctx /\ call.err = "canceled"
    /\ call.ctx \in ended

\* After the dial: again, the error, or the new connection if it has room.
afterDial(g) ==
    /\ getter[g].at = "wait" /\ calls[getter[g].call].done
    /\ LET call == calls[getter[g].call]  c == Dialed(getter[g].call) IN
       \/ /\ shouldRetryDial(call, CtxOf[g]) \/ (call.err = "nil" /\ ~canTakeNewRequest(c))
          /\ getter' = [getter EXCEPT ![g].at = "start", ![g].call = NoCall]
          /\ UNCHANGED cc
       \/ /\ ~shouldRetryDial(call, CtxOf[g]) /\ call.err # "nil"
          /\ Return(g, {}, call.err) /\ UNCHANGED cc
       \/ /\ call.err = "nil" /\ canTakeNewRequest(c)
          /\ ReserveNewRequest(c) /\ Return(g, {c}, "nil")
    /\ UNCHANGED <<pool, dialing, calls, addCall, adder, added, ended, plan>>

-----------------------------------------------------------------------------
(* AddConnIfNeeded                                                         *)

\* Mutant: a second connection joins the call without being told so.
isDup_no(a) == FALSE

\* Whether the caller joins the call of another one.
isDup(a) == adder[a].call # {a}

AddConnIfNeeded(a) ==
    /\ adder[a].at = "start"
    /\ IF \E c \in Range(pool) : canTakeNewRequest(c)
       THEN adder' = [adder EXCEPT ![a].at = "done"] /\ UNCHANGED addCall
       ELSE LET call == IF addCall = {} THEN {a} ELSE addCall IN
            /\ addCall' = call
            /\ adder' = [adder EXCEPT ![a].at = "wait", ![a].call = call]
    /\ UNCHANGED <<pool, dialing, calls, getter, added, cc, ended, plan>>

\* addConnCall.run: NewClientConn, then the result under p.mu.
addConnRun(a) ==
    /\ a \in addCall /\ added[a] = "none"
    /\ \/ cc' = [cc EXCEPT ![Offered(a)].state = "up"] /\ added' = [added EXCEPT ![a] = "ok"]
       \/ added' = [added EXCEPT ![a] = "err"] /\ UNCHANGED cc
    /\ UNCHANGED <<pool, dialing, calls, getter, addCall, adder, ended, plan>>

addConnDone(a) ==
    /\ a \in addCall /\ added[a] # "none"
    /\ pool' = IF added[a] = "ok" THEN addConnLocked(Offered(a)) ELSE pool
    /\ addCall' = {}
    /\ UNCHANGED <<dialing, calls, getter, adder, added, cc, ended, plan>>

addConnReturn(a) ==
    /\ adder[a].at = "wait" /\ addCall # adder[a].call
    /\ LET b == CHOOSE x \in adder[a].call : TRUE IN
       adder' = [adder EXCEPT ![a].at = "done", ![a].used = added[b] = "ok" /\ ~isDup(a)]
    /\ UNCHANGED <<pool, dialing, calls, getter, addCall, added, cc, ended, plan>>

-----------------------------------------------------------------------------
(* Contexts and connections                                                *)

cancel(x) ==
    /\ x \notin ended /\ ended' = ended \cup {x}
    /\ UNCHANGED <<pool, dialing, calls, getter, addCall, adder, added, cc, plan>>

\* MarkDead, called by the read loop before it closes the connection.
MarkDead(c) ==
    /\ cc[c].state \in {"up", "closed"}
    /\ pool' = Remove(pool, c)
    /\ cc' = [cc EXCEPT ![c].state = "marked"]
    /\ UNCHANGED <<dialing, calls, getter, addCall, adder, added, ended, plan>>

\* CloseIdleConnections: the connections without requests are closed.
CloseIdleConnections ==
    /\ cc' = [c \in Conns |-> IF c \in Range(pool) /\ cc[c].reserved = 0
                              THEN [cc[c] EXCEPT !.state = "closed"] ELSE cc[c]]
    /\ UNCHANGED <<pool, dialing, calls, getter, addCall, adder, added, ended, plan>>

Next ==
    \/ \E g \in Getters : dialSingleUse(g) \/ GetClientConn(g) \/ afterDial(g)
    \/ \E i \in 1 .. Len(calls) : dialClientConn(i) \/ dialDone(i)
    \/ \E a \in Adders : AddConnIfNeeded(a) \/ addConnRun(a) \/ addConnDone(a) \/ addConnReturn(a)
    \/ \E x \in Ctxs : cancel(x)
    \/ \E c \in Conns : MarkDead(c)
    \/ CloseIdleConnections

Spec == Init /\ [][Next]_poolVars

-----------------------------------------------------------------------------

\* Requests share dials but not each other's cancellation: GetClientConn fails
\* with a context error only for a request whose own context ended.
CancelNotShared ==
    \A g \in Getters : getter[g].err = "canceled" => CtxOf[g] \in ended

\* AddConnIfNeeded tells the HTTP/1 transport the truth about the connection it
\* offered, which closes it unless it was used: used if and only if a
\* ClientConn runs on it, so none is closed under the pool and none is leaked.
HandoverExact ==
    \A a \in Adders : adder[a].at = "done" => (adder[a].used <=> added[a] = "ok")
=============================================================================
