-------------------------- MODULE TransportProofs ---------------------------
(***************************************************************************)
(* Theorems about the components that find a connection for a request:     *)
(* clientConnPool, http3.Transport, Alt-Svc and the SOCKS dialer; the      *)
(* streams of an HTTP/3 connection, and the flow control of request        *)
(* bodies in HTTP/2; each as a part of the composition.                    *)
(***************************************************************************)
EXTENDS Protocols, SequencesExt, FiniteSetTheorems, SequenceTheorems, TLAPS

-----------------------------------------------------------------------------
(* clientConnPool: shared dials and offered connections.                   *)

\* The variables of H2Pool in the composition.
pool    == v1
dialing == v2
calls   == v3
getter  == v4
addCall == v5
adder   == v6
added   == v7
cc      == v8
ended   == v9
plan    == v10
USE DEF pool, dialing, calls, getter, addCall, adder, added, cc, ended, plan

GetterType(S) == [at : {"start", "wait", "done"}, call : Nat, cc : S,
                  err : {"nil", "canceled", "dial", "noCachedConn"}]
CallType == [ctx : H2Pool!Ctxs, err : {"nil", "canceled", "dial"}, done : BOOLEAN]
AdderType == [at : {"absent", "start", "wait", "done"}, call : SUBSET Adders, used : BOOLEAN]

\* (What connection a getter was given does not matter here.)
GettersTyped == \E S : getter \in [Getters -> GetterType(S)]
CallsTyped == calls \in Seq(CallType)
AddersTyped == adder \in [Adders -> AdderType] /\ added \in [Adders -> {"none", "ok", "err"}]

\* The dial in flight and the ones waited for have been started.
CallsKnown ==
    /\ dialing \in 0 .. Len(calls)
    /\ \A g \in Getters : getter[g].call \in 0 .. Len(calls)
    /\ \A g \in Getters : getter[g].at = "wait" => getter[g].call # 0

\* A dial fails with a context error only if the context it was started with
\* has ended, which is why shouldRetryDial can tell whose error it is.
DialErrOwn == \A i \in 1 .. Len(calls) : calls[i].err = "canceled" => calls[i].ctx \in ended

\* The adder whose connection is being set up waits for its own call.
AddCallWaits ==
    addCall = {} \/ \E b \in Adders : addCall = {b} /\ adder[b].at = "wait" /\ adder[b].call = {b}

\* Only an adder that waits for its own call may have a ClientConn.
AddedWaits ==
    \A a \in Adders :
       /\ adder[a].at \in {"absent", "start"} => added[a] = "none" /\ ~adder[a].used
       /\ adder[a].at = "wait" =>
             \E b \in Adders : adder[a].call = {b} /\ (b = a \/ added[a] = "none")

H2PoolInv ==
    /\ GettersTyped /\ CallsTyped /\ CallsKnown /\ DialErrOwn /\ H2Pool!CancelNotShared
    /\ AddersTyped /\ AddCallWaits /\ AddedWaits /\ H2Pool!HandoverExact

LEMMA H2PoolInit == H2Pool!Init => H2PoolInv
<1>. SUFFICES ASSUME H2Pool!Init PROVE H2PoolInv
  OBVIOUS
<1>. USE DEF H2Pool!Init, H2Pool!NoCall
<1>1. GettersTyped
  <2>1. getter \in [Getters -> GetterType({{}})]
    BY DEF GetterType
  <2>. QED  BY <2>1 DEF GettersTyped
<1>2. CallsTyped /\ CallsKnown /\ DialErrOwn /\ H2Pool!CancelNotShared
  BY DEF CallsTyped, CallsKnown, DialErrOwn, H2Pool!CancelNotShared
<1>3. AddersTyped /\ AddCallWaits /\ AddedWaits /\ H2Pool!HandoverExact
  BY DEF AddersTyped, AdderType, AddCallWaits, AddedWaits, H2Pool!HandoverExact
<1>. QED  BY <1>1, <1>2, <1>3 DEF H2PoolInv

\* The steps that touch neither the adders nor their call.
LEMMA AddersUntouched ==
  ASSUME H2PoolInv, UNCHANGED <<addCall, adder, added>>
  PROVE  (AddersTyped /\ AddCallWaits /\ AddedWaits /\ H2Pool!HandoverExact)'
BY DEF H2PoolInv, AddersTyped, AddCallWaits, AddedWaits, H2Pool!HandoverExact

\* The steps that touch neither the getters nor their dials.
LEMMA GettersUntouched ==
  ASSUME H2PoolInv, UNCHANGED <<dialing, calls, getter, ended>>
  PROVE  (GettersTyped /\ CallsTyped /\ CallsKnown /\ DialErrOwn /\ H2Pool!CancelNotShared)'
BY DEF H2PoolInv, GettersTyped, CallsTyped, CallsKnown, DialErrOwn, H2Pool!CancelNotShared

\* What Return and the waiting of a getter do to the getters.
LEMMA getterReturnKeeps ==
  ASSUME H2PoolInv, NEW g \in Getters, NEW c, NEW e \in {"nil", "canceled", "dial", "noCachedConn"},
         H2Pool!Return(g, c, e), UNCHANGED <<dialing, calls, ended>>,
         e = "canceled" => CtxOf[g] \in ended
  PROVE  (GettersTyped /\ CallsTyped /\ CallsKnown /\ DialErrOwn /\ H2Pool!CancelNotShared)'
<1>. USE DEF H2PoolInv, H2Pool!Return, H2Pool!NoCall
<1>0. PICK S : getter \in [Getters -> GetterType(S)]
  BY DEF GettersTyped
<1>1. getter' \in [Getters -> GetterType(S \cup {c})]
  BY <1>0 DEF GetterType
<1>2. GettersTyped'
  BY <1>1 DEF GettersTyped
<1>3. CallsTyped' /\ DialErrOwn'
  BY DEF CallsTyped, DialErrOwn
<1>4. CallsKnown'
  <2>1. Len(calls) \in Nat
    BY DEF CallsTyped
  <2>. QED  BY <1>0, <2>1 DEF CallsKnown, GetterType
<1>5. H2Pool!CancelNotShared'
  BY <1>0 DEF H2Pool!CancelNotShared, GetterType
<1>. QED  BY <1>2, <1>3, <1>4, <1>5

LEMMA MovesKeeps ==
  ASSUME H2PoolInv, NEW g \in Getters, NEW at \in {"start", "wait"}, NEW n \in 0 .. Len(calls'),
         getter' = [getter EXCEPT ![g].at = at, ![g].call = n], at = "wait" => n # 0,
         CallsTyped', Len(calls) <= Len(calls'), UNCHANGED ended
  PROVE  /\ GettersTyped' /\ H2Pool!CancelNotShared'
         /\ \A h \in Getters : getter'[h].call \in 0 .. Len(calls')
         /\ \A h \in Getters : getter'[h].at = "wait" => getter'[h].call # 0
<1>. USE DEF H2PoolInv
<1>0. PICK S : getter \in [Getters -> GetterType(S)]
  BY DEF GettersTyped
<1>1. Len(calls) \in Nat /\ Len(calls') \in Nat
  BY DEF CallsTyped
<1>2. getter' \in [Getters -> GetterType(S)]
  <2>1. n \in Nat /\ at \in {"start", "wait", "done"}
    BY <1>1
  <2>2. \A h \in Getters : getter'[h] \in GetterType(S)
    BY <1>0, <2>1 DEF GetterType
  <2>. QED  BY <1>0, <2>2
<1>3. GettersTyped'
  BY <1>2 DEF GettersTyped
<1>4. \A h \in Getters : /\ getter'[h].err = getter[h].err
                         /\ h # g => getter'[h] = getter[h]
                         /\ h = g => getter'[h].call = n /\ getter'[h].at = at
  BY <1>0 DEF GetterType
<1>. QED  BY <1>0, <1>1, <1>3, <1>4 DEF H2Pool!CancelNotShared, CallsKnown

LEMMA dialSingleUseKeeps ==
  ASSUME H2PoolInv, NEW g \in Getters, H2Pool!dialSingleUse(g)
  PROVE  H2PoolInv'
<1>1. UNCHANGED <<dialing, calls, ended, addCall, adder, added>>
  BY DEF H2Pool!dialSingleUse
<1>2. CASE H2Pool!Return(g, {H2Pool!Own(g)}, "nil")
  BY <1>1, <1>2, getterReturnKeeps, AddersUntouched DEF H2PoolInv
<1>3. CASE H2Pool!Return(g, {}, IF CtxOf[g] \in ended THEN "canceled" ELSE "dial")
  <2>. DEFINE e == IF CtxOf[g] \in ended THEN "canceled" ELSE "dial"
  <2>1. e \in {"nil", "canceled", "dial", "noCachedConn"} /\ (e = "canceled" => CtxOf[g] \in ended)
    OBVIOUS
  <2>. QED  BY <1>1, <1>3, <2>1, getterReturnKeeps, AddersUntouched DEF H2PoolInv
<1>. QED  BY <1>2, <1>3 DEF H2Pool!dialSingleUse

LEMMA GetClientConnKeeps ==
  ASSUME H2PoolInv, NEW g \in Getters, H2Pool!GetClientConn(g)
  PROVE  H2PoolInv'
<1>. DEFINE room == SelectSeq(pool, H2Pool!canTakeNewRequest)
            call == [ctx |-> CtxOf[g], err |-> "nil", done |-> FALSE]
<1>. USE DEF H2Pool!NoCall
<1>1. UNCHANGED <<addCall, adder, added, ended>>
  BY DEF H2Pool!GetClientConn
<1>2. CASE H2Pool!Return(g, {room[1]}, "nil") /\ UNCHANGED <<dialing, calls>>
  BY <1>1, <1>2, getterReturnKeeps, AddersUntouched DEF H2PoolInv
<1>3. CASE H2Pool!Return(g, {}, "noCachedConn") /\ UNCHANGED <<cc, dialing, calls>>
  BY <1>1, <1>3, getterReturnKeeps, AddersUntouched DEF H2PoolInv
<1>4. CASE /\ dialing # 0
           /\ getter' = [getter EXCEPT ![g].at = "wait", ![g].call = dialing]
           /\ UNCHANGED <<cc, dialing, calls>>
  <2>1. dialing \in 0 .. Len(calls') /\ Len(calls) <= Len(calls') /\ CallsTyped' /\ DialErrOwn'
    BY <1>1, <1>4 DEF H2PoolInv, CallsKnown, CallsTyped, DialErrOwn
  <2>2. /\ GettersTyped' /\ H2Pool!CancelNotShared'
        /\ \A h \in Getters : getter'[h].call \in 0 .. Len(calls')
        /\ \A h \in Getters : getter'[h].at = "wait" => getter'[h].call # 0
    BY <1>1, <1>4, <2>1, MovesKeeps
  <2>3. CallsKnown'
    BY <1>4, <2>1, <2>2 DEF CallsKnown
  <2>. QED  BY <1>1, <2>1, <2>2, <2>3, AddersUntouched DEF H2PoolInv
<1>5. CASE /\ calls' = Append(calls, call)
           /\ dialing' = Len(calls')
           /\ getter' = [getter EXCEPT ![g].at = "wait", ![g].call = Len(calls')]
  <2>1. calls \in Seq(CallType) /\ call \in CallType /\ Len(calls) \in Nat
    BY DEF H2PoolInv, CallsTyped, CallType, H2Pool!Ctxs
  <2>2. CallsTyped' /\ Len(calls') = Len(calls) + 1
        /\ \A i \in 1 .. Len(calls') : calls'[i] = IF i <= Len(calls) THEN calls[i] ELSE call
    BY <1>5, <2>1 DEF CallsTyped
  <2>3. DialErrOwn'
    BY <1>1, <2>1, <2>2 DEF H2PoolInv, DialErrOwn
  <2>4. Len(calls') \in 0 .. Len(calls') /\ Len(calls) <= Len(calls') /\ Len(calls') # 0
    BY <2>1, <2>2
  <2>. HIDE DEF call
  <2>5. /\ GettersTyped' /\ H2Pool!CancelNotShared'
        /\ \A h \in Getters : getter'[h].call \in 0 .. Len(calls')
        /\ \A h \in Getters : getter'[h].at = "wait" => getter'[h].call # 0
    BY <1>1, <1>5, <2>2, <2>4, MovesKeeps
  <2>6. CallsKnown'
    BY <1>5, <2>4, <2>5 DEF CallsKnown
  <2>. QED  BY <1>1, <2>2, <2>3, <2>5, <2>6, AddersUntouched DEF H2PoolInv
<1>. QED  BY <1>2, <1>3, <1>4, <1>5 DEF H2Pool!GetClientConn

LEMMA afterDialKeeps ==
  ASSUME H2PoolInv, NEW g \in Getters, H2Pool!afterDial(g)
  PROVE  H2PoolInv'
<1>. DEFINE call == calls[getter[g].call]
            c == H2Pool!Dialed(getter[g].call)
<1>1. UNCHANGED <<dialing, calls, ended, addCall, adder, added>>
  BY DEF H2Pool!afterDial
<1>2. call \in CallType /\ getter[g].call \in 1 .. Len(calls)
  BY DEF H2Pool!afterDial, H2PoolInv, CallsKnown, CallsTyped
<1>3. CASE getter' = [getter EXCEPT ![g].at = "start", ![g].call = H2Pool!NoCall]
  <2>1. 0 \in 0 .. Len(calls') /\ Len(calls) <= Len(calls') /\ CallsTyped' /\ DialErrOwn'
    BY <1>1 DEF H2PoolInv, CallsTyped, DialErrOwn
  <2>2. /\ GettersTyped' /\ H2Pool!CancelNotShared'
        /\ \A h \in Getters : getter'[h].call \in 0 .. Len(calls')
        /\ \A h \in Getters : getter'[h].at = "wait" => getter'[h].call # 0
    BY <1>1, <1>3, <2>1, MovesKeeps DEF H2Pool!NoCall
  <2>3. CallsKnown'
    BY <1>1, <2>2 DEF H2PoolInv, CallsKnown
  <2>. QED  BY <1>1, <2>1, <2>2, <2>3, AddersUntouched DEF H2PoolInv
<1>4. CASE /\ ~H2Pool!shouldRetryDial(call, CtxOf[g]) /\ call.err # "nil"
           /\ H2Pool!Return(g, {}, call.err)
  <2>1. call.err \in {"nil", "canceled", "dial", "noCachedConn"}
    BY <1>2 DEF CallType
  <2>2. call.err = "canceled" => call.ctx \in ended
    BY <1>2 DEF H2PoolInv, DialErrOwn
  <2>3. call.err = "canceled" => CtxOf[g] \in ended
    BY <1>4, <2>2 DEF H2Pool!shouldRetryDial
  <2>. QED  BY <1>1, <1>4, <2>1, <2>3, getterReturnKeeps, AddersUntouched DEF H2PoolInv
<1>5. CASE H2Pool!Return(g, {c}, "nil")
  BY <1>1, <1>5, getterReturnKeeps, AddersUntouched DEF H2PoolInv
<1>. QED  BY <1>3, <1>4, <1>5 DEF H2Pool!afterDial

LEMMA dialCallKeeps ==
  ASSUME H2PoolInv, NEW i \in 1 .. Len(calls), H2Pool!dialClientConn(i) \/ H2Pool!dialDone(i)
  PROVE  H2PoolInv'
<1>1. UNCHANGED <<getter, ended, addCall, adder, added>>
  BY DEF H2Pool!dialClientConn, H2Pool!dialDone
<1>0. calls \in Seq(CallType) /\ Len(calls) \in Nat /\ calls[i] \in CallType
  BY DEF H2PoolInv, CallsTyped
<1>2. CASE UNCHANGED <<calls, dialing>>
  BY <1>1, <1>2, GettersUntouched, AddersUntouched DEF H2PoolInv
<1>3. CASE /\ H2Pool!dialClientConn(i)
           /\ calls' = [calls EXCEPT ![i].err = IF calls[i].ctx \in ended THEN "canceled" ELSE "dial"]
  <2>1. /\ calls' \in Seq(CallType) /\ Len(calls') = Len(calls)
        /\ \A j \in 1 .. Len(calls) : calls'[j].err = "canceled" => calls'[j].ctx \in ended
    <3>. DEFINE e == IF calls[i].ctx \in ended THEN "canceled" ELSE "dial"
    <3>0. calls' = [calls EXCEPT ![i] = [calls[i] EXCEPT !.err = e]]
      BY <1>3
    <3>1. [calls[i] EXCEPT !.err = e] \in CallType
      BY <1>0 DEF CallType
    <3>2. calls' \in Seq(CallType) /\ Len(calls') = Len(calls)
      BY <1>0, <3>0, <3>1, ExceptSeq
    <3>. QED  BY <1>0, <3>0, <3>1, <3>2 DEF CallType, H2PoolInv, DialErrOwn
  <2>2. UNCHANGED dialing
    BY <1>3 DEF H2Pool!dialClientConn
  <2>. QED  BY <1>0, <1>1, <2>1, <2>2, AddersUntouched
             DEF H2PoolInv, CallsTyped, CallsKnown, DialErrOwn, GettersTyped, H2Pool!CancelNotShared
<1>4. CASE H2Pool!dialDone(i)
  <2>1. /\ calls' \in Seq(CallType) /\ Len(calls') = Len(calls)
        /\ \A j \in 1 .. Len(calls) : calls'[j].err = "canceled" => calls'[j].ctx \in ended
    <3>0. calls' = [calls EXCEPT ![i] = [calls[i] EXCEPT !.done = TRUE]]
      BY <1>4 DEF H2Pool!dialDone
    <3>1. [calls[i] EXCEPT !.done = TRUE] \in CallType
      BY <1>0 DEF CallType
    <3>2. calls' \in Seq(CallType) /\ Len(calls') = Len(calls)
      BY <1>0, <3>0, <3>1, ExceptSeq
    <3>. QED  BY <1>0, <3>0, <3>1, <3>2 DEF CallType, H2PoolInv, DialErrOwn
  <2>2. dialing' = 0
    BY <1>4 DEF H2Pool!dialDone, H2Pool!NoCall
  <2>. QED  BY <1>0, <1>1, <2>1, <2>2, AddersUntouched
             DEF H2PoolInv, CallsTyped, CallsKnown, DialErrOwn, GettersTyped, H2Pool!CancelNotShared
<1>. QED  BY <1>2, <1>3, <1>4 DEF H2Pool!dialClientConn

LEMMA cancelKeeps ==
  ASSUME H2PoolInv, NEW x, H2Pool!cancel(x)
  PROVE  H2PoolInv'
<1>1. UNCHANGED <<addCall, adder, added, getter, calls, dialing>> /\ ended \subseteq ended'
  BY DEF H2Pool!cancel
<1>. QED  BY <1>1, AddersUntouched
           DEF H2PoolInv, CallsTyped, CallsKnown, DialErrOwn, GettersTyped, H2Pool!CancelNotShared

LEMMA AdderMoves ==
  ASSUME NEW x \in AdderType, NEW b \in Adders, NEW u \in BOOLEAN
  PROVE  /\ [x EXCEPT !.at = "wait", !.call = {b}] \in AdderType
         /\ [x EXCEPT !.at = "done", !.used = u] \in AdderType
<1>1. {b} \in SUBSET Adders
  OBVIOUS
<1>. QED  BY <1>1 DEF AdderType

LEMMA AddConnIfNeededKeeps ==
  ASSUME H2PoolInv, NEW a \in Adders, H2Pool!AddConnIfNeeded(a)
  PROVE  H2PoolInv'
<1>. USE DEF H2PoolInv, AddersTyped, AdderType
<1>1. UNCHANGED <<dialing, calls, getter, ended, added>> /\ adder[a].at = "start"
  BY DEF H2Pool!AddConnIfNeeded
<1>2. CASE adder' = [adder EXCEPT ![a].at = "done"] /\ UNCHANGED addCall
  <2>1. AddersTyped'
    BY <1>1, <1>2
  <2>2. AddCallWaits'
    BY <1>1, <1>2 DEF AddCallWaits
  <2>3. AddedWaits' /\ H2Pool!HandoverExact'
    BY <1>1, <1>2 DEF AddedWaits, H2Pool!HandoverExact
  <2>. QED  BY <1>1, <2>1, <2>2, <2>3, GettersUntouched
<1>3. CASE LET call == IF addCall = {} THEN {a} ELSE addCall IN
           /\ addCall' = call
           /\ adder' = [adder EXCEPT ![a].at = "wait", ![a].call = call]
  <2>0. PICK b \in Adders : /\ addCall' = {b}
                            /\ adder' = [adder EXCEPT ![a].at = "wait", ![a].call = {b}]
                            /\ b = a \/ (addCall = {b} /\ adder[b].at = "wait" /\ adder[b].call = {b})
    BY <1>3 DEF AddCallWaits
  <2>1. AddersTyped'
    <3>1. [adder[a] EXCEPT !.at = "wait", !.call = {b}] \in AdderType
      <4>. HIDE DEF AdderType
      <4>. QED  BY AdderMoves
    <3>. QED  BY <1>1, <2>0, <3>1
  <2>2. AddCallWaits'
    BY <1>1, <2>0 DEF AddCallWaits
  <2>3. AddedWaits'
    BY <1>1, <2>0 DEF AddedWaits
  <2>4. H2Pool!HandoverExact'
    BY <1>1, <2>0 DEF H2Pool!HandoverExact
  <2>. QED  BY <1>1, <2>1, <2>2, <2>3, <2>4, GettersUntouched
<1>. QED  BY <1>2, <1>3 DEF H2Pool!AddConnIfNeeded

LEMMA addCallRunKeeps ==
  ASSUME H2PoolInv, NEW a \in Adders, H2Pool!addConnRun(a) \/ H2Pool!addConnDone(a)
  PROVE  H2PoolInv'
<1>. USE DEF H2PoolInv
<1>1. UNCHANGED <<dialing, calls, getter, ended, adder>>
  BY DEF H2Pool!addConnRun, H2Pool!addConnDone
<1>2. addCall = {a} /\ adder[a].at = "wait" /\ adder[a].call = {a}
  BY DEF AddCallWaits, H2Pool!addConnRun, H2Pool!addConnDone
<1>3. CASE H2Pool!addConnRun(a)
  <2>0. UNCHANGED addCall /\ \E v \in {"ok", "err"} : added' = [added EXCEPT ![a] = v]
    BY <1>3 DEF H2Pool!addConnRun
  <2>1. AddersTyped' /\ AddCallWaits'
    BY <1>1, <2>0 DEF AddersTyped, AddCallWaits
  <2>2. AddedWaits' /\ H2Pool!HandoverExact'
    BY <1>1, <1>2, <2>0 DEF AddersTyped, AddedWaits, H2Pool!HandoverExact
  <2>. QED  BY <1>1, <2>1, <2>2, GettersUntouched
<1>4. CASE H2Pool!addConnDone(a)
  <2>1. UNCHANGED added /\ addCall' = {}
    BY <1>4 DEF H2Pool!addConnDone
  <2>. QED  BY <1>1, <2>1, GettersUntouched DEF AddersTyped, AddCallWaits, AddedWaits, H2Pool!HandoverExact
<1>. QED  BY <1>3, <1>4

LEMMA addConnReturnKeeps ==
  ASSUME H2PoolInv, NEW a \in Adders, H2Pool!addConnReturn(a)
  PROVE  H2PoolInv'
<1>. USE DEF H2PoolInv, AddersTyped, AdderType
<1>1. UNCHANGED <<dialing, calls, getter, ended, addCall, added>> /\ adder[a].at = "wait"
      /\ addCall # adder[a].call
  BY DEF H2Pool!addConnReturn
<1>2. PICK b \in Adders : adder[a].call = {b} /\ (b = a \/ added[a] = "none")
  BY <1>1 DEF AddedWaits
<1>3. adder' = [adder EXCEPT ![a].at = "done", ![a].used = (added[b] = "ok" /\ b = a)]
  <2>1. (CHOOSE x \in adder[a].call : TRUE) = b
    BY <1>2
  <2>2. H2Pool!isDup(a) <=> b # a
    BY <1>2 DEF H2Pool!isDup
  <2>. QED  BY <2>1, <2>2 DEF H2Pool!addConnReturn
<1>4. AddersTyped'
  <2>1. [adder[a] EXCEPT !.at = "done", !.used = (added[b] = "ok" /\ b = a)] \in AdderType
    <3>. HIDE DEF AdderType
    <3>. QED  BY AdderMoves
  <2>. QED  BY <1>1, <1>3, <2>1
<1>5. AddCallWaits'
  BY <1>1, <1>3 DEF AddCallWaits
<1>6. AddedWaits'
  BY <1>1, <1>3 DEF AddedWaits
<1>7. H2Pool!HandoverExact'
  BY <1>1, <1>2, <1>3 DEF H2Pool!HandoverExact
<1>. QED  BY <1>1, <1>4, <1>5, <1>6, <1>7, GettersUntouched

LEMMA H2PoolStep == H2PoolInv /\ [H2Pool!Next]_(H2Pool!poolVars) => H2PoolInv'
<1>. SUFFICES ASSUME H2PoolInv, [H2Pool!Next]_(H2Pool!poolVars) PROVE H2PoolInv'
  OBVIOUS
<1>1. CASE UNCHANGED H2Pool!poolVars
  BY <1>1, GettersUntouched, AddersUntouched DEF H2Pool!poolVars, H2PoolInv
<1>2. CASE \E c \in H2Pool!Conns : H2Pool!MarkDead(c)
  BY <1>2, GettersUntouched, AddersUntouched DEF H2Pool!MarkDead, H2PoolInv
<1>3. CASE H2Pool!CloseIdleConnections
  BY <1>3, GettersUntouched, AddersUntouched DEF H2Pool!CloseIdleConnections, H2PoolInv
<1>. QED
  BY <1>1, <1>2, <1>3, dialSingleUseKeeps, GetClientConnKeeps, afterDialKeeps, dialCallKeeps, cancelKeeps,
     AddConnIfNeededKeeps, addCallRunKeeps, addConnReturnKeeps DEF H2Pool!Next

\* clientConnPool, for any number of requests, contexts and offered connections:
\* requests that share a dial do not share its cancellation (shouldRetryDial), and
\* AddConnIfNeeded says "used" exactly of the connections a ClientConn runs on.
THEOREM SharedDialsHonest == Spec => []PoolHonest
<1>. DEFINE I == part = "h2pool" => H2PoolInv
<1>1. Init => I
  BY H2PoolInit DEF Init
<1>2. I /\ [Next]_all => I'
  <2>. SUFFICES ASSUME I, [Next]_all, part' = "h2pool" PROVE H2PoolInv'
    OBVIOUS
  <2>1. part = "h2pool" /\ [H2Pool!Next]_(H2Pool!poolVars)
    BY DEF Next, all, H2Pool!poolVars
  <2>. QED  BY <2>1, H2PoolStep
<1>3. I => PoolHonest
  BY DEF PoolHonest, H2PoolInv
<1>. QED  BY <1>1, <1>2, <1>3, PTL DEF Spec

-----------------------------------------------------------------------------
(* http3.Transport: the clients and who uses them.                         *)

\* The variables of H3Pool in the composition.
h3env     == v1
current   == v2
client    == v3
h3req     == v4
h3ended   == v5
h3closed  == v6
processed == v7
USE DEF h3env, current, client, h3req, h3ended, h3closed, processed

ClientType == [by : H3Reqs \cup {"background"}, dial : {"dialing", "ok", "dial", "canceled"},
               useCount : Int, conn : {"none", "up", "closed", "dead"}, idleClosed : BOOLEAN]
H3ReqType == [at : {"start", "wait", "roundTrip", "body", "read", "cut", "failed"}, cl : Nat,
              holds : Seq(Nat), retried : BOOLEAN, err : H3Pool!Errors]

H3PoolTyped ==
    /\ h3env.reqs \subseteq H3Reqs
    /\ client \in Seq(ClientType) /\ current \in 0 .. Len(client)
    /\ h3req \in [h3env.reqs -> H3ReqType]
    /\ processed \in [h3env.reqs -> Nat]

\* The uses of client i: the deferred calls that will give up its use count,
\* and the requests that wait for its dial, under 0.
Uses(i) == {u \in h3env.reqs \X (0 .. 2) :
              \/ u[2] = 0 /\ h3req[u[1]].at = "wait" /\ h3req[u[1]].cl = i
              \/ u[2] \in DOMAIN h3req[u[1]].holds /\ h3req[u[1]].holds[u[2]] = i}

\* doRoundTripOpt is entered at most twice, and each entry that got past the
\* dial holds its client.
HoldsKnown ==
    \A r \in h3env.reqs :
       /\ \A k \in DOMAIN h3req[r].holds : h3req[r].holds[k] \in 1 .. Len(client)
       /\ h3req[r].at \in {"wait", "roundTrip", "body"} => h3req[r].cl \in 1 .. Len(client)
       /\ h3req[r].at \in {"start", "wait"} => Len(h3req[r].holds) = (IF h3req[r].retried THEN 1 ELSE 0)
       /\ h3req[r].at = "roundTrip" =>
             /\ Len(h3req[r].holds) = (IF h3req[r].retried THEN 2 ELSE 1)
             /\ h3req[r].holds[Len(h3req[r].holds)] = h3req[r].cl
       /\ h3req[r].at \notin {"start", "wait", "roundTrip"} => h3req[r].holds = <<>>

\* The use count of a client is never less than its uses (it is more after a
\* context ended during the dial).
Counted == \A i \in 1 .. Len(client) : client[i].useCount >= Cardinality(Uses(i))

\* The client of the map was not closed as idle.
CurrentOpen == current # 0 => ~client[current].idleClosed

\* A request that can still be sent has not been acted on.
NotYetProcessed ==
    \A r \in h3env.reqs : h3req[r].at \in {"start", "wait", "roundTrip"} => processed[r] = 0

H3PoolInv ==
    /\ H3PoolTyped /\ HoldsKnown /\ Counted /\ CurrentOpen /\ NotYetProcessed
    /\ H3Pool!ProcessedOnce /\ H3Pool!RoundTripSpared

LEMMA H3Cardinality == \A S : H3Pool!Cardinality(S) = Cardinality(S)
  BY DEF H3Pool!Cardinality, Cardinality

LEMMA UsesFinite ==
  ASSUME H3PoolConstants, H3PoolInv, NEW i
  PROVE  IsFiniteSet(Uses(i)) /\ Cardinality(Uses(i)) \in Nat
<1>1. IsFiniteSet(h3env.reqs)
  BY FS_Subset DEF H3PoolConstants, H3PoolInv, H3PoolTyped
<1>2. IsFiniteSet(0 .. 2)
  <2>1. 0 \in Int /\ 2 \in Int
    OBVIOUS
  <2>. QED  BY <2>1, FS_Interval, Zenon
<1>3. IsFiniteSet(h3env.reqs \X (0 .. 2))
  BY <1>1, <1>2, FS_Product
<1>4. IsFiniteSet(Uses(i))
  BY <1>3, FS_Subset DEF Uses
<1>. QED  BY <1>4, FS_CardinalityType

\* A client whose use count is 0 has no user.
LEMMA UnusedUnheld ==
  ASSUME H3PoolConstants, H3PoolInv, NEW i \in 1 .. Len(client), client[i].useCount = 0,
         NEW r \in h3env.reqs, h3req[r].at \in {"wait", "roundTrip"}
  PROVE  h3req[r].cl # i
<1>1. Cardinality(Uses(i)) = 0
  BY UsesFinite DEF H3PoolInv, Counted
<1>2. Uses(i) = {}
  BY <1>1, UsesFinite, FS_EmptySet
<1>3. CASE h3req[r].at = "wait"
  <2>1. <<r, 0>> \notin Uses(i)
    BY <1>2
  <2>. QED  BY <1>3, <2>1 DEF Uses
<1>4. CASE h3req[r].at = "roundTrip"
  <2>. DEFINE k == Len(h3req[r].holds)
  <2>1. k \in 0 .. 2 /\ k \in DOMAIN h3req[r].holds /\ h3req[r].holds[k] = h3req[r].cl
    <3>1. h3req[r].holds \in Seq(Nat)
      BY DEF H3PoolInv, H3PoolTyped, H3ReqType
    <3>2. k = (IF h3req[r].retried THEN 2 ELSE 1) /\ h3req[r].holds[k] = h3req[r].cl
      BY <1>4 DEF H3PoolInv, HoldsKnown
    <3>. QED  BY <3>1, <3>2
  <2>2. <<r, k>> \notin Uses(i)
    BY <1>2
  <2>. QED  BY <2>1, <2>2 DEF Uses
<1>. QED  BY <1>3, <1>4

LEMMA H3PoolInit == H3PoolConstants /\ H3Pool!Init => H3PoolInv
<1>. SUFFICES ASSUME H3PoolConstants, H3Pool!Init PROVE H3PoolInv
  OBVIOUS
<1>. USE DEF H3Pool!Init, H3Pool!None, H3Pool!NewH3Req
<1>1. H3PoolTyped
  BY DEF H3PoolTyped, H3PoolConstants, H3Pool!H3ScenarioType, H3ReqType, H3Pool!Errors
<1>2. HoldsKnown /\ CurrentOpen /\ NotYetProcessed /\ H3Pool!ProcessedOnce /\ H3Pool!RoundTripSpared
  BY DEF HoldsKnown, CurrentOpen, NotYetProcessed, H3Pool!ProcessedOnce, H3Pool!RoundTripSpared
<1>3. Counted
  BY DEF Counted
<1>. QED  BY <1>1, <1>2, <1>3 DEF H3PoolInv

\* The end of r's deferred calls, from whatever state r is in.
LEMMA ReleaseCounts ==
  ASSUME H3PoolConstants, H3PoolInv, NEW r \in h3env.reqs, UNCHANGED h3env,
         client' = H3Pool!Release(r),
         NEW s \in H3ReqType, s.holds = <<>>, s.at # "wait", h3req' = [h3req EXCEPT ![r] = s]
  PROVE  /\ client' \in Seq(ClientType) /\ Len(client') = Len(client)
         /\ \A i \in 1 .. Len(client) : client'[i].idleClosed = client[i].idleClosed
         /\ Counted'
<1>. DEFINE K(i) == {k \in DOMAIN h3req[r].holds : h3req[r].holds[k] = i}
<1>0. /\ client \in Seq(ClientType) /\ Len(client) \in Nat /\ h3req[r] \in H3ReqType
      /\ h3req \in [h3env.reqs -> H3ReqType]
  BY DEF H3PoolInv, H3PoolTyped
<1>1. Len(h3req[r].holds) \in 0 .. 2 /\ DOMAIN h3req[r].holds = 1 .. Len(h3req[r].holds)
  <2>1. h3req[r].holds \in Seq(Nat)
    BY <1>0 DEF H3ReqType
  <2>2. \/ Len(h3req[r].holds) \in {0, 1, 2}
        \/ h3req[r].holds = <<>>
    BY DEF H3PoolInv, HoldsKnown
  <2>. QED  BY <2>1, <2>2
<1>2. \A i : IsFiniteSet(K(i)) /\ Cardinality(K(i)) \in Nat
  <2>1. IsFiniteSet(1 .. Len(h3req[r].holds))
    BY <1>1, FS_Interval
  <2>. QED  BY <1>1, <2>1, FS_Subset, FS_CardinalityType
<1>3. client' = [i \in 1 .. Len(client) |-> [client[i] EXCEPT !.useCount = @ - Cardinality(K(i))]]
  <2>1. DOMAIN client = 1 .. Len(client)
    BY <1>0
  <2>2. client' = [i \in DOMAIN client |-> [client[i] EXCEPT !.useCount = @ - Cardinality(K(i))]]
    BY H3Cardinality DEF H3Pool!Release
  <2>. QED  BY <2>1, <2>2
<1>4. \A i \in 1 .. Len(client) : /\ client'[i] \in ClientType
                                  /\ client'[i].useCount = client[i].useCount - Cardinality(K(i))
                                  /\ client'[i].idleClosed = client[i].idleClosed
  <2>. SUFFICES ASSUME NEW i \in 1 .. Len(client)
                PROVE  /\ client'[i] \in ClientType
                       /\ client'[i].useCount = client[i].useCount - Cardinality(K(i))
                       /\ client'[i].idleClosed = client[i].idleClosed
    OBVIOUS
  <2>. HIDE DEF K
  <2>1. client[i] \in ClientType /\ Cardinality(K(i)) \in Nat
    BY <1>0, <1>2
  <2>2. client'[i] = [client[i] EXCEPT !.useCount = client[i].useCount - Cardinality(K(i))]
    BY <1>3
  <2>. QED  BY <2>1, <2>2 DEF ClientType
<1>5. client' \in Seq(ClientType) /\ Len(client') = Len(client)
  <2>1. client' \in [1 .. Len(client) -> ClientType]
    BY <1>3, <1>4
  <2>. QED  BY <1>0, <2>1
<1>6. Counted'
  <2>. SUFFICES ASSUME NEW i \in 1 .. Len(client) PROVE client'[i].useCount >= Cardinality(Uses(i)')
    BY <1>5 DEF Counted
  <2>. DEFINE R == {u \in Uses(i) : u[1] = r /\ u[2] # 0}
  <2>1. Uses(i)' \subseteq Uses(i) \ R
    <3>. SUFFICES ASSUME NEW u \in Uses(i)' PROVE u \in Uses(i) /\ u[1] # r
      OBVIOUS
    <3>1. u \in h3env.reqs \X (0 .. 2)
      BY DEF Uses
    <3>2. u[1] # r
      BY <1>0, <3>1 DEF Uses
    <3>3. h3req'[u[1]] = h3req[u[1]]
      BY <1>0, <3>1, <3>2
    <3>. QED  BY <3>1, <3>2, <3>3 DEF Uses
  <2>2. Cardinality(R) = Cardinality(K(i)) /\ IsFiniteSet(R)
    <3>. DEFINE f == [k \in K(i) |-> <<r, k>>]
    <3>1. R = {<<r, k>> : k \in K(i)}
      BY <1>0, <1>1 DEF Uses
    <3>2. f \in Bijection(K(i), R)
      BY <3>1 DEF Bijection, Injection, Surjection, IsInjective
    <3>. HIDE DEF f, K, R
    <3>3. ExistsBijection(K(i), R)
      BY <3>2 DEF ExistsBijection
    <3>. QED  BY <1>2, <3>3, FS_Bijection
  <2>3. IsFiniteSet(Uses(i)) /\ Cardinality(Uses(i)) \in Nat
    BY UsesFinite
  <2>4. Cardinality(Uses(i) \ R) = Cardinality(Uses(i)) - Cardinality(R) /\ IsFiniteSet(Uses(i) \ R)
    <3>1. R \subseteq Uses(i) /\ Uses(i) \cap R = R
      OBVIOUS
    <3>. HIDE DEF R
    <3>2. IsFiniteSet(Uses(i) \ R)
          /\ Cardinality(Uses(i) \ R) = Cardinality(Uses(i)) - Cardinality(Uses(i) \cap R)
      BY <2>3, FS_Difference
    <3>. QED  BY <3>1, <3>2
  <2>5. Cardinality(Uses(i)') <= Cardinality(Uses(i) \ R) /\ Cardinality(Uses(i)') \in Nat
    <3>. HIDE DEF R
    <3>. QED  BY <2>1, <2>4, FS_Subset, FS_CardinalityType
  <2>6. client[i].useCount >= Cardinality(Uses(i)) /\ client[i].useCount \in Int
    <3>1. client[i] \in ClientType
      BY <1>0
    <3>. QED  BY <3>1 DEF H3PoolInv, Counted, ClientType
  <2>7. client'[i].useCount = client[i].useCount - Cardinality(K(i))
    BY <1>4
  <2>8. Cardinality(K(i)) \in Nat
    BY <1>2
  <2>. HIDE DEF R, K
  <2>. QED  BY <2>2, <2>3, <2>4, <2>5, <2>6, <2>7, <2>8
<1>. QED  BY <1>4, <1>5, <1>6

\* A request is over: it failed or has its response.
LEMMA RequestEnds ==
  ASSUME H3PoolConstants, H3PoolInv, NEW r \in h3env.reqs, UNCHANGED h3env,
         client' = H3Pool!Release(r), current' \in {0, current},
         NEW at \in {"failed", "body"}, NEW e \in H3Pool!Errors,
         h3req' = [h3req EXCEPT ![r] = [h3req[r] EXCEPT !.at = at, !.err = e, !.holds = <<>>]],
         at = "body" => h3req[r].cl \in 1 .. Len(client),
         NEW n \in {0, 1}, processed' = [processed EXCEPT ![r] = @ + n],
         h3req[r].at \in {"start", "wait", "roundTrip"}
  PROVE  H3PoolInv'
<1>. DEFINE s == [h3req[r] EXCEPT !.at = at, !.err = e, !.holds = <<>>]
<1>0. h3req \in [h3env.reqs -> H3ReqType] /\ h3req[r] \in H3ReqType /\ processed \in [h3env.reqs -> Nat]
      /\ current \in 0 .. Len(client) /\ Len(client) \in Nat
  BY DEF H3PoolInv, H3PoolTyped
<1>1. s \in H3ReqType /\ s.holds = <<>> /\ s.at = at /\ s.cl = h3req[r].cl /\ h3req' = [h3req EXCEPT ![r] = s]
  <2>1. <<>> \in Seq(Nat)
    OBVIOUS
  <2>. QED  BY <1>0, <2>1 DEF H3ReqType
<1>. HIDE DEF s
<1>2. /\ client' \in Seq(ClientType) /\ Len(client') = Len(client) /\ Counted'
      /\ \A i \in 1 .. Len(client) : client'[i].idleClosed = client[i].idleClosed
  BY <1>1, ReleaseCounts
<1>3. /\ h3req' \in [h3env.reqs -> H3ReqType] /\ h3req'[r] = s
      /\ \A q \in h3env.reqs : q # r => h3req'[q] = h3req[q]
  BY <1>0, <1>1
<1>4. /\ processed' \in [h3env.reqs -> Nat] /\ processed'[r] <= 1
      /\ \A q \in h3env.reqs : q # r => processed'[q] = processed[q]
  <2>1. processed[r] = 0
    BY DEF H3PoolInv, NotYetProcessed
  <2>2. processed'[r] = n /\ n \in Nat /\ n <= 1
    BY <1>0, <2>1
  <2>. QED  BY <1>0, <2>2
<1>5. H3PoolTyped'
  BY <1>0, <1>2, <1>3, <1>4 DEF H3PoolTyped, H3PoolInv
<1>6. HoldsKnown'
  BY <1>1, <1>2, <1>3 DEF H3PoolInv, HoldsKnown
<1>7. CurrentOpen'
  BY <1>0, <1>2 DEF H3PoolInv, CurrentOpen
<1>8. NotYetProcessed' /\ H3Pool!ProcessedOnce'
  BY <1>1, <1>3, <1>4 DEF H3PoolInv, NotYetProcessed, H3Pool!ProcessedOnce
<1>9. H3Pool!RoundTripSpared'
  BY <1>1, <1>2, <1>3 DEF H3PoolInv, H3Pool!RoundTripSpared, HoldsKnown
<1>. QED  BY <1>2, <1>5, <1>6, <1>7, <1>8, <1>9 DEF H3PoolInv

\* Steps that change neither the requests nor the use counts.
LEMMA ClientsChange ==
  ASSUME H3PoolConstants, H3PoolInv, UNCHANGED <<h3env, h3req, processed>>,
         client' \in Seq(ClientType), Len(client') >= Len(client), current' \in 0 .. Len(client'),
         current' # 0 => ~client'[current'].idleClosed,
         \A i \in 1 .. Len(client) :
            /\ client'[i].useCount = client[i].useCount
            /\ client'[i].idleClosed => client[i].idleClosed \/ client[i].useCount = 0,
         \A i \in Len(client) + 1 .. Len(client') : client'[i].useCount = 0
  PROVE  H3PoolInv'
<1>0. Len(client) \in Nat /\ Len(client') \in Nat
  BY DEF H3PoolInv, H3PoolTyped
<1>1. H3PoolTyped' /\ CurrentOpen' /\ NotYetProcessed' /\ H3Pool!ProcessedOnce'
  BY DEF H3PoolInv, H3PoolTyped, CurrentOpen, NotYetProcessed, H3Pool!ProcessedOnce
<1>2. HoldsKnown'
  BY <1>0 DEF H3PoolInv, HoldsKnown
<1>3. \A i : Uses(i)' = Uses(i)
  BY DEF Uses
<1>4. Counted'
  <2>. SUFFICES ASSUME NEW i \in 1 .. Len(client') PROVE client'[i].useCount >= Cardinality(Uses(i))
    BY <1>3 DEF Counted
  <2>1. CASE i \in 1 .. Len(client)
    BY <2>1 DEF H3PoolInv, Counted
  <2>2. CASE i \in Len(client) + 1 .. Len(client')
    <3>1. Uses(i) = {}
      BY <1>0, <2>2 DEF Uses, H3PoolInv, HoldsKnown
    <3>2. Cardinality(Uses(i)) = 0
      BY <3>1, FS_EmptySet
    <3>. QED  BY <2>2, <3>2
  <2>. QED  BY <1>0, <2>1, <2>2
<1>5. H3Pool!RoundTripSpared'
  <2>. SUFFICES ASSUME NEW r \in h3env.reqs, h3req[r].at \in {"wait", "roundTrip"}
                PROVE  ~client'[h3req[r].cl].idleClosed
    BY DEF H3Pool!RoundTripSpared
  <2>1. h3req[r].cl \in 1 .. Len(client)
    BY DEF H3PoolInv, HoldsKnown
  <2>2. ~client[h3req[r].cl].idleClosed
    BY DEF H3PoolInv, H3Pool!RoundTripSpared
  <2>3. client[h3req[r].cl].useCount # 0
    BY <2>1, UnusedUnheld
  <2>. QED  BY <2>1, <2>2, <2>3
<1>. QED  BY <1>1, <1>2, <1>4, <1>5 DEF H3PoolInv

\* A request moves on to client i, which counts it.
LEMMA ClientTaken ==
  ASSUME H3PoolConstants, H3PoolInv, UNCHANGED <<h3env, processed>>,
         NEW r \in h3env.reqs, h3req[r].at = "start",
         client' \in Seq(ClientType), Len(client') >= Len(client),
         NEW i \in 1 .. Len(client'), current' = i, ~client'[i].idleClosed,
         i <= Len(client) => client'[i].useCount = client[i].useCount + 1,
         i > Len(client) => client'[i].useCount = 1 /\ i = Len(client'),
         Len(client') <= Len(client) + 1, i <= Len(client) => Len(client') = Len(client),
         \A j \in 1 .. Len(client) :
            /\ client'[j].idleClosed = client[j].idleClosed
            /\ j # i => client'[j].useCount = client[j].useCount,
         h3req' = [h3req EXCEPT ![r].at = "wait", ![r].cl = i]
  PROVE  H3PoolInv'
<1>0. Len(client) \in Nat /\ Len(client') \in Nat /\ client \in Seq(ClientType)
      /\ h3req \in [h3env.reqs -> H3ReqType] /\ h3req[r] \in H3ReqType
  BY DEF H3PoolInv, H3PoolTyped
<1>1. /\ h3req' \in [h3env.reqs -> H3ReqType]
      /\ h3req'[r].at = "wait" /\ h3req'[r].cl = i /\ h3req'[r].holds = h3req[r].holds
      /\ h3req'[r].retried = h3req[r].retried
      /\ \A q \in h3env.reqs : q # r => h3req'[q] = h3req[q]
  <2>1. i \in Nat
    BY <1>0
  <2>2. \A q \in h3env.reqs : h3req'[q] \in H3ReqType
    BY <1>0, <2>1 DEF H3ReqType
  <2>. QED  BY <1>0, <2>1, <2>2 DEF H3ReqType
<1>2. H3PoolTyped' /\ CurrentOpen'
  BY <1>0, <1>1 DEF H3PoolInv, H3PoolTyped, CurrentOpen
<1>3. NotYetProcessed' /\ H3Pool!ProcessedOnce'
  BY <1>1 DEF H3PoolInv, NotYetProcessed, H3Pool!ProcessedOnce
<1>4. HoldsKnown'
  BY <1>0, <1>1 DEF H3PoolInv, HoldsKnown
<1>5. \A j : Uses(j)' = IF j = i THEN Uses(j) \cup {<<r, 0>>} ELSE Uses(j)
  <2>1. \A u \in h3env.reqs \X (0 .. 2) : u[1] # r => h3req'[u[1]] = h3req[u[1]]
    BY <1>1
  <2>2. \A j, k : <<r, k>> \in Uses(j) => k # 0
    <3>1. 0 \notin DOMAIN h3req[r].holds
      BY <1>0 DEF H3ReqType
    <3>. QED  BY <3>1 DEF Uses
  <2>3. ASSUME NEW j, NEW u \in h3env.reqs \X (0 .. 2)
        PROVE  u \in Uses(j)' <=> u \in Uses(j) \/ (j = i /\ u = <<r, 0>>)
    <3>1. CASE u[1] # r
      BY <1>0, <2>1, <3>1 DEF Uses
    <3>2. CASE u[1] = r /\ u[2] = 0
      BY <1>0, <1>1, <2>2, <3>2 DEF Uses
    <3>3. CASE u[1] = r /\ u[2] # 0
      BY <1>0, <1>1, <3>3 DEF Uses
    <3>. QED  BY <3>1, <3>2, <3>3
  <2>4. <<r, 0>> \in h3env.reqs \X (0 .. 2) /\ \A j : /\ Uses(j) \subseteq h3env.reqs \X (0 .. 2)
                                                    /\ Uses(j)' \subseteq h3env.reqs \X (0 .. 2)
    BY <1>0 DEF Uses
  <2>. QED  BY <2>3, <2>4
<1>6. <<r, 0>> \notin Uses(i)
  <2>1. 0 \notin DOMAIN h3req[r].holds
    BY <1>0 DEF H3ReqType
  <2>. QED  BY <2>1 DEF Uses
<1>7. Cardinality(Uses(i)') = Cardinality(Uses(i)) + 1
  BY <1>5, <1>6, UsesFinite, FS_AddElement
<1>8. Counted'
  <2>. SUFFICES ASSUME NEW j \in 1 .. Len(client') PROVE client'[j].useCount >= Cardinality(Uses(j)')
    BY DEF Counted
  <2>1. CASE j # i
    <3>1. j \in 1 .. Len(client)
      BY <1>0, <2>1
    <3>. QED  BY <1>5, <2>1, <3>1 DEF H3PoolInv, Counted
  <2>2. CASE j = i /\ i <= Len(client)
    <3>1. client[i].useCount >= Cardinality(Uses(i)) /\ client[i] \in ClientType
      BY <1>0, <2>2 DEF H3PoolInv, Counted
    <3>2. client[i].useCount \in Int /\ Cardinality(Uses(i)) \in Nat
      BY <3>1, UsesFinite DEF ClientType
    <3>. QED  BY <1>7, <2>2, <3>1, <3>2
  <2>3. CASE j = i /\ i > Len(client)
    <3>1. Uses(i) = {}
      BY <1>0, <2>3 DEF Uses, H3PoolInv, HoldsKnown
    <3>2. Cardinality(Uses(i)) = 0
      BY <3>1, FS_EmptySet
    <3>. QED  BY <1>7, <2>3, <3>2
  <2>. QED  BY <1>0, <2>1, <2>2, <2>3
<1>9. H3Pool!RoundTripSpared'
  <2>. SUFFICES ASSUME NEW q \in h3env.reqs, h3req'[q].at \in {"wait", "roundTrip"}
                PROVE  ~client'[h3req'[q].cl].idleClosed
    BY DEF H3Pool!RoundTripSpared
  <2>1. CASE q = r
    BY <1>1, <2>1
  <2>2. CASE q # r
    BY <1>1, <2>2, SMTT(30) DEF H3PoolInv, H3Pool!RoundTripSpared, HoldsKnown
  <2>. QED  BY <2>1, <2>2
<1>. QED  BY <1>2, <1>3, <1>4, <1>8, <1>9 DEF H3PoolInv

LEMMA getClientKeeps ==
  ASSUME H3PoolConstants, H3PoolInv, NEW r \in h3env.reqs, H3Pool!getClient(r)
  PROVE  H3PoolInv'
<1>. USE DEF H3Pool!None
<1>0. /\ client \in Seq(ClientType) /\ Len(client) \in Nat /\ current \in 0 .. Len(client)
      /\ h3env.reqs \subseteq H3Reqs /\ processed \in [h3env.reqs -> Nat]
      /\ h3req \in [h3env.reqs -> H3ReqType]
  BY DEF H3PoolInv, H3PoolTyped
<1>1. UNCHANGED <<h3env, processed>> /\ h3req[r].at = "start"
  BY DEF H3Pool!getClient
<1>2. \A e \in H3Pool!Errors : H3Pool!Fail(r, e) /\ client' = H3Pool!Release(r) /\ current' \in {0, current} => H3PoolInv'
  <2>. SUFFICES ASSUME NEW e \in H3Pool!Errors, H3Pool!Fail(r, e), client' = H3Pool!Release(r), current' \in {0, current}
                PROVE  H3PoolInv'
    OBVIOUS
  <2>1. h3req' = [h3req EXCEPT ![r] = [h3req[r] EXCEPT !.at = "failed", !.err = e, !.holds = <<>>]]
    BY <1>0 DEF H3Pool!Fail
  <2>2. processed' = [processed EXCEPT ![r] = @ + 0]
    BY <1>0, <1>1
  <2>. QED  BY <1>1, <2>1, <2>2, RequestEnds
<1>3. CASE H3Pool!Fail(r, "closed") /\ client' = H3Pool!Release(r) /\ UNCHANGED current
  BY <1>2, <1>3 DEF H3Pool!Errors
<1>4. CASE H3Pool!Fail(r, "noCachedConn") /\ client' = H3Pool!Release(r) /\ UNCHANGED current
  BY <1>2, <1>4 DEF H3Pool!Errors
<1>5. CASE /\ current # 0 /\ client[current].dial \in {"dial", "canceled"}
           /\ H3Pool!Fail(r, client[current].dial) /\ client' = H3Pool!Release(r) /\ current' = 0
  BY <1>2, <1>5 DEF H3Pool!Errors
<1>6. CASE /\ current = 0
           /\ client' = H3Pool!Used(Append(client, H3Pool!NewClient(r)), Len(client) + 1)
           /\ current' = Len(client) + 1
           /\ h3req' = [h3req EXCEPT ![r].at = "wait", ![r].cl = current']
  <2>. DEFINE n == Len(client) + 1
              a == Append(client, H3Pool!NewClient(r))
  <2>1. H3Pool!NewClient(r) \in ClientType
    BY <1>0 DEF H3Pool!NewClient, ClientType
  <2>2. a \in Seq(ClientType) /\ Len(a) = n /\ a[n] = H3Pool!NewClient(r)
        /\ \A j \in 1 .. Len(client) : a[j] = client[j]
    BY <1>0, <2>1
  <2>3. client' = [a EXCEPT ![n] = [a[n] EXCEPT !.useCount = @ + 1]]
    BY <1>6 DEF H3Pool!Used
  <2>4. [a[n] EXCEPT !.useCount = @ + 1] \in ClientType
        /\ [a[n] EXCEPT !.useCount = @ + 1].useCount = 1 /\ ~[a[n] EXCEPT !.useCount = @ + 1].idleClosed
    <3>1. a[n] \in ClientType /\ a[n].useCount = 0 /\ a[n].idleClosed = FALSE
      BY <2>1, <2>2 DEF H3Pool!NewClient
    <3>. HIDE DEF a, n
    <3>. QED  BY <3>1 DEF ClientType
  <2>. HIDE DEF a
  <2>5. n \in 1 .. Len(a)
    BY <1>0, <2>2
  <2>6. /\ client' \in Seq(ClientType) /\ Len(client') = n /\ client'[n].useCount = 1
        /\ ~client'[n].idleClosed /\ \A j \in 1 .. Len(client) : client'[j] = client[j]
    BY <1>0, <2>2, <2>3, <2>4, <2>5, ExceptSeq
  <2>7. /\ n \in 1 .. Len(client') /\ current' = n /\ Len(client') >= Len(client) /\ n > Len(client)
        /\ n = Len(client') /\ Len(client') <= Len(client) + 1
        /\ h3req' = [h3req EXCEPT ![r].at = "wait", ![r].cl = n]
    BY <1>0, <1>6, <2>6
  <2>8. /\ n <= Len(client) => client'[n].useCount = client[n].useCount + 1
        /\ n <= Len(client) => Len(client') = Len(client)
    BY <1>0
  <2>9. \A j \in 1 .. Len(client) : /\ client'[j].idleClosed = client[j].idleClosed
                                    /\ j # n => client'[j].useCount = client[j].useCount
    BY <2>6
  <2>. HIDE DEF n
  <2>. QED  BY <1>1, <2>6, <2>7, <2>8, <2>9, ClientTaken
<1>7. CASE /\ current # 0
           /\ client' = H3Pool!Used(client, current)
           /\ h3req' = [h3req EXCEPT ![r].at = "wait", ![r].cl = current]
           /\ UNCHANGED current
  <2>1. client[current] \in ClientType /\ current \in 1 .. Len(client)
    BY <1>0, <1>7
  <2>2. client' = [client EXCEPT ![current] = [client[current] EXCEPT !.useCount = @ + 1]]
    BY <1>7 DEF H3Pool!Used
  <2>. DEFINE c == [client[current] EXCEPT !.useCount = @ + 1]
  <2>3. c \in ClientType /\ c.useCount = client[current].useCount + 1 /\ c.idleClosed = client[current].idleClosed
    BY <2>1 DEF ClientType
  <2>4. ~client[current].idleClosed
    BY <1>7 DEF H3PoolInv, CurrentOpen
  <2>. HIDE DEF c
  <2>5. /\ client' \in Seq(ClientType) /\ Len(client') = Len(client)
        /\ \A j \in 1 .. Len(client) : client'[j] = IF j = current THEN c ELSE client[j]
    BY <1>0, <2>1, <2>2, <2>3, ExceptSeq DEF c
  <2>6. /\ current \in 1 .. Len(client') /\ current' = current /\ Len(client') >= Len(client)
        /\ ~(current > Len(client)) /\ Len(client') <= Len(client) + 1
    BY <1>0, <1>7, <2>1, <2>5
  <2>7. ~client'[current].idleClosed /\ client'[current].useCount = client[current].useCount + 1
    BY <2>1, <2>3, <2>4, <2>5
  <2>8. \A j \in 1 .. Len(client) : /\ client'[j].idleClosed = client[j].idleClosed
                                    /\ j # current => client'[j].useCount = client[j].useCount
    BY <2>3, <2>5
  <2>. QED  BY <1>1, <1>7, <2>5, <2>6, <2>7, <2>8, ClientTaken
<1>. QED  BY <1>3, <1>4, <1>5, <1>6, <1>7 DEF H3Pool!getClient

\* The dial is over, or the context of the request.
LEMMA awaitKeeps ==
  ASSUME H3PoolConstants, H3PoolInv, NEW r \in h3env.reqs, H3Pool!awaitDial(r) \/ H3Pool!awaitDialCanceled(r)
  PROVE  H3PoolInv'
<1>. USE DEF H3Pool!None
<1>0. /\ client \in Seq(ClientType) /\ Len(client) \in Nat /\ current \in 0 .. Len(client)
      /\ h3req \in [h3env.reqs -> H3ReqType] /\ h3req[r] \in H3ReqType
      /\ processed \in [h3env.reqs -> Nat]
  BY DEF H3PoolInv, H3PoolTyped
<1>1. UNCHANGED <<h3env, processed>> /\ h3req[r].at = "wait"
  BY DEF H3Pool!awaitDial, H3Pool!awaitDialCanceled
<1>2. client[h3req[r].cl] \in ClientType
  BY <1>0, <1>1 DEF H3PoolInv, HoldsKnown
<1>3. CASE /\ \E e \in H3Pool!Errors : H3Pool!Fail(r, e)
           /\ client' = H3Pool!Release(r) /\ current' \in {0, current}
  <2>0. PICK e \in H3Pool!Errors : H3Pool!Fail(r, e)
    BY <1>3
  <2>1. h3req' = [h3req EXCEPT ![r] = [h3req[r] EXCEPT !.at = "failed", !.err = e, !.holds = <<>>]]
    BY <1>0, <2>0 DEF H3Pool!Fail
  <2>2. processed' = [processed EXCEPT ![r] = @ + 0]
    BY <1>0, <1>1
  <2>. QED  BY <1>1, <1>3, <2>1, <2>2, RequestEnds
<1>4. CASE /\ h3req' = [h3req EXCEPT ![r].at = "roundTrip", ![r].holds = Append(@, h3req[r].cl)]
           /\ UNCHANGED <<current, client>>
  <2>. DEFINE h == h3req[r].holds
              n == Len(h) + 1
              s == [h3req[r] EXCEPT !.at = "roundTrip", !.holds = Append(h, h3req[r].cl)]
  <2>1. h \in Seq(Nat) /\ Len(h) = (IF h3req[r].retried THEN 1 ELSE 0) /\ h3req[r].cl \in Nat
        /\ h3req[r].cl \in 1 .. Len(client) /\ DOMAIN h = 1 .. Len(h) /\ n \in 0 .. 2 /\ n # 0
        /\ \A k \in DOMAIN h : h[k] \in 1 .. Len(client)
    BY <1>0, <1>1 DEF H3PoolInv, HoldsKnown, H3ReqType
  <2>2. /\ Append(h, h3req[r].cl) \in Seq(Nat) /\ Len(Append(h, h3req[r].cl)) = n
        /\ DOMAIN Append(h, h3req[r].cl) = 1 .. n /\ Append(h, h3req[r].cl)[n] = h3req[r].cl
        /\ \A k \in DOMAIN h : Append(h, h3req[r].cl)[k] = h[k]
    BY <2>1
  <2>3. /\ s \in H3ReqType /\ s.at = "roundTrip" /\ s.cl = h3req[r].cl /\ s.retried = h3req[r].retried
        /\ s.holds = Append(h, h3req[r].cl)
    BY <1>0, <2>2 DEF H3ReqType
  <2>4. h3req' = [h3req EXCEPT ![r] = s]
    BY <1>4
  <2>. HIDE DEF s
  <2>5. /\ h3req' \in [h3env.reqs -> H3ReqType] /\ h3req'[r] = s
        /\ \A q \in h3env.reqs : q # r => h3req'[q] = h3req[q]
    BY <1>0, <2>3, <2>4
  <2>6. H3PoolTyped' /\ CurrentOpen' /\ NotYetProcessed' /\ H3Pool!ProcessedOnce'
    BY <1>0, <1>1, <1>4, <2>3, <2>5
       DEF H3PoolInv, H3PoolTyped, CurrentOpen, NotYetProcessed, H3Pool!ProcessedOnce
  <2>7. HoldsKnown'
    <3>1. \A q \in h3env.reqs : q # r => h3req'[q] = h3req[q]
      BY <2>5
    <3>2. /\ \A k \in DOMAIN s.holds : s.holds[k] \in 1 .. Len(client)
          /\ Len(s.holds) = (IF s.retried THEN 2 ELSE 1) /\ s.holds[Len(s.holds)] = s.cl
      BY <2>1, <2>2, <2>3
    <3>. SUFFICES ASSUME NEW q \in h3env.reqs
                  PROVE  /\ \A k \in DOMAIN h3req'[q].holds : h3req'[q].holds[k] \in 1 .. Len(client)
                         /\ h3req'[q].at \in {"wait", "roundTrip", "body"} => h3req'[q].cl \in 1 .. Len(client)
                         /\ h3req'[q].at \in {"start", "wait"} =>
                               Len(h3req'[q].holds) = (IF h3req'[q].retried THEN 1 ELSE 0)
                         /\ h3req'[q].at = "roundTrip" =>
                               /\ Len(h3req'[q].holds) = (IF h3req'[q].retried THEN 2 ELSE 1)
                               /\ h3req'[q].holds[Len(h3req'[q].holds)] = h3req'[q].cl
                         /\ h3req'[q].at \notin {"start", "wait", "roundTrip"} => h3req'[q].holds = <<>>
      BY <1>1, <1>4 DEF HoldsKnown
    <3>3. CASE q = r
      BY <2>1, <2>3, <2>5, <3>2, <3>3
    <3>4. CASE q # r
      BY <3>1, <3>4 DEF H3PoolInv, HoldsKnown
    <3>. QED  BY <3>3, <3>4
  <2>8. H3Pool!RoundTripSpared'
    BY <1>1, <1>4, <2>3, <2>5 DEF H3PoolInv, H3Pool!RoundTripSpared
  <2>9. Counted'
    <3>. SUFFICES ASSUME NEW i \in 1 .. Len(client) PROVE client[i].useCount >= Cardinality(Uses(i)')
      BY <1>4 DEF Counted
    <3>0. client[i].useCount >= Cardinality(Uses(i)) /\ IsFiniteSet(Uses(i))
      BY UsesFinite DEF H3PoolInv, Counted
    <3>1. CASE i # h3req[r].cl
      <4>1. Uses(i)' = Uses(i)
        <5>1. ASSUME NEW u \in h3env.reqs \X (0 .. 2) PROVE u \in Uses(i)' <=> u \in Uses(i)
          <6>1. CASE u[1] # r
            BY <1>1, <2>5, <6>1 DEF Uses
          <6>2. CASE u[1] = r
            <7>1. h3req'[r].at = "roundTrip" /\ h3req'[r].holds = Append(h, h3req[r].cl)
              BY <2>3, <2>5
            <7>2. u \in Uses(i)' <=> u[2] \in 1 .. n /\ Append(h, h3req[r].cl)[u[2]] = i
              BY <1>1, <2>2, <6>2, <7>1 DEF Uses
            <7>3. u \in Uses(i) <=> u[2] \in DOMAIN h /\ h[u[2]] = i
              BY <1>1, <3>1, <6>2 DEF Uses
            <7>4. u[2] \in 1 .. n <=> u[2] \in DOMAIN h \/ u[2] = n
              BY <2>1
            <7>. QED  BY <2>2, <3>1, <7>2, <7>3, <7>4
          <6>. QED  BY <6>1, <6>2
        <5>. QED  BY <1>1, <5>1 DEF Uses
      <4>. QED  BY <3>0, <4>1
    <3>2. CASE i = h3req[r].cl
      <4>. DEFINE U == Uses(i) \ {<<r, 0>>}
      <4>1. <<r, 0>> \in Uses(i) /\ <<r, n>> \notin U
        BY <1>1, <2>1, <3>2 DEF Uses
      <4>2. Uses(i)' = U \cup {<<r, n>>}
        <5>1. ASSUME NEW u \in h3env.reqs \X (0 .. 2) PROVE u \in Uses(i)' <=> u \in U \cup {<<r, n>>}
          <6>1. CASE u[1] # r
            BY <1>1, <2>5, <6>1 DEF Uses
          <6>2. CASE u[1] = r
            <7>0. u = <<r, u[2]>> /\ u[2] \in 0 .. 2
              BY <6>2
            <7>1. u \in Uses(i)' <=> u[2] \in DOMAIN s.holds /\ s.holds[u[2]] = i
              BY <1>1, <2>3, <2>5, <6>2 DEF Uses
            <7>2. u \in U <=> u[2] \in DOMAIN h /\ h[u[2]] = i
              BY <1>1, <2>1, <3>2, <6>2, <7>0 DEF Uses
            <7>. QED  BY <2>1, <2>2, <2>3, <3>2, <7>0, <7>1, <7>2
          <6>. QED  BY <6>1, <6>2
        <5>2. <<r, n>> \in h3env.reqs \X (0 .. 2) /\ Uses(i)' \subseteq h3env.reqs \X (0 .. 2)
              /\ U \subseteq h3env.reqs \X (0 .. 2)
          BY <1>1, <2>1 DEF Uses
        <5>. HIDE DEF U
        <5>. QED  BY <5>1, <5>2
      <4>3. Cardinality(U) = Cardinality(Uses(i)) - 1 /\ IsFiniteSet(U)
        BY <3>0, <4>1, FS_RemoveElement
      <4>. HIDE DEF U
      <4>4. Cardinality(Uses(i)') = Cardinality(U) + 1
        BY <4>1, <4>2, <4>3, FS_AddElement
      <4>5. Cardinality(Uses(i)) \in Nat
        BY UsesFinite
      <4>. QED  BY <3>0, <4>3, <4>4, <4>5
    <3>. QED  BY <3>1, <3>2
  <2>. QED  BY <2>6, <2>7, <2>8, <2>9 DEF H3PoolInv
<1>. QED
  <2>1. client[h3req[r].cl].dial \in H3Pool!Errors \/ client[h3req[r].cl].dial \in {"dialing", "ok"}
    BY <1>2 DEF ClientType, H3Pool!Errors
  <2>2. "canceled" \in H3Pool!Errors
    BY DEF H3Pool!Errors
  <2>. QED  BY <1>3, <1>4, <2>1, <2>2 DEF H3Pool!awaitDial, H3Pool!awaitDialCanceled

\* The response, or the end of a request that is not tried again.
LEMMA RoundTripKeeps ==
  ASSUME H3PoolConstants, H3PoolInv, NEW r \in h3env.reqs,
         \/ H3Pool!RoundTripOK(r)
         \/ \E e \in {"unusable", "rejected", "failed", "canceled"} : H3Pool!RoundTripErr(r, e)
  PROVE  H3PoolInv'
<1>. USE DEF H3Pool!None
<1>0. /\ client \in Seq(ClientType) /\ Len(client) \in Nat /\ current \in 0 .. Len(client)
      /\ h3req \in [h3env.reqs -> H3ReqType] /\ h3req[r] \in H3ReqType
      /\ processed \in [h3env.reqs -> Nat]
  BY DEF H3PoolInv, H3PoolTyped
<1>1. UNCHANGED h3env /\ h3req[r].at = "roundTrip"
  BY DEF H3Pool!RoundTripOK, H3Pool!RoundTripErr
<1>2. h3req[r].cl \in 1 .. Len(client) /\ h3req[r].err \in H3Pool!Errors
  BY <1>0, <1>1 DEF H3PoolInv, HoldsKnown, H3ReqType
<1>3. CASE H3Pool!RoundTripOK(r)
  <2>1. h3req' = [h3req EXCEPT ![r] = [h3req[r] EXCEPT !.at = "body", !.err = h3req[r].err, !.holds = <<>>]]
    BY <1>0, <1>3 DEF H3Pool!RoundTripOK, H3ReqType
  <2>2. processed' = [processed EXCEPT ![r] = @ + 1] /\ client' = H3Pool!Release(r) /\ current' \in {0, current}
    BY <1>3 DEF H3Pool!RoundTripOK
  <2>. QED  BY <1>1, <1>2, <2>1, <2>2, RequestEnds
<1>4. ASSUME NEW e \in {"unusable", "rejected", "failed", "canceled"}, H3Pool!RoundTripErr(r, e)
      PROVE  H3PoolInv'
  <2>0. e \in H3Pool!Errors
    BY DEF H3Pool!Errors
  <2>1. CASE H3Pool!Fail(r, e) /\ client' = H3Pool!Release(r) /\ current' \in {0, current}
    <3>1. h3req' = [h3req EXCEPT ![r] = [h3req[r] EXCEPT !.at = "failed", !.err = e, !.holds = <<>>]]
      BY <1>0, <2>1 DEF H3Pool!Fail
    <3>2. CASE e \in {"failed", "canceled"}
      <4>1. processed' = [processed EXCEPT ![r] = @ + 1]
        BY <1>4, <3>2 DEF H3Pool!RoundTripErr
      <4>. QED  BY <1>1, <2>0, <2>1, <3>1, <4>1, RequestEnds
    <3>3. CASE e \notin {"failed", "canceled"}
      <4>1. processed' = [processed EXCEPT ![r] = @ + 0]
        BY <1>0, <1>4, <3>3 DEF H3Pool!RoundTripErr
      <4>. QED  BY <1>1, <2>0, <2>1, <3>1, <4>1, RequestEnds
    <3>. QED  BY <3>2, <3>3
  <2>2. CASE /\ ~h3req[r].retried /\ current' = 0 /\ H3Pool!canRetryRequest(e) /\ UNCHANGED client
             /\ h3req' = [h3req EXCEPT ![r].at = "start", ![r].retried = TRUE]
    <3>. DEFINE s == [h3req[r] EXCEPT !.at = "start", !.retried = TRUE]
    <3>1. s \in H3ReqType /\ s.at = "start" /\ s.holds = h3req[r].holds /\ s.retried = TRUE /\ h3req' = [h3req EXCEPT ![r] = s]
      BY <1>0, <2>2 DEF H3ReqType
    <3>. HIDE DEF s
    <3>2. /\ h3req' \in [h3env.reqs -> H3ReqType] /\ h3req'[r] = s
          /\ \A q \in h3env.reqs : q # r => h3req'[q] = h3req[q]
      BY <1>0, <3>1
    <3>3. UNCHANGED processed
      BY <1>4, <2>2 DEF H3Pool!RoundTripErr, H3Pool!canRetryRequest
    <3>4. H3PoolTyped' /\ CurrentOpen' /\ NotYetProcessed' /\ H3Pool!ProcessedOnce'
      BY <1>0, <1>1, <2>2, <3>1, <3>2, <3>3
         DEF H3PoolInv, H3PoolTyped, CurrentOpen, NotYetProcessed, H3Pool!ProcessedOnce
    <3>5. HoldsKnown'
      <4>1. Len(s.holds) = 1 /\ \A k \in DOMAIN s.holds : s.holds[k] \in 1 .. Len(client)
        BY <1>1, <2>2, <3>1 DEF H3PoolInv, HoldsKnown
      <4>. QED  BY <1>0, <1>1, <2>2, <3>1, <3>2, <4>1 DEF H3PoolInv, HoldsKnown
    <3>6. \A i : Uses(i)' = Uses(i)
      <4>1. \A u \in h3env.reqs \X (0 .. 2) : /\ h3req'[u[1]].holds = h3req[u[1]].holds
                                              /\ h3req'[u[1]].at = "wait" <=> h3req[u[1]].at = "wait"
                                              /\ h3req'[u[1]].at = "wait" => h3req'[u[1]].cl = h3req[u[1]].cl
        BY <1>1, <3>1, <3>2
      <4>. QED  BY <1>1, <4>1 DEF Uses
    <3>7. Counted'
      BY <2>2, <3>6 DEF H3PoolInv, Counted
    <3>8. H3Pool!RoundTripSpared'
      BY <1>1, <2>2, <3>1, <3>2 DEF H3PoolInv, H3Pool!RoundTripSpared
    <3>. QED  BY <3>4, <3>5, <3>7, <3>8 DEF H3PoolInv
  <2>. QED  BY <1>4, <2>1, <2>2 DEF H3Pool!RoundTripErr
<1>. QED  BY <1>3, <1>4

LEMMA readBodyKeeps ==
  ASSUME H3PoolConstants, H3PoolInv, NEW r \in h3env.reqs, H3Pool!readBody(r)
  PROVE  H3PoolInv'
<1>0. /\ client \in Seq(ClientType) /\ Len(client) \in Nat /\ current \in 0 .. Len(client)
      /\ h3req \in [h3env.reqs -> H3ReqType] /\ h3req[r] \in H3ReqType
      /\ h3req[r].at = "body" /\ UNCHANGED <<h3env, current, client, processed>>
  BY DEF H3PoolInv, H3PoolTyped, H3Pool!readBody
<1>1. PICK a \in {"read", "cut"} : h3req' = [h3req EXCEPT ![r] = [h3req[r] EXCEPT !.at = a]]
  BY <1>0 DEF H3Pool!readBody
<1>. DEFINE s == [h3req[r] EXCEPT !.at = a]
<1>2. s \in H3ReqType /\ s.at = a /\ s.holds = h3req[r].holds
  BY <1>0 DEF H3ReqType
<1>. HIDE DEF s
<1>3. /\ h3req' \in [h3env.reqs -> H3ReqType] /\ h3req'[r] = s
      /\ \A q \in h3env.reqs : q # r => h3req'[q] = h3req[q]
  BY <1>0, <1>1, <1>2 DEF s
<1>4. H3PoolTyped' /\ CurrentOpen' /\ NotYetProcessed' /\ H3Pool!ProcessedOnce'
  BY <1>0, <1>2, <1>3 DEF H3PoolInv, H3PoolTyped, CurrentOpen, NotYetProcessed, H3Pool!ProcessedOnce
<1>5. HoldsKnown'
  BY <1>0, <1>2, <1>3 DEF H3PoolInv, HoldsKnown
<1>6. \A i : Uses(i)' = Uses(i)
  <2>1. \A u \in h3env.reqs \X (0 .. 2) : /\ h3req'[u[1]].holds = h3req[u[1]].holds
                                          /\ h3req'[u[1]].at = "wait" <=> h3req[u[1]].at = "wait"
                                          /\ h3req'[u[1]].at = "wait" => h3req'[u[1]].cl = h3req[u[1]].cl
    BY <1>0, <1>2, <1>3
  <2>. QED  BY <1>0, <2>1 DEF Uses
<1>7. Counted'
  BY <1>0, <1>6 DEF H3PoolInv, Counted
<1>8. H3Pool!RoundTripSpared'
  BY <1>0, <1>2, <1>3 DEF H3PoolInv, H3Pool!RoundTripSpared
<1>. QED  BY <1>4, <1>5, <1>7, <1>8 DEF H3PoolInv

\* A step that only sets one client's dial, conn and idleClosed.
LEMMA OneClientChanges ==
  ASSUME H3PoolConstants, H3PoolInv, UNCHANGED <<h3env, h3req, processed>>,
         NEW i \in 1 .. Len(client), NEW c \in ClientType, client' = [client EXCEPT ![i] = c],
         c.useCount = client[i].useCount, current' \in {0, current},
         c.idleClosed = client[i].idleClosed \/ (client[i].useCount = 0 /\ current' = 0)
  PROVE  H3PoolInv'
<1>0. client \in Seq(ClientType) /\ Len(client) \in Nat /\ current \in 0 .. Len(client)
  BY DEF H3PoolInv, H3PoolTyped
<1>1. /\ client' \in Seq(ClientType) /\ Len(client') = Len(client)
      /\ \A j \in 1 .. Len(client) : client'[j] = IF j = i THEN c ELSE client[j]
  BY <1>0, ExceptSeq
<1>2. current' # 0 => ~client'[current'].idleClosed
  <2>. SUFFICES ASSUME current' # 0 PROVE ~client'[current'].idleClosed
    OBVIOUS
  <2>1. current' = current /\ current \in 1 .. Len(client) /\ ~client[current].idleClosed
    BY <1>0 DEF H3PoolInv, CurrentOpen
  <2>. QED  BY <1>1, <2>1
<1>3. \A j \in 1 .. Len(client) : /\ client'[j].useCount = client[j].useCount
                                  /\ client'[j].idleClosed => client[j].idleClosed \/ client[j].useCount = 0
  BY <1>1
<1>4. /\ Len(client') >= Len(client) /\ current' \in 0 .. Len(client')
      /\ \A j \in Len(client) + 1 .. Len(client') : client'[j].useCount = 0
  BY <1>0, <1>1
<1>. QED  BY <1>1, <1>2, <1>3, <1>4, ClientsChange

LEMMA dialKeeps ==
  ASSUME H3PoolConstants, H3PoolInv, NEW i \in DOMAIN client, H3Pool!dial(i) \/ H3Pool!die(i)
  PROVE  H3PoolInv'
<1>0. client \in Seq(ClientType) /\ i \in 1 .. Len(client) /\ client[i] \in ClientType
  BY DEF H3PoolInv, H3PoolTyped
<1>1. UNCHANGED <<h3env, h3req, processed, current>>
  BY DEF H3Pool!dial, H3Pool!die
<1>2. \E d \in {"dialing", "ok", "dial", "canceled"}, k \in {"none", "up", "closed", "dead"} :
         client' = [client EXCEPT ![i] = [client[i] EXCEPT !.dial = d, !.conn = k]]
  <2>1. client[i].dial \in {"dialing", "ok", "dial", "canceled"} /\ client[i].conn \in {"none", "up", "closed", "dead"}
    BY <1>0 DEF ClientType
  <2>2. CASE client' = [client EXCEPT ![i].dial = "ok", ![i].conn = "up"]
    <3>1. client' = [client EXCEPT ![i] = [client[i] EXCEPT !.dial = "ok", !.conn = "up"]]
      BY <1>0, <2>2
    <3>. QED  BY <3>1
  <2>3. ASSUME NEW d \in {"dial", "canceled"}, client' = [client EXCEPT ![i].dial = d] 
      PROVE  \E dd \in {"dialing", "ok", "dial", "canceled"}, k \in {"none", "up", "closed", "dead"} :
                client' = [client EXCEPT ![i] = [client[i] EXCEPT !.dial = dd, !.conn = k]]
    <3>1. client' = [client EXCEPT ![i] = [client[i] EXCEPT !.dial = d, !.conn = client[i].conn]]
      BY <1>0, <2>3 DEF ClientType
    <3>. QED  BY <2>1, <3>1
  <2>4. CASE client' = [client EXCEPT ![i].conn = "dead"]
    <3>1. client' = [client EXCEPT ![i] = [client[i] EXCEPT !.dial = client[i].dial, !.conn = "dead"]]
      BY <1>0, <2>4 DEF ClientType
    <3>. QED  BY <2>1, <3>1
  <2>. QED  BY <2>2, <2>3, <2>4 DEF H3Pool!dial, H3Pool!die
<1>3. PICK d \in {"dialing", "ok", "dial", "canceled"}, k \in {"none", "up", "closed", "dead"} :
         client' = [client EXCEPT ![i] = [client[i] EXCEPT !.dial = d, !.conn = k]]
  BY <1>2
<1>. DEFINE c == [client[i] EXCEPT !.dial = d, !.conn = k]
<1>4. c \in ClientType /\ c.useCount = client[i].useCount /\ c.idleClosed = client[i].idleClosed
  BY <1>0 DEF ClientType
<1>5. client' = [client EXCEPT ![i] = c] /\ current' \in {0, current}
  BY <1>1, <1>3
<1>. HIDE DEF c
<1>. QED  BY <1>0, <1>1, <1>4, <1>5, OneClientChanges

LEMMA ClosedClient ==
  ASSUME NEW c \in ClientType
  PROVE  /\ H3Pool!Closed(c) \in ClientType /\ H3Pool!Closed(c).useCount = c.useCount
         /\ H3Pool!Closed(c).idleClosed = c.idleClosed
  BY DEF ClientType, H3Pool!Closed

\* AddConn, CloseIdleConnections, Close.
LEMMA TransportCallsKeep ==
  ASSUME H3PoolConstants, H3PoolInv, H3Pool!AddConn \/ H3Pool!CloseIdleConnections \/ H3Pool!Close
  PROVE  H3PoolInv'
<1>. USE DEF H3Pool!None
<1>0. client \in Seq(ClientType) /\ Len(client) \in Nat /\ current \in 0 .. Len(client) /\ DOMAIN client = 1 .. Len(client)
  BY DEF H3PoolInv, H3PoolTyped
<1>1. UNCHANGED <<h3env, h3req, processed>>
  BY DEF H3Pool!AddConn, H3Pool!CloseIdleConnections, H3Pool!Close
<1>2. CASE H3Pool!Close
  <2>1. client' = [i \in 1 .. Len(client) |-> H3Pool!Closed(client[i])] /\ current' = 0
    BY <1>0, <1>2 DEF H3Pool!Close
  <2>2. \A i \in 1 .. Len(client) : /\ client'[i] \in ClientType /\ client'[i].useCount = client[i].useCount
                                    /\ client'[i].idleClosed = client[i].idleClosed
    BY <1>0, <2>1, ClosedClient
  <2>3. client' \in [1 .. Len(client) -> ClientType]
    BY <2>1, <2>2
  <2>4. client' \in Seq(ClientType) /\ Len(client') = Len(client)
    BY <1>0, <2>3
  <2>5. /\ Len(client') >= Len(client) /\ current' \in 0 .. Len(client')
        /\ \A i \in Len(client) + 1 .. Len(client') : client'[i].useCount = 0
    BY <1>0, <2>1, <2>4
  <2>. QED  BY <1>1, <2>1, <2>2, <2>4, <2>5, ClientsChange
<1>3. CASE H3Pool!CloseIdleConnections
  <2>1. current \in 1 .. Len(client) /\ client[current].useCount = 0 /\ current' = 0
    BY <1>0, <1>3 DEF H3Pool!CloseIdleConnections
  <2>. DEFINE c == [H3Pool!Closed(client[current]) EXCEPT !.idleClosed = TRUE]
  <2>2. client' = [client EXCEPT ![current] = c]
    BY <1>3 DEF H3Pool!CloseIdleConnections
  <2>3. H3Pool!Closed(client[current]) \in ClientType /\ H3Pool!Closed(client[current]).useCount = client[current].useCount
    BY <1>0, <2>1, ClosedClient
  <2>4. c \in ClientType /\ c.useCount = client[current].useCount
    BY <2>3 DEF ClientType
  <2>. HIDE DEF c
  <2>. QED  BY <1>1, <2>1, <2>2, <2>4, OneClientChanges
<1>4. CASE /\ client' = Append(client, H3Pool!NewClient("background")) /\ current' = Len(client')
  <2>1. H3Pool!NewClient("background") \in ClientType /\ H3Pool!NewClient("background").useCount = 0
        /\ H3Pool!NewClient("background").idleClosed = FALSE
    BY DEF H3Pool!NewClient, ClientType
  <2>2. /\ client' \in Seq(ClientType) /\ Len(client') = Len(client) + 1
        /\ client'[Len(client) + 1] = H3Pool!NewClient("background")
        /\ \A i \in 1 .. Len(client) : client'[i] = client[i]
    BY <1>0, <1>4, <2>1
  <2>3. /\ Len(client') >= Len(client) /\ current' \in 0 .. Len(client')
        /\ \A i \in Len(client) + 1 .. Len(client') : client'[i].useCount = 0
        /\ current' # 0 => ~client'[current'].idleClosed
    BY <1>0, <1>4, <2>1, <2>2
  <2>. QED  BY <1>1, <2>2, <2>3, ClientsChange
<1>5. CASE UNCHANGED client /\ current' = 0
  <2>1. /\ client' \in Seq(ClientType) /\ Len(client') >= Len(client) /\ current' \in 0 .. Len(client')
        /\ \A i \in Len(client) + 1 .. Len(client') : client'[i].useCount = 0
    BY <1>0, <1>5
  <2>2. \A i \in 1 .. Len(client) : /\ client'[i].useCount = client[i].useCount
                                    /\ client'[i].idleClosed => client[i].idleClosed \/ client[i].useCount = 0
    BY <1>5
  <2>. QED  BY <1>1, <1>5, <2>1, <2>2, ClientsChange
<1>. QED  BY <1>2, <1>3, <1>4, <1>5 DEF H3Pool!AddConn

LEMMA H3PoolStep == H3PoolConstants /\ H3PoolInv /\ [H3Pool!Next]_(H3Pool!h3poolVars) => H3PoolInv'
<1>. SUFFICES ASSUME H3PoolConstants, H3PoolInv, [H3Pool!Next]_(H3Pool!h3poolVars) PROVE H3PoolInv'
  OBVIOUS
<1>1. ASSUME UNCHANGED <<h3env, current, client, h3req, processed>> PROVE H3PoolInv'
  <2>1. \A i : Uses(i)' = Uses(i)
    BY <1>1 DEF Uses
  <2>. QED  BY <1>1, <2>1 DEF H3PoolInv, H3PoolTyped, HoldsKnown, Counted, CurrentOpen, NotYetProcessed,
               H3Pool!ProcessedOnce, H3Pool!RoundTripSpared
<1>2. CASE \E r \in h3env.reqs : H3Pool!cancel(r)
  BY <1>1, <1>2 DEF H3Pool!cancel
<1>3. CASE UNCHANGED H3Pool!h3poolVars
  BY <1>1, <1>3 DEF H3Pool!h3poolVars
<1>. QED  BY <1>2, <1>3, getClientKeeps, awaitKeeps, RoundTripKeeps, readBodyKeeps, dialKeeps, TransportCallsKeep
          DEF H3Pool!Next

LEMMA H3PoolSafe == H3PoolInv => H3Pool!ProcessedOnce /\ H3Pool!RoundTripSpared
BY DEF H3PoolInv

-----------------------------------------------------------------------------
(* Alt-Svc: who works on a pendingAltSvc, and what the jar remembers.      *)

\* The variables of AltSvc in the composition.
mode    == v1
pending == v2
pas     == v3
cooling == v4
jar     == v5
prober  == v6
areq    == v7
proven  == v8
USE DEF mode, pending, pas, cooling, jar, prober, areq, proven

PasType == [index : Nat \ {0}, transport : BOOLEAN, mu : BOOLEAN, failed : SUBSET Nat]
AltReqType == [at : {"start", "lookup", "lock", "jar", "h3", "fallback", "plain", "advertised", "pend",
                     "done", "failed"},
               pas : Nat, entry : Nat, sent : Nat]

AltTyped ==
    /\ mode \in AltSvc!AltModeType
    /\ pas \in Seq(PasType) /\ prober \in Seq(Nat) /\ Len(prober) = Len(pas)
    /\ pending \in 0 .. Len(pas) /\ proven \subseteq Nat
    /\ areq \in [AltReqs -> AltReqType]
    /\ \A r \in AltReqs : areq[r].pas \in 0 .. Len(pas)

\* r holds pas.Mu of pas i, for its round trip over HTTP/3 or the fallback.
Holds(r, i) == areq[r].at \in {"h3", "fallback"} /\ areq[r].pas = i /\ i # 0

\* pas.Mu has at most one holder, who uses the entry the pas names; and a
\* request has no pas before it has looked it up.
HoldersLock ==
    /\ \A r \in AltReqs : \A i \in 1 .. Len(pas) :
          Holds(r, i) => pas[i].mu /\ (areq[r].at = "h3" => areq[r].entry = pas[i].index)
    /\ \A r, q \in AltReqs : \A i \in 1 .. Len(pas) : Holds(r, i) /\ Holds(q, i) => r = q
    /\ \A r \in AltReqs : areq[r].at \in {"start", "lookup", "jar"} => areq[r].pas = 0
    /\ \A r \in AltReqs : areq[r].at = "lock" => areq[r].pas # 0

\* handlePendingAltSvc runs only where no request is at work and no connection
\* has been found.
ProbersAlone == \A i \in 1 .. Len(pas) : prober[i] # 0 => ~pas[i].mu /\ ~pas[i].transport

\* A request that fell back was allowed to, and with a cooldown it has unregistered
\* its pas.
FallbackGaveUp ==
    \A r \in AltReqs : areq[r].at = "fallback" =>
       mode.fallback /\ (mode.cooldown /\ areq[r].pas # 0 => pending # areq[r].pas)

\* Without fallback the entries fail in turn: all before the one that is tried or
\* in use have failed.
FailedUpTo(p, k) == k <= mode.entries /\ p.failed = 1 .. k - 1
FailedInTurn ==
    ~mode.fallback =>
       \A i \in 1 .. Len(pas) : /\ prober[i] # 0 => FailedUpTo(pas[i], prober[i])
                                /\ pas[i].transport \/ pas[i].mu => FailedUpTo(pas[i], pas[i].index)

LEMMA OneMore == ASSUME NEW k \in Nat \ {0} PROVE (1 .. k - 1) \cup {k} = 1 .. k /\ k + 1 - 1 = k
OBVIOUS

\* Nobody is at work on pas i, in one of the modes in which the code leaves it so.
GivenUp(i) == \/ ~mode.fallback /\ pas[i].failed = 1 .. mode.entries
              \/ mode.fallback /\ ~mode.cooldown

AltSvcInv == /\ AltTyped /\ HoldersLock /\ ProbersAlone /\ FallbackGaveUp /\ FailedInTurn
             /\ AltSvc!AltSvcSettles

JarProven == jar # 0 => jar \in proven
PendingWorked == pending # 0 => AltSvc!Busy(pending) \/ GivenUp(pending)

LEMMA SettlesOr == /\ AltSvc!AltSvcSettles <=> JarProven /\ PendingWorked
                   /\ AltSvc!AltSvcSettles' <=> JarProven' /\ PendingWorked'
BY DEF AltSvc!AltSvcSettles, JarProven, PendingWorked, GivenUp, AltSvc!None

LEMMA AltSvcInit == AltSvcConstants /\ AltSvc!Init => AltSvcInv
<1>. SUFFICES ASSUME AltSvcConstants, AltSvc!Init PROVE AltSvcInv
  OBVIOUS
<1>. USE DEF AltSvc!Init, AltSvc!None
<1>1. AltTyped
  BY DEF AltTyped, AltSvcConstants, AltReqType
<1>2. HoldersLock /\ ProbersAlone /\ FallbackGaveUp /\ FailedInTurn /\ AltSvc!AltSvcSettles
  BY DEF HoldersLock, Holds, ProbersAlone, FallbackGaveUp, FailedInTurn, AltSvc!AltSvcSettles
<1>. QED  BY <1>1, <1>2 DEF AltSvcInv

\* A request moves on, and neither takes nor holds a pas.
LEMMA RequestMoves ==
  ASSUME AltSvcInv, UNCHANGED <<mode, pending, pas, jar, prober, proven>>,
         NEW r \in AltReqs, NEW s \in AltReqType, areq' = [areq EXCEPT ![r] = s],
         s.pas \in 0 .. Len(pas),
         s.at \in {"start", "lookup", "jar", "h3"} => s.pas = 0, s.at # "fallback",
         s.at = "lock" => s.pas # 0
  PROVE  AltSvcInv'
<1>0. areq \in [AltReqs -> AltReqType]
  BY DEF AltSvcInv, AltTyped
<1>1. areq' \in [AltReqs -> AltReqType] /\ areq'[r] = s /\ \A q \in AltReqs : q # r => areq'[q] = areq[q]
  BY <1>0
<1>2. AltTyped' /\ ProbersAlone' /\ FailedInTurn' /\ AltSvc!AltSvcSettles'
  BY <1>1 DEF AltSvcInv, AltTyped, ProbersAlone, FailedInTurn, FailedUpTo, AltSvc!AltSvcSettles, AltSvc!Busy
<1>3. \A q \in AltReqs : \A i \in 1 .. Len(pas) : Holds(q, i)' => q # r /\ Holds(q, i)
  BY <1>1 DEF Holds
<1>4. HoldersLock'
  <2>1. \A q \in AltReqs : \A i \in 1 .. Len(pas) :
           Holds(q, i)' => pas'[i].mu /\ (areq'[q].at = "h3" => areq'[q].entry = pas'[i].index)
    BY <1>1, <1>3 DEF AltSvcInv, HoldersLock
  <2>2. \A p, q \in AltReqs : \A i \in 1 .. Len(pas) : Holds(p, i)' /\ Holds(q, i)' => p = q
    BY <1>3 DEF AltSvcInv, HoldersLock
  <2>3. \A q \in AltReqs : /\ areq'[q].at \in {"start", "lookup", "jar"} => areq'[q].pas = 0
                           /\ areq'[q].at = "lock" => areq'[q].pas # 0
    BY <1>1 DEF AltSvcInv, HoldersLock
  <2>. QED  BY <2>1, <2>2, <2>3 DEF HoldersLock
<1>5. FallbackGaveUp'
  BY <1>1 DEF AltSvcInv, FallbackGaveUp
<1>. QED  BY <1>2, <1>4, <1>5 DEF AltSvcInv

\* pas.Mu is taken.
LEMMA lockPasKeeps ==
  ASSUME AltSvcInv, NEW r \in AltReqs, AltSvc!lockPas(r)
  PROVE  AltSvcInv'
<1>. DEFINE i == areq[r].pas
<1>0. /\ areq \in [AltReqs -> AltReqType] /\ areq[r] \in AltReqType /\ pas \in Seq(PasType)
      /\ areq[r].at = "lock" /\ i # 0 /\ i \in 1 .. Len(pas) /\ Len(pas) \in Nat /\ pas[i] \in PasType
      /\ UNCHANGED <<mode, pending, jar, prober, proven>> /\ ~pas[i].mu
  BY DEF AltSvcInv, AltTyped, HoldersLock, AltSvc!lockPas
<1>1. CASE ~pas[i].transport
  <2>. DEFINE s == [areq[r] EXCEPT !.at = "plain"]
  <2>1. s \in AltReqType /\ s.at = "plain" /\ s.pas = i /\ s.pas \in 0 .. Len(pas)
    BY <1>0 DEF AltReqType
  <2>2. areq' = [areq EXCEPT ![r] = s] /\ UNCHANGED pas
    BY <1>1 DEF AltSvc!lockPas, AltSvc!Go
  <2>. HIDE DEF s
  <2>. QED  BY <1>0, <2>1, <2>2, RequestMoves
<1>2. CASE pas[i].transport
  <2>. DEFINE s == [areq[r] EXCEPT !.at = "h3", !.entry = pas[i].index]
              p == [pas[i] EXCEPT !.mu = TRUE]
  <2>1. s \in AltReqType /\ s.at = "h3" /\ s.pas = i /\ s.entry = pas[i].index
    BY <1>0 DEF AltReqType, PasType
  <2>2. p \in PasType /\ p.mu = TRUE /\ p.index = pas[i].index /\ p.transport = TRUE /\ p.failed = pas[i].failed
    BY <1>0, <1>2 DEF PasType
  <2>3. areq' = [areq EXCEPT ![r] = s] /\ pas' = [pas EXCEPT ![i] = p]
    BY <1>2 DEF AltSvc!lockPas
  <2>. HIDE DEF s, p
  <2>4. /\ pas' \in Seq(PasType) /\ Len(pas') = Len(pas)
        /\ \A j \in 1 .. Len(pas) : pas'[j] = IF j = i THEN p ELSE pas[j]
    BY <1>0, <2>2, <2>3, ExceptSeq
  <2>5. areq' \in [AltReqs -> AltReqType] /\ areq'[r] = s /\ \A q \in AltReqs : q # r => areq'[q] = areq[q]
    BY <1>0, <2>1, <2>3
  <2>. HIDE DEF i
  <2>6. AltTyped'
    <3>1. \A q \in AltReqs : areq'[q].pas \in 0 .. Len(pas)
      <4>1. s.pas \in 0 .. Len(pas)
        BY <1>0, <2>1
      <4>2. \A q \in AltReqs : q # r => areq'[q].pas \in 0 .. Len(pas)
        BY <2>5 DEF AltSvcInv, AltTyped
      <4>. QED  BY <2>5, <4>1, <4>2
    <3>. QED  BY <1>0, <2>4, <2>5, <3>1 DEF AltSvcInv, AltTyped
  <2>7. \A q \in AltReqs : ~Holds(q, i)
    BY <1>0 DEF AltSvcInv, HoldersLock
  <2>8. \A q \in AltReqs : \A j \in 1 .. Len(pas) : Holds(q, j)' <=> (Holds(q, j) /\ j # i) \/ (q = r /\ j = i)
    BY <1>0, <2>1, <2>5, <2>7 DEF Holds, i
  <2>9. HoldersLock'
    <3>1. \A q \in AltReqs : \A j \in 1 .. Len(pas) :
             Holds(q, j)' => pas'[j].mu /\ (areq'[q].at = "h3" => areq'[q].entry = pas'[j].index)
      <4>. SUFFICES ASSUME NEW q \in AltReqs, NEW j \in 1 .. Len(pas), Holds(q, j)'
                    PROVE  pas'[j].mu /\ (areq'[q].at = "h3" => areq'[q].entry = pas'[j].index)
        OBVIOUS
      <4>1. CASE q = r /\ j = i
        BY <2>1, <2>2, <2>4, <2>5, <4>1
      <4>2. CASE Holds(q, j) /\ j # i
        <5>1. q # r
          BY <1>0, <4>2 DEF Holds
        <5>. QED  BY <2>4, <2>5, <4>2, <5>1 DEF AltSvcInv, HoldersLock
      <4>. QED  BY <2>8, <4>1, <4>2
    <3>2. \A p1, q \in AltReqs : \A j \in 1 .. Len(pas) : Holds(p1, j)' /\ Holds(q, j)' => p1 = q
      BY <2>8 DEF AltSvcInv, HoldersLock
    <3>3. \A q \in AltReqs : /\ areq'[q].at \in {"start", "lookup", "jar"} => areq'[q].pas = 0
                             /\ areq'[q].at = "lock" => areq'[q].pas # 0
      BY <2>1, <2>5 DEF AltSvcInv, HoldersLock
    <3>. QED  BY <2>4, <3>1, <3>2, <3>3 DEF HoldersLock
  <2>10. ProbersAlone'
    <3>1. prober[i] = 0
      BY <1>0, <1>2 DEF AltSvcInv, ProbersAlone, i
    <3>. QED  BY <1>0, <2>4, <3>1 DEF AltSvcInv, ProbersAlone
  <2>11. FallbackGaveUp'
    BY <1>0, <2>1, <2>5 DEF AltSvcInv, FallbackGaveUp
  <2>12. AltSvc!AltSvcSettles'
    <3>1. \A j \in 1 .. Len(pas) : (AltSvc!Busy(j) => AltSvc!Busy(j)') /\ (GivenUp(j) => GivenUp(j)')
      BY <1>0, <2>2, <2>4 DEF AltSvc!Busy, AltSvc!None, GivenUp
    <3>2. pending \in 0 .. Len(pas)
      BY DEF AltSvcInv, AltTyped
    <3>. QED  BY <1>0, <3>1, <3>2, SettlesOr DEF AltSvcInv, JarProven, PendingWorked
  <2>13. FailedInTurn'
    BY <1>0, <1>2, <2>2, <2>4 DEF AltSvcInv, FailedInTurn, FailedUpTo
  <2>. QED  BY <2>6, <2>9, <2>10, <2>11, <2>12, <2>13 DEF AltSvcInv
<1>. QED  BY <1>1, <1>2

\* The round trip of a request that was over HTTP/3 or fell back is over.
LEMMA SettleKeeps ==
  ASSUME AltSvcInv, UNCHANGED mode, NEW r \in AltReqs, areq[r].at \in {"h3", "fallback"},
         NEW used \in BOOLEAN, NEW failed \in BOOLEAN, ~(used /\ failed), AltSvc!Settle(r, used, failed),
         NEW s \in AltReqType, areq' = [areq EXCEPT ![r] = s],
         s.at \in {"done", "failed"}, s.pas = areq[r].pas,
         pending' \in {0, pending},
         mode.fallback /\ mode.cooldown /\ areq[r].pas # 0 => pending' # areq[r].pas,
         proven \subseteq proven', proven' \subseteq Nat,
         used /\ areq[r].pas # 0 => pas[areq[r].pas].index \in proven',
         ~mode.fallback => (failed <=> ~used)
  PROVE  AltSvcInv'
<1>. USE DEF AltSvc!None
<1>. DEFINE i == areq[r].pas
<1>0. /\ areq \in [AltReqs -> AltReqType] /\ pas \in Seq(PasType) /\ Len(pas) \in Nat
      /\ prober \in Seq(Nat) /\ Len(prober) = Len(pas) /\ i \in 0 .. Len(pas)
      /\ mode \in AltSvc!AltModeType /\ pending \in 0 .. Len(pas) /\ pending' \in 0 .. Len(pas)
  BY DEF AltSvcInv, AltTyped
<1>1. areq' \in [AltReqs -> AltReqType] /\ areq'[r] = s /\ \A q \in AltReqs : q # r => areq'[q] = areq[q]
  BY <1>0
<1>2. \A q \in AltReqs : \A j \in 1 .. Len(pas) : Holds(q, j)' => q # r /\ Holds(q, j)
  BY <1>1 DEF Holds
<1>3. \A q \in AltReqs : /\ areq'[q].at \in {"start", "lookup", "jar"} => areq'[q].pas = 0
                         /\ areq'[q].at = "lock" => areq'[q].pas # 0
  BY <1>1 DEF AltSvcInv, HoldersLock
<1>4. FallbackGaveUp'
  <2>. SUFFICES ASSUME NEW q \in AltReqs, areq'[q].at = "fallback"
                PROVE  mode.fallback /\ (mode.cooldown /\ areq'[q].pas # 0 => pending' # areq'[q].pas)
    BY DEF FallbackGaveUp
  <2>1. q # r /\ areq'[q] = areq[q]
    BY <1>1
  <2>. QED  BY <2>1 DEF AltSvcInv, FallbackGaveUp
<1>5. CASE i = 0
  <2>1. UNCHANGED <<pas, prober, jar>>
    BY <1>5 DEF AltSvc!Settle
  <2>2. AltTyped' /\ ProbersAlone'
    BY <1>0, <1>1, <2>1 DEF AltSvcInv, AltTyped, ProbersAlone
  <2>3. HoldersLock'
    <3>1. \A q \in AltReqs : \A j \in 1 .. Len(pas) :
             Holds(q, j)' => pas'[j].mu /\ (areq'[q].at = "h3" => areq'[q].entry = pas'[j].index)
      BY <1>1, <1>2, <2>1 DEF AltSvcInv, HoldersLock
    <3>2. \A p1, q \in AltReqs : \A j \in 1 .. Len(pas) : Holds(p1, j)' /\ Holds(q, j)' => p1 = q
      BY <1>2 DEF AltSvcInv, HoldersLock
    <3>. QED  BY <1>3, <2>1, <3>1, <3>2 DEF HoldersLock
  <2>4. AltSvc!AltSvcSettles' /\ FailedInTurn'
    BY <2>1 DEF AltSvcInv, AltSvc!AltSvcSettles, AltSvc!Busy, FailedInTurn, FailedUpTo
  <2>. QED  BY <1>4, <2>2, <2>3, <2>4 DEF AltSvcInv
<1>6. CASE i # 0
  <2>. DEFINE more == failed /\ pas[i].index + 1 <= mode.entries
              n == IF more THEN pas[i].index + 1 ELSE pas[i].index
              f == IF used THEN pas[i].failed ELSE pas[i].failed \cup {pas[i].index}
              p == [pas[i] EXCEPT !.mu = FALSE, !.transport = used, !.index = n, !.failed = f]
  <2>0. i \in 1 .. Len(pas) /\ pas[i] \in PasType
    BY <1>0, <1>6
  <2>1. pas[i].index \in Nat \ {0} /\ n \in Nat \ {0} /\ mode.entries \in Nat
    <3>1. pas[i].index \in Nat \ {0}
      BY <2>0 DEF PasType
    <3>2. mode.entries \in Nat
      BY <1>0 DEF AltSvc!AltModeType
    <3>3. pas[i].index + 1 \in Nat \ {0}
      BY <3>1
    <3>. QED  BY <3>1, <3>2, <3>3
  <2>2. /\ pas' = [pas EXCEPT ![i] = p]
        /\ prober' = (IF more THEN [prober EXCEPT ![i] = pas[i].index + 1] ELSE prober)
        /\ jar' = (IF used THEN pas[i].index ELSE jar)
    BY <1>6, <2>0 DEF AltSvc!Settle
  <2>3. p \in PasType /\ p.mu = FALSE /\ p.transport = used /\ p.index = n /\ p.failed = f
    <3>1. f \in SUBSET Nat
      BY <2>0 DEF PasType
    <3>. HIDE DEF n, f
    <3>. QED  BY <2>0, <2>1, <3>1 DEF PasType
  <2>4. Holds(r, i) /\ pas[i].mu /\ prober[i] = 0
    <3>1. Holds(r, i)
      BY <1>6 DEF Holds
    <3>2. pas[i].mu
      BY <2>0, <3>1 DEF AltSvcInv, HoldersLock
    <3>. QED  BY <2>0, <3>1, <3>2 DEF AltSvcInv, ProbersAlone
  <2>5. /\ prober' \in Seq(Nat) /\ Len(prober') = Len(pas)
        /\ \A j \in 1 .. Len(pas) : j # i => prober'[j] = prober[j]
        /\ prober'[i] # 0 => more
        /\ more => prober'[i] = pas[i].index + 1
    <3>1. CASE more
      <4>1. pas[i].index + 1 \in Nat /\ i \in 1 .. Len(prober)
        BY <1>0, <2>0, <2>1, SMTT(30)
      <4>2. prober' = [prober EXCEPT ![i] = pas[i].index + 1]
        BY <2>2, <3>1
      <4>3. /\ prober' \in Seq(Nat) /\ Len(prober') = Len(prober)
            /\ \A j \in 1 .. Len(prober) : prober'[j] = IF j = i THEN pas[i].index + 1 ELSE prober[j]
        BY <1>0, <4>1, <4>2, ExceptSeq
      <4>. QED  BY <1>0, <2>0, <3>1, <4>3
    <3>2. CASE ~more
      <4>1. prober' = prober
        BY <2>2, <3>2
      <4>. QED  BY <1>0, <2>4, <3>2, <4>1
    <3>. QED  BY <3>1, <3>2
  <2>12. /\ used => f = pas[i].failed /\ n = pas[i].index
         /\ ~used => f = pas[i].failed \cup {pas[i].index}
    OBVIOUS
  <2>. HIDE DEF n, p, f
  <2>6. /\ pas' \in Seq(PasType) /\ Len(pas') = Len(pas)
        /\ \A j \in 1 .. Len(pas) : pas'[j] = IF j = i THEN p ELSE pas[j]
    BY <1>0, <2>0, <2>2, <2>3, ExceptSeq
  <2>7. AltTyped'
    BY <1>0, <1>1, <2>5, <2>6, SMTT(30) DEF AltSvcInv, AltTyped
  <2>8. \A q \in AltReqs : \A j \in 1 .. Len(pas) : Holds(q, j)' => q # r /\ j # i /\ Holds(q, j)
    BY <1>2, <2>0, <2>4 DEF AltSvcInv, HoldersLock
  <2>9. HoldersLock'
    <3>1. \A q \in AltReqs : \A j \in 1 .. Len(pas) :
             Holds(q, j)' => pas'[j].mu /\ (areq'[q].at = "h3" => areq'[q].entry = pas'[j].index)
      BY <1>1, <2>6, <2>8 DEF AltSvcInv, HoldersLock
    <3>2. \A p1, q \in AltReqs : \A j \in 1 .. Len(pas) : Holds(p1, j)' /\ Holds(q, j)' => p1 = q
      BY <1>2 DEF AltSvcInv, HoldersLock
    <3>. QED  BY <1>3, <2>6, <3>1, <3>2 DEF HoldersLock
  <2>10. ProbersAlone'
    <3>. SUFFICES ASSUME NEW j \in 1 .. Len(pas), prober'[j] # 0 PROVE ~pas'[j].mu /\ ~pas'[j].transport
      BY <2>6 DEF ProbersAlone
    <3>1. CASE j = i
      BY <2>3, <2>5, <2>6, <3>1
    <3>2. CASE j # i
      BY <2>5, <2>6, <3>2 DEF AltSvcInv, ProbersAlone
    <3>. QED  BY <3>1, <3>2
  <2>11. AltSvc!AltSvcSettles'
    <3>1. jar' # 0 => jar' \in proven'
      BY <1>6, <2>2 DEF AltSvcInv, AltSvc!AltSvcSettles
    <3>2. ASSUME pending' # 0 PROVE AltSvc!Busy(pending)' \/ GivenUp(pending)'
      <4>1. pending' = pending /\ pending \in 1 .. Len(pas) /\ (AltSvc!Busy(pending) \/ GivenUp(pending))
        BY <1>0, <3>2, SettlesOr DEF AltSvcInv, PendingWorked
      <4>2. CASE pending # i
        <5>1. pas'[pending] = pas[pending] /\ prober'[pending] = prober[pending]
          BY <2>5, <2>6, <4>1, <4>2
        <5>. QED  BY <4>1, <5>1 DEF AltSvc!Busy, GivenUp
      <4>3. CASE pending = i /\ mode.fallback
        BY <1>6, <4>1, <4>3 DEF GivenUp
      <4>4. CASE pending = i /\ ~mode.fallback
        <5>1. CASE used
          BY <2>0, <2>3, <2>6, <4>1, <4>4, <5>1 DEF AltSvc!Busy
        <5>2. CASE more
          <6>1. prober'[i] # 0
            BY <2>1, <2>5, <5>2
          <6>. QED  BY <4>1, <4>4, <6>1 DEF AltSvc!Busy
        <5>3. CASE ~used /\ failed /\ ~more
          <6>1. FailedUpTo(pas[i], pas[i].index)
            BY <2>0, <2>4, <4>4 DEF AltSvcInv, FailedInTurn
          <6>2. pas[i].index = mode.entries
            BY <2>1, <5>3, <6>1 DEF FailedUpTo
          <6>3. pas'[i].failed = 1 .. mode.entries
            <7>1. pas'[i].failed = (1 .. pas[i].index - 1) \cup {pas[i].index}
              BY <2>0, <2>3, <2>6, <2>12, <5>3, <6>1 DEF FailedUpTo
            <7>. QED  BY <2>1, <6>2, <7>1, OneMore
          <6>. QED  BY <4>1, <4>4, <6>3 DEF GivenUp
        <5>. QED  BY <4>4, <5>1, <5>2, <5>3
      <4>. QED  BY <4>2, <4>3, <4>4
    <3>. QED  BY <3>1, <3>2, SettlesOr DEF JarProven, PendingWorked
  <2>13. FailedInTurn'
    <3>. SUFFICES ASSUME ~mode.fallback, NEW j \in 1 .. Len(pas)
                  PROVE  /\ prober'[j] # 0 => FailedUpTo(pas'[j], prober'[j])
                         /\ pas'[j].transport \/ pas'[j].mu => FailedUpTo(pas'[j], pas'[j].index)
      BY <2>6 DEF FailedInTurn, FailedUpTo
    <3>1. CASE j # i
      BY <2>5, <2>6, <3>1 DEF AltSvcInv, FailedInTurn, FailedUpTo
    <3>2. CASE j = i
      <4>1. FailedUpTo(pas[i], pas[i].index)
        BY <2>0, <2>4 DEF AltSvcInv, FailedInTurn
      <4>2. CASE used
        BY <2>0, <2>3, <2>5, <2>6, <2>12, <3>2, <4>1, <4>2 DEF FailedUpTo
      <4>3. CASE ~used
        <5>1. prober'[i] # 0 => FailedUpTo(pas'[i], prober'[i])
          <6>. SUFFICES ASSUME prober'[i] # 0 PROVE FailedUpTo(pas'[i], prober'[i])
            OBVIOUS
          <6>1. prober'[i] = pas[i].index + 1 /\ pas[i].index + 1 <= mode.entries
            BY <2>5
          <6>2. pas'[i].failed = (1 .. pas[i].index - 1) \cup {pas[i].index}
            BY <2>0, <2>3, <2>6, <2>12, <4>1, <4>3 DEF FailedUpTo
          <6>. QED  BY <2>1, <6>1, <6>2, OneMore DEF FailedUpTo
        <5>. QED  BY <2>0, <2>3, <2>6, <3>2, <4>3, <5>1
      <4>. QED  BY <4>2, <4>3
    <3>. QED  BY <3>1, <3>2
  <2>. QED  BY <1>4, <2>7, <2>9, <2>10, <2>11, <2>13 DEF AltSvcInv
<1>. QED  BY <1>5, <1>6

LEMMA MarkedClears ==
  ASSUME AltSvc!Marked PROVE pending' \in {0, pending} /\ (mode.cooldown => pending' = 0)
  BY DEF AltSvc!Marked, AltSvc!None

LEMMA h3EndsKeep ==
  ASSUME AltSvcInv, NEW r \in AltReqs,
         AltSvc!h3OK(r) \/ AltSvc!h3Err(r) \/ \E ok \in BOOLEAN : AltSvc!fallbackDone(r, ok)
  PROVE  AltSvcInv'
<1>. USE DEF AltSvc!None
<1>0. areq \in [AltReqs -> AltReqType] /\ areq[r] \in AltReqType /\ areq[r].pas \in 0 .. Len(pas)
  BY DEF AltSvcInv, AltTyped
<1>1. CASE AltSvc!h3OK(r)
  <2>. DEFINE s == [areq[r] EXCEPT !.at = "done", !.sent = areq[r].sent + 1]
  <2>1. s \in AltReqType /\ s.at = "done" /\ s.pas = areq[r].pas
    <3>1. areq[r].sent + 1 \in Nat
      BY <1>0 DEF AltReqType
    <3>. QED  BY <1>0, <3>1 DEF AltReqType
  <2>2. /\ areq' = [areq EXCEPT ![r] = s] /\ UNCHANGED mode /\ areq[r].at = "h3"
        /\ proven' = proven \cup {areq[r].entry} /\ AltSvc!Settle(r, TRUE, FALSE)
        /\ pending' \in {0, pending} /\ (areq[r].pas # 0 => pending' = 0)
    BY <1>1 DEF AltSvc!h3OK
  <2>3. (areq[r].pas # 0 => pas[areq[r].pas].index \in proven') /\ proven \subseteq proven' /\ proven' \subseteq Nat
    <3>0. areq[r].entry \in Nat /\ proven \subseteq Nat
      BY <1>0 DEF AltReqType, AltSvcInv, AltTyped
    <3>1. areq[r].pas # 0 => Holds(r, areq[r].pas) /\ areq[r].pas \in 1 .. Len(pas)
      BY <1>0, <2>2 DEF Holds
    <3>. QED  BY <2>2, <3>0, <3>1 DEF AltSvcInv, HoldersLock
  <2>. HIDE DEF s
  <2>. QED  BY <2>1, <2>2, <2>3, SettleKeeps
<1>2. CASE AltSvc!h3Err(r)
  <2>. DEFINE s == [areq[r] EXCEPT !.at = "failed", !.sent = areq[r].sent + 1]
  <2>1. s \in AltReqType /\ s.at = "failed" /\ s.pas = areq[r].pas
    <3>1. areq[r].sent + 1 \in Nat
      BY <1>0 DEF AltReqType
    <3>. QED  BY <1>0, <3>1 DEF AltReqType
  <2>2. /\ areq' = [areq EXCEPT ![r] = s] /\ UNCHANGED <<mode, proven>> /\ areq[r].at = "h3" /\ proven \subseteq Nat
        /\ AltSvc!Settle(r, FALSE, TRUE)
        /\ pending' \in {0, pending} /\ (mode.fallback /\ mode.cooldown => pending' = 0)
    BY <1>2, MarkedClears DEF AltSvc!h3Err, AltSvcInv, AltTyped
  <2>. HIDE DEF s
  <2>. QED  BY <2>1, <2>2, SettleKeeps
<1>3. ASSUME NEW ok \in BOOLEAN, AltSvc!fallbackDone(r, ok) PROVE AltSvcInv'
  <2>. DEFINE s == [areq[r] EXCEPT !.at = IF ok THEN "done" ELSE "failed"]
  <2>1. s \in AltReqType /\ s.at \in {"done", "failed"} /\ s.pas = areq[r].pas
    BY <1>0 DEF AltReqType
  <2>2. /\ areq' = [areq EXCEPT ![r] = s] /\ UNCHANGED <<mode, proven, pending>> /\ areq[r].at = "fallback"
        /\ proven \subseteq Nat
        /\ AltSvc!Settle(r, FALSE, ~ok)
    BY <1>3 DEF AltSvc!fallbackDone, AltSvc!Go, AltSvcInv, AltTyped
  <2>3. mode.fallback /\ (mode.cooldown /\ areq[r].pas # 0 => pending' # areq[r].pas)
    BY <2>2 DEF AltSvcInv, FallbackGaveUp
  <2>. HIDE DEF s
  <2>. QED  BY <2>1, <2>2, <2>3, SettleKeeps
<1>. QED  BY <1>1, <1>2, <1>3

\* HTTP/3 fails and the request goes to another protocol.
LEMMA h3FallbackKeeps ==
  ASSUME AltSvcInv, NEW r \in AltReqs, AltSvc!h3Fallback(r)
  PROVE  AltSvcInv'
<1>. USE DEF AltSvc!None
<1>. DEFINE s == [areq[r] EXCEPT !.at = "fallback", !.sent = areq[r].sent + 1]
<1>0. /\ areq \in [AltReqs -> AltReqType] /\ areq[r] \in AltReqType /\ areq[r].at = "h3"
      /\ pending \in 0 .. Len(pas) /\ Len(pas) \in Nat
      /\ UNCHANGED <<mode, pas, jar, prober, proven>>
  BY DEF AltSvcInv, AltTyped, AltSvc!h3Fallback
<1>10. areq' = [areq EXCEPT ![r] = s]
  BY DEF AltSvc!h3Fallback
<1>1. s \in AltReqType /\ s.at = "fallback" /\ s.pas = areq[r].pas /\ s.entry = areq[r].entry
  <2>1. areq[r].sent + 1 \in Nat
    BY <1>0 DEF AltReqType
  <2>. QED  BY <1>0, <2>1 DEF AltReqType
<1>2. pending' \in {0, pending} /\ (mode.cooldown => pending' = 0)
  BY MarkedClears DEF AltSvc!h3Fallback
<1>. HIDE DEF s
<1>3. areq' \in [AltReqs -> AltReqType] /\ areq'[r] = s /\ \A q \in AltReqs : q # r => areq'[q] = areq[q]
  BY <1>0, <1>1, <1>10
<1>4. AltTyped' /\ ProbersAlone'
  <2>1. \A q \in AltReqs : areq'[q].pas \in 0 .. Len(pas)
    BY <1>1, <1>3 DEF AltSvcInv, AltTyped
  <2>2. pending' \in 0 .. Len(pas)
    BY <1>0, <1>2
  <2>. QED  BY <1>0, <1>3, <2>1, <2>2 DEF AltSvcInv, AltTyped, ProbersAlone
<1>5. \A q \in AltReqs : \A i \in 1 .. Len(pas) : Holds(q, i)' <=> Holds(q, i)
  BY <1>0, <1>1, <1>3 DEF Holds
<1>6. HoldersLock'
  <2>1. \A q \in AltReqs : \A j \in 1 .. Len(pas) :
           Holds(q, j)' => pas'[j].mu /\ (areq'[q].at = "h3" => areq'[q].entry = pas'[j].index)
    BY <1>0, <1>1, <1>3, <1>5 DEF AltSvcInv, HoldersLock
  <2>2. \A p1, q \in AltReqs : \A j \in 1 .. Len(pas) : Holds(p1, j)' /\ Holds(q, j)' => p1 = q
    BY <1>5 DEF AltSvcInv, HoldersLock
  <2>3. \A q \in AltReqs : /\ areq'[q].at \in {"start", "lookup", "jar"} => areq'[q].pas = 0
                           /\ areq'[q].at = "lock" => areq'[q].pas # 0
    BY <1>1, <1>3 DEF AltSvcInv, HoldersLock
  <2>. QED  BY <1>0, <2>1, <2>2, <2>3 DEF HoldersLock
<1>7. FallbackGaveUp'
  <2>1. mode.fallback
    BY DEF AltSvc!h3Fallback
  <2>. QED  BY <1>0, <1>2, <1>3, <2>1 DEF AltSvcInv, FallbackGaveUp
<1>8. AltSvc!AltSvcSettles' /\ FailedInTurn'
  BY <1>0, <1>2 DEF AltSvcInv, AltSvc!AltSvcSettles, AltSvc!Busy, FailedInTurn, FailedUpTo
<1>. QED  BY <1>4, <1>6, <1>7, <1>8 DEF AltSvcInv

\* handleAltSvc registers a new pas and starts its goroutine.
LEMMA startPendingKeeps ==
  ASSUME AltSvcInv, NEW r \in AltReqs, AltSvc!startPending(r)
  PROVE  AltSvcInv'
<1>. USE DEF AltSvc!None
<1>. DEFINE s == [areq[r] EXCEPT !.at = "done"]
            p == [index |-> 1, transport |-> FALSE, mu |-> FALSE, failed |-> {}]
<1>0. /\ areq \in [AltReqs -> AltReqType] /\ areq[r] \in AltReqType /\ areq[r].pas \in 0 .. Len(pas)
      /\ pas \in Seq(PasType) /\ Len(pas) \in Nat /\ prober \in Seq(Nat) /\ Len(prober) = Len(pas)
      /\ areq' = [areq EXCEPT ![r] = s] /\ UNCHANGED <<mode, jar, proven>>
  BY DEF AltSvcInv, AltTyped, AltSvc!startPending, AltSvc!Go
<1>1. s \in AltReqType /\ s.at = "done" /\ s.pas = areq[r].pas
  BY <1>0 DEF AltReqType
<1>. HIDE DEF s
<1>2. CASE UNCHANGED <<pending, pas, prober>>
  BY <1>0, <1>1, <1>2, RequestMoves
<1>3. CASE pas' = Append(pas, p) /\ prober' = Append(prober, 1) /\ pending' = Len(pas') /\ mode.entries # 0
  <2>. DEFINE n == Len(pas) + 1
  <2>1. p \in PasType /\ p.mu = FALSE /\ p.transport = FALSE /\ p.failed = 1 .. 0
    BY DEF PasType
  <2>. HIDE DEF p
  <2>2. /\ pas' \in Seq(PasType) /\ Len(pas') = n /\ pas'[n] = p
        /\ \A j \in 1 .. Len(pas) : pas'[j] = pas[j]
    BY <1>0, <1>3, <2>1
  <2>3. /\ prober' \in Seq(Nat) /\ Len(prober') = n /\ prober'[n] = 1
        /\ \A j \in 1 .. Len(pas) : prober'[j] = prober[j]
    BY <1>0, <1>3
  <2>4. areq' \in [AltReqs -> AltReqType] /\ areq'[r] = s /\ \A q \in AltReqs : q # r => areq'[q] = areq[q]
    BY <1>0, <1>1
  <2>5. \A q \in AltReqs : areq'[q].pas \in 0 .. Len(pas)
    BY <1>0, <1>1, <2>4 DEF AltSvcInv, AltTyped
  <2>6. \A q \in AltReqs : \A j \in 1 .. n : Holds(q, j)' => q # r /\ j \in 1 .. Len(pas) /\ Holds(q, j)
    BY <1>0, <1>1, <2>4, <2>5 DEF Holds
  <2>7. AltTyped'
    BY <1>0, <1>3, <2>2, <2>3, <2>4, <2>5 DEF AltSvcInv, AltTyped
  <2>8. HoldersLock'
    <3>1. \A q \in AltReqs : \A j \in 1 .. n :
             Holds(q, j)' => pas'[j].mu /\ (areq'[q].at = "h3" => areq'[q].entry = pas'[j].index)
      BY <2>2, <2>4, <2>6 DEF AltSvcInv, HoldersLock
    <3>2. \A p1, q \in AltReqs : \A j \in 1 .. n : Holds(p1, j)' /\ Holds(q, j)' => p1 = q
      BY <2>6 DEF AltSvcInv, HoldersLock
    <3>3. \A q \in AltReqs : /\ areq'[q].at \in {"start", "lookup", "jar"} => areq'[q].pas = 0
                             /\ areq'[q].at = "lock" => areq'[q].pas # 0
      BY <1>1, <2>4 DEF AltSvcInv, HoldersLock
    <3>. QED  BY <2>2, <3>1, <3>2, <3>3 DEF HoldersLock
  <2>9. ProbersAlone'
    <3>. SUFFICES ASSUME NEW j \in 1 .. n, prober'[j] # 0 PROVE ~pas'[j].mu /\ ~pas'[j].transport
      BY <2>2 DEF ProbersAlone
    <3>1. CASE j = n
      BY <2>1, <2>2, <3>1
    <3>2. CASE j \in 1 .. Len(pas)
      BY <2>2, <2>3, <3>2 DEF AltSvcInv, ProbersAlone
    <3>. QED  BY <1>0, <3>1, <3>2
  <2>10. FallbackGaveUp'
    <3>1. \A q \in AltReqs : areq'[q].at = "fallback" => areq'[q] = areq[q]
      BY <1>1, <2>4
    <3>2. pending' = n /\ \A q \in AltReqs : areq'[q].pas # n
      BY <1>0, <1>3, <2>2, <2>5
    <3>. QED  BY <1>0, <3>1, <3>2 DEF AltSvcInv, FallbackGaveUp
  <2>11. AltSvc!AltSvcSettles'
    <3>1. pending' = n /\ prober'[pending'] # 0
      BY <1>3, <2>2, <2>3
    <3>. QED  BY <1>0, <3>1 DEF AltSvcInv, AltSvc!AltSvcSettles, AltSvc!Busy
  <2>12. FailedInTurn'
    <3>. SUFFICES ASSUME ~mode.fallback, NEW j \in 1 .. n
                  PROVE  /\ prober'[j] # 0 => FailedUpTo(pas'[j], prober'[j])
                         /\ pas'[j].transport \/ pas'[j].mu => FailedUpTo(pas'[j], pas'[j].index)
      BY <1>0, <2>2 DEF FailedInTurn, FailedUpTo
    <3>1. CASE j = n
      <4>1. mode.entries \in Nat
        BY DEF AltSvcInv, AltTyped, AltSvc!AltModeType
      <4>2. 1 <= mode.entries /\ 1 - 1 = 0
        BY <1>3, <4>1
      <4>. QED  BY <2>1, <2>2, <2>3, <3>1, <4>2 DEF FailedUpTo
    <3>2. CASE j \in 1 .. Len(pas)
      BY <2>2, <2>3, <3>2 DEF AltSvcInv, FailedInTurn, FailedUpTo
    <3>. QED  BY <1>0, <3>1, <3>2
  <2>. QED  BY <2>7, <2>8, <2>9, <2>10, <2>11, <2>12 DEF AltSvcInv
<1>. QED  BY <1>2, <1>3 DEF AltSvc!startPending

\* The goroutine of a pas tries one entry.
LEMMA addConnKeeps ==
  ASSUME AltSvcInv, NEW i \in DOMAIN pas, AltSvc!addConnOK(i) \/ AltSvc!addConnErr(i)
  PROVE  AltSvcInv'
<1>. USE DEF AltSvc!None
<1>0. /\ pas \in Seq(PasType) /\ Len(pas) \in Nat /\ prober \in Seq(Nat) /\ Len(prober) = Len(pas)
      /\ i \in 1 .. Len(pas) /\ i \in 1 .. Len(prober) /\ pas[i] \in PasType /\ prober[i] \in Nat
      /\ UNCHANGED <<mode, jar, areq, proven>> /\ pending \in 0 .. Len(pas)
      /\ prober[i] # 0 /\ ~pas[i].mu /\ ~pas[i].transport
  BY DEF AltSvcInv, AltTyped, ProbersAlone, AltSvc!addConnOK, AltSvc!addConnErr
<1>1. \A q \in AltReqs : ~Holds(q, i)
  BY <1>0 DEF AltSvcInv, HoldersLock
<1>2. \A q \in AltReqs : \A j \in 1 .. Len(pas) : Holds(q, j)' <=> Holds(q, j)
  BY <1>0 DEF Holds
<1>3. CASE AltSvc!addConnOK(i)
  <2>. DEFINE p == [pas[i] EXCEPT !.index = prober[i], !.transport = TRUE]
  <2>1. p \in PasType /\ p.mu = FALSE /\ p.transport = TRUE /\ p.index = prober[i] /\ p.failed = pas[i].failed
    BY <1>0 DEF PasType
  <2>2. pas' = [pas EXCEPT ![i] = p] /\ prober' = [prober EXCEPT ![i] = 0] /\ UNCHANGED pending
    BY <1>3 DEF AltSvc!addConnOK
  <2>. HIDE DEF p
  <2>3. /\ pas' \in Seq(PasType) /\ Len(pas') = Len(pas)
        /\ \A j \in 1 .. Len(pas) : pas'[j] = IF j = i THEN p ELSE pas[j]
    BY <1>0, <2>1, <2>2, ExceptSeq
  <2>4. /\ prober' \in Seq(Nat) /\ Len(prober') = Len(pas)
        /\ \A j \in 1 .. Len(pas) : prober'[j] = IF j = i THEN 0 ELSE prober[j]
    <3>1. 0 \in Nat
      OBVIOUS
    <3>. QED  BY <1>0, <2>2, <3>1, ExceptSeq
  <2>5. AltTyped'
    BY <1>0, <2>2, <2>3, <2>4 DEF AltSvcInv, AltTyped
  <2>6. HoldersLock'
    <3>1. \A q \in AltReqs : \A j \in 1 .. Len(pas) :
             Holds(q, j)' => pas'[j].mu /\ (areq'[q].at = "h3" => areq'[q].entry = pas'[j].index)
      <4>. SUFFICES ASSUME NEW q \in AltReqs, NEW j \in 1 .. Len(pas), Holds(q, j)'
                    PROVE  pas'[j].mu /\ (areq'[q].at = "h3" => areq'[q].entry = pas'[j].index)
        OBVIOUS
      <4>1. Holds(q, j) /\ j # i /\ pas'[j] = pas[j] /\ areq'[q] = areq[q]
        BY <1>0, <1>1, <1>2, <2>3
      <4>. QED  BY <4>1 DEF AltSvcInv, HoldersLock
    <3>. QED  BY <1>0, <1>2, <2>3, <3>1 DEF AltSvcInv, HoldersLock
  <2>7. ProbersAlone'
    BY <2>3, <2>4 DEF AltSvcInv, ProbersAlone
  <2>8. FallbackGaveUp'
    BY <1>0, <2>2 DEF AltSvcInv, FallbackGaveUp
  <2>9. AltSvc!AltSvcSettles'
    <3>1. \A j \in 1 .. Len(pas) : (AltSvc!Busy(j) => AltSvc!Busy(j)') /\ (GivenUp(j) => GivenUp(j)')
      BY <1>0, <2>1, <2>3, <2>4 DEF AltSvc!Busy, GivenUp
    <3>. QED  BY <1>0, <2>2, <3>1, SettlesOr DEF AltSvcInv, JarProven, PendingWorked
  <2>10. FailedInTurn'
    BY <1>0, <2>1, <2>3, <2>4 DEF AltSvcInv, FailedInTurn, FailedUpTo
  <2>. QED  BY <2>5, <2>6, <2>7, <2>8, <2>9, <2>10 DEF AltSvcInv
<1>4. CASE AltSvc!addConnErr(i)
  <2>. DEFINE p == [pas[i] EXCEPT !.failed = pas[i].failed \cup {prober[i]}]
  <2>9. p \in PasType /\ p.mu = FALSE /\ p.transport = FALSE /\ p.index = pas[i].index /\ p.failed = pas[i].failed \cup {prober[i]}
    BY <1>0 DEF PasType
  <2>1. PICK n \in Nat : /\ prober' = [prober EXCEPT ![i] = n]
                         /\ \/ n = prober[i] + 1 /\ n <= mode.entries /\ UNCHANGED pending
                            \/ n = 0 /\ ~(prober[i] + 1 <= mode.entries) /\ AltSvc!Marked
    <3>1. prober[i] + 1 \in Nat /\ prober[i] + 1 # 0 /\ 0 \in Nat
      BY <1>0
    <3>. QED  BY <1>4, <3>1 DEF AltSvc!addConnErr
  <2>2. /\ prober' \in Seq(Nat) /\ Len(prober') = Len(pas)
        /\ \A j \in 1 .. Len(pas) : prober'[j] = IF j = i THEN n ELSE prober[j]
    BY <1>0, <2>1, ExceptSeq
  <2>10. pas' = [pas EXCEPT ![i] = p]
    BY <1>4 DEF AltSvc!addConnErr
  <2>. HIDE DEF p
  <2>11. /\ pas' \in Seq(PasType) /\ Len(pas') = Len(pas)
         /\ \A j \in 1 .. Len(pas) : pas'[j] = IF j = i THEN p ELSE pas[j]
    BY <1>0, <2>9, <2>10, ExceptSeq
  <2>3. pending' \in {0, pending}
    BY <2>1, MarkedClears
  <2>4. AltTyped'
    BY <1>0, <2>2, <2>3, <2>11, SMTT(30) DEF AltSvcInv, AltTyped
  <2>5. HoldersLock' /\ FallbackGaveUp'
    <3>1. \A j \in 1 .. Len(pas) : pas'[j].mu = pas[j].mu /\ pas'[j].index = pas[j].index
      BY <1>0, <2>9, <2>11 DEF PasType
    <3>. QED  BY <1>0, <1>2, <2>3, <2>11, <3>1 DEF AltSvcInv, HoldersLock, FallbackGaveUp
  <2>6. ProbersAlone'
    BY <1>0, <2>2, <2>9, <2>11 DEF AltSvcInv, ProbersAlone
  <2>12. mode.entries \in Nat
    BY DEF AltSvcInv, AltTyped, AltSvc!AltModeType
  <2>7. AltSvc!AltSvcSettles'
    <3>1. ASSUME pending' # 0 PROVE AltSvc!Busy(pending)' \/ GivenUp(pending)'
      <4>1. pending' = pending /\ pending \in 1 .. Len(pas) /\ (AltSvc!Busy(pending) \/ GivenUp(pending))
        BY <1>0, <2>3, <3>1, SettlesOr DEF AltSvcInv, PendingWorked
      <4>2. CASE pending # i
        <5>1. pas'[pending] = pas[pending] /\ prober'[pending] = prober[pending]
          BY <2>2, <2>11, <4>1, <4>2
        <5>. QED  BY <1>0, <4>1, <5>1 DEF AltSvc!Busy, GivenUp
      <4>3. CASE pending = i /\ n # 0
        BY <2>2, <4>1, <4>3 DEF AltSvc!Busy
      <4>4. CASE pending = i /\ n = 0 /\ mode.fallback
        <5>1. ~mode.cooldown
          BY <2>1, <3>1, <4>4, MarkedClears, <1>0
        <5>. QED  BY <4>4, <5>1, <1>0 DEF GivenUp
      <4>5. CASE pending = i /\ n = 0 /\ ~mode.fallback
        <5>1. FailedUpTo(pas[i], prober[i])
          BY <1>0, <4>5 DEF AltSvcInv, FailedInTurn
        <5>2. p.failed = 1 .. mode.entries
          BY <1>0, <2>1, <2>9, <2>12, <4>5, <5>1 DEF FailedUpTo
        <5>. QED  BY <1>0, <2>11, <4>1, <4>5, <5>2 DEF GivenUp
      <4>. QED  BY <4>2, <4>3, <4>4, <4>5
    <3>. QED  BY <1>0, <3>1, SettlesOr DEF AltSvcInv, JarProven, PendingWorked
  <2>8. FailedInTurn'
    <3>. SUFFICES ASSUME ~mode.fallback, NEW j \in 1 .. Len(pas)
                  PROVE  /\ prober'[j] # 0 => FailedUpTo(pas'[j], prober'[j])
                         /\ pas'[j].transport \/ pas'[j].mu => FailedUpTo(pas'[j], pas'[j].index)
      BY <1>0, <2>11 DEF FailedInTurn, FailedUpTo
    <3>1. CASE j # i
      BY <2>2, <2>11, <3>1 DEF AltSvcInv, FailedInTurn, FailedUpTo
    <3>2. CASE j = i
      <4>1. FailedUpTo(pas[i], prober[i])
        BY <1>0 DEF AltSvcInv, FailedInTurn
      <4>2. ASSUME n # 0 PROVE FailedUpTo(p, n)
        <5>1. n = prober[i] + 1 /\ n <= mode.entries /\ prober[i] \in Nat \ {0}
          BY <1>0, <2>1, <4>2
        <5>2. p.failed = (1 .. prober[i] - 1) \cup {prober[i]}
          BY <2>9, <4>1 DEF FailedUpTo
        <5>. QED  BY <5>1, <5>2, OneMore DEF FailedUpTo
      <4>3. prober'[i] = n /\ pas'[i] = p /\ mode' = mode
        BY <1>0, <2>2, <2>11
      <4>. QED  BY <2>9, <3>2, <4>2, <4>3 DEF FailedUpTo
    <3>. QED  BY <3>1, <3>2
  <2>. QED  BY <2>4, <2>5, <2>6, <2>7, <2>8 DEF AltSvcInv
<1>. QED  BY <1>3, <1>4

\* The steps of a request that only move it.
LEMMA PlainStepsKeep ==
  ASSUME AltSvcInv, NEW r \in AltReqs,
         \/ AltSvc!checkAltSvc(r) \/ AltSvc!lookup(r) \/ AltSvc!getAltSvc(r)
         \/ AltSvc!plainRoundTrip(r) \/ AltSvc!handleAltSvc(r)
  PROVE  AltSvcInv'
<1>. USE DEF AltSvc!None
<1>0. /\ areq \in [AltReqs -> AltReqType] /\ areq[r] \in AltReqType /\ areq[r].pas \in 0 .. Len(pas)
      /\ pending \in 0 .. Len(pas) /\ Len(pas) \in Nat
      /\ UNCHANGED <<mode, pending, pas, jar, prober, proven>>
  BY DEF AltSvcInv, AltTyped, AltSvc!checkAltSvc, AltSvc!lookup, AltSvc!getAltSvc, AltSvc!plainRoundTrip, AltSvc!handleAltSvc
<1>1. ASSUME NEW a \in {"lookup", "jar", "plain", "advertised", "pend", "done", "failed"}, AltSvc!Go(r, a),
             a \in {"lookup", "jar"} => areq[r].pas = 0
      PROVE  AltSvcInv'
  <2>. DEFINE s == [areq[r] EXCEPT !.at = a]
  <2>1. s \in AltReqType /\ s.at = a /\ s.pas = areq[r].pas
    BY <1>0 DEF AltReqType
  <2>2. areq' = [areq EXCEPT ![r] = s]
    BY <1>1 DEF AltSvc!Go
  <2>. HIDE DEF s
  <2>. QED  BY <1>0, <1>1, <2>1, <2>2, RequestMoves
<1>2. areq[r].at \in {"start", "lookup", "jar"} => areq[r].pas = 0
  BY DEF AltSvcInv, HoldersLock
<1>3. CASE AltSvc!checkAltSvc(r)
  BY <1>1, <1>2, <1>3 DEF AltSvc!checkAltSvc
<1>4. CASE AltSvc!lookup(r) /\ ~(pending # 0 /\ pas[pending].transport)
  BY <1>1, <1>2, <1>4 DEF AltSvc!lookup
<1>5. CASE AltSvc!lookup(r) /\ pending # 0 /\ pas[pending].transport
  <2>. DEFINE s == [areq[r] EXCEPT !.at = "lock", !.pas = pending]
  <2>1. s \in AltReqType /\ s.at = "lock" /\ s.pas = pending
    <3>1. pending \in Nat
      BY <1>0
    <3>. QED  BY <1>0, <3>1 DEF AltReqType
  <2>2. areq' = [areq EXCEPT ![r] = s]
    BY <1>5 DEF AltSvc!lookup
  <2>. HIDE DEF s
  <2>. QED  BY <1>0, <1>5, <2>1, <2>2, RequestMoves
<1>6. CASE AltSvc!getAltSvc(r) /\ jar = 0
  <2>1. AltSvc!Go(r, "plain")
    BY <1>6 DEF AltSvc!getAltSvc, AltSvc!Go
  <2>. QED  BY <1>1, <2>1
<1>7. CASE AltSvc!getAltSvc(r) /\ jar # 0
  <2>. DEFINE s == [areq[r] EXCEPT !.at = "h3", !.entry = jar]
  <2>1. s \in AltReqType /\ s.at = "h3" /\ s.pas = areq[r].pas
    <3>1. jar \in Nat
      BY <1>7 DEF AltSvcInv, AltTyped, AltSvc!AltSvcSettles
    <3>. QED  BY <1>0, <3>1 DEF AltReqType
  <2>2. areq' = [areq EXCEPT ![r] = s] /\ areq[r].at = "jar"
    BY <1>7 DEF AltSvc!getAltSvc
  <2>. HIDE DEF s
  <2>. QED  BY <1>0, <1>2, <2>1, <2>2, RequestMoves
<1>8. CASE AltSvc!plainRoundTrip(r)
  BY <1>1, <1>8 DEF AltSvc!plainRoundTrip
<1>9. CASE AltSvc!handleAltSvc(r)
  BY <1>1, <1>9 DEF AltSvc!handleAltSvc
<1>. QED  BY <1>3, <1>4, <1>5, <1>6, <1>7, <1>8, <1>9

LEMMA AltSvcStep == AltSvcInv /\ [AltSvc!Next]_(AltSvc!altVars) => AltSvcInv'
<1>. SUFFICES ASSUME AltSvcInv, [AltSvc!Next]_(AltSvc!altVars) PROVE AltSvcInv'
  OBVIOUS
<1>. USE DEF AltSvc!None
<1>1. ASSUME UNCHANGED <<mode, pending, pas, prober, areq, proven>>, jar' \in {0, jar} PROVE AltSvcInv'
  BY <1>1 DEF AltSvcInv, AltTyped, HoldersLock, Holds, ProbersAlone, FallbackGaveUp,
              FailedInTurn, FailedUpTo, AltSvc!AltSvcSettles, AltSvc!Busy
<1>2. CASE AltSvc!cooldownEnds \/ AltSvc!expire
  BY <1>1, <1>2 DEF AltSvc!cooldownEnds, AltSvc!expire
<1>3. CASE UNCHANGED AltSvc!altVars
  BY <1>1, <1>3 DEF AltSvc!altVars
<1>. QED  BY <1>2, <1>3, PlainStepsKeep, lockPasKeeps, h3EndsKeep, h3FallbackKeeps, startPendingKeeps, addConnKeeps
          DEF AltSvc!Next

\* Alt-Svc, for any number of requests, entries and pas objects: an entry of the
\* jar carried a request over HTTP/3; with fallback and a cooldown an authority
\* that is marked as pending has a connection to use or someone at work on one;
\* and without fallback, the default, the code leaves it pending with nobody at
\* work only after every entry of the header has failed.
THEOREM AltSvcSettled == Spec => []AltSvcSettles
<1>. DEFINE I == part = "altsvc" => AltSvcInv
<1>1. Init => I
  BY AltSvcInit, AltSvcAssumption DEF Init
<1>2. I /\ [Next]_all => I'
  <2>. SUFFICES ASSUME I, [Next]_all, part' = "altsvc" PROVE AltSvcInv'
    OBVIOUS
  <2>1. part = "altsvc" /\ [AltSvc!Next]_(AltSvc!altVars)
    BY DEF Next, all, AltSvc!altVars
  <2>. QED  BY <2>1, AltSvcStep, AltSvcAssumption
<1>3. I => AltSvcSettles
  BY DEF AltSvcSettles, AltSvcInv
<1>. QED  BY <1>1, <1>2, <1>3, PTL DEF Spec

-----------------------------------------------------------------------------
(* socks.Dialer: the bytes of the handshake and the goroutine of connect.  *)

\* The variables of Socks in the composition.
dialer   == v1
phase    == v2
input    == v3
want     == v4
proxy    == v5
socksCtx == v6
watcher  == v7
errCh    == v8
deadline == v9
result   == v10
USE DEF dialer, phase, input, want, proxy, socksCtx, watcher, errCh, deadline, result

\* The whole length of a CONNECT reply of SOCKS5, by its address type.
ReplyLen(b) == IF b[4] = 1 THEN 10 ELSE IF b[4] = 4 THEN 22 ELSE 7 + b[5]
Granted5(b) == b[1] = 5 /\ b[2] = 0 /\ b[3] = 0 /\ b[4] \in {1, 3, 4}
Granted4(b) == b[1] \in {0, 4} /\ b[2] = Socks!Granted4

\* The bytes of the target behind the handshake.
Extra == IF proxy = "tunnel" THEN 1 ELSE 0
Answered == {"granted", "tunnel", "gone"}

SocksTyped ==
    /\ dialer \in Socks!DialerType /\ input \in Seq(Nat) /\ want \in Nat
    /\ socksCtx \in BOOLEAN /\ watcher \in {"none", "run", "done"} /\ errCh \in {"empty", "nil", "ctx"}
    /\ deadline \in {"none", "set", "past"}
    /\ result \in [err : {"none", "nil", "target", "lookup", "refused", "method", "auth", "io", "ctx"},
                   open : BOOLEAN]
    /\ phase \in {"start", "method", "authReply", "request", "reply4", "reply5", "nameLen", "address",
                  "deferred", "await", "returned"}

\* What is in the connection's input, by what connect waits for: the rest of
\* the handshake, all of it or nothing, and then what the target sent.
Negotiating ==
    /\ phase = "start" => proxy = "new" /\ Len(input) = 0 /\ want = 0
    /\ phase = "method" => /\ want = 2 /\ proxy \in {"greeted", "answered", "gone"} /\ Len(input) \in {0, 2}
                           /\ proxy = "greeted" => Len(input) = 0
    /\ phase = "authReply" => /\ want = 2 /\ proxy \in {"auth", "answered", "gone"} /\ Len(input) \in {0, 2}
                              /\ proxy = "auth" => Len(input) = 0
    /\ phase = "request" => want = 0 /\ Len(input) = 0 /\ proxy \in {"answered", "gone"}
Connecting ==
    /\ phase = "reply4" => /\ want = 8 /\ proxy \in {"connect4", "answered"} \cup Answered
                           /\ Len(input) \in {0, 8 + Extra}
                           /\ proxy = "connect4" => Len(input) = 0
                           /\ proxy \in {"granted", "tunnel"} => Len(input) = 8 + Extra
                           /\ proxy = "answered" => ~Granted4(input)
    /\ phase = "reply5" => /\ want = 4 /\ proxy \in {"connect5", "answered"} \cup Answered
                           /\ Len(input) = 0 \/ Len(input) >= 4
                           /\ proxy = "connect5" => Len(input) = 0
                           /\ proxy = "answered" => ~Granted5(input)
                           /\ proxy \in {"granted", "tunnel"} => Len(input) >= 4 /\ Granted5(input)
                           /\ Len(input) >= 4 /\ Granted5(input) =>
                                 /\ Len(input) = ReplyLen(input) + Extra
                                 /\ input[4] = 3 => input[5] \in Nat
Addressing ==
    /\ phase = "nameLen" => /\ want = 1 /\ proxy \in Answered /\ Len(input) >= 1
                            /\ Len(input) = 3 + input[1] + Extra
    /\ phase = "address" => proxy \in Answered /\ Len(input) = want + Extra
    /\ phase \in {"deferred", "await", "returned"} /\ result.err = "nil" =>
          proxy \in Answered /\ Len(input) = Extra
TunnelLast == proxy = "tunnel" => Len(input) >= 1 /\ input[Len(input)] = Socks!Tunnel

\* The goroutine: it exists unless the context never ends, it has reported
\* when it is done, and it leaves a deadline behind only if it reports so.
WatcherReports ==
    /\ watcher = "none" <=> dialer.background
    /\ watcher = "done" <=> errCh # "empty"
    /\ ~dialer.deadline /\ errCh # "ctx" => deadline = "none"
    /\ phase \notin {"deferred", "await", "returned"} => result.err = "none"
    /\ phase = "await" => watcher # "none" /\ result.err = "nil"
    /\ phase = "returned" => /\ result.open <=> result.err = "nil"
                             /\ result.err = "nil" => /\ watcher # "run" /\ errCh # "ctx"
                                                      /\ deadline = "none"

SocksInv ==
    /\ SocksTyped /\ Negotiating /\ Connecting /\ Addressing /\ TunnelLast /\ WatcherReports

LEMMA SocksInit == ASSUME SocksConstants, Socks!Init PROVE SocksInv
<1>0. dialer \in Socks!DialerType /\ input \in Seq(Nat)
  BY DEF Socks!Init, SocksConstants
<1>1. SocksTyped
  <2>1. watcher \in {"none", "run", "done"} /\ deadline \in {"none", "set", "past"}
    BY DEF Socks!Init
  <2>2. result \in [err : {"none", "nil", "target", "lookup", "refused", "method", "auth", "io", "ctx"},
                    open : BOOLEAN]
    BY DEF Socks!Init
  <2>. QED  BY <1>0, <2>1, <2>2 DEF Socks!Init, SocksTyped
<1>2. Negotiating /\ Connecting /\ Addressing /\ TunnelLast /\ WatcherReports
  <2>1. dialer.background \in BOOLEAN /\ dialer.deadline \in BOOLEAN
    BY <1>1 DEF SocksTyped, Socks!DialerType
  <2>. QED  BY <2>1 DEF Socks!Init, Negotiating, Connecting, Addressing, TunnelLast, WatcherReports
<1>. QED  BY <1>1, <1>2 DEF SocksInv

\* io.ReadFull: the bytes wanted are gone, the others are in their order.
LEMMA TakeGives ==
  ASSUME SocksInv, Socks!Full, Socks!Take
  PROVE  /\ input' \in Seq(Nat) /\ Len(input') = Len(input) - want /\ Len(input) \in Nat /\ Len(input) >= want
         /\ \A i \in 1 .. Len(input) - want : input'[i] = input[i + want]
<1>1. input \in Seq(Nat) /\ want \in Nat /\ Len(input) >= want /\ Len(input) \in Nat
  BY DEF SocksInv, SocksTyped, Socks!Full
<1>2. input' = SubSeq(input, want + 1, Len(input))
  BY DEF Socks!Take
<1>3. \A i \in want + 1 .. Len(input) : input[i] \in Nat
  BY <1>1
<1>4. /\ SubSeq(input, want + 1, Len(input)) \in Seq(Nat)
      /\ Len(SubSeq(input, want + 1, Len(input))) =
            IF want + 1 <= Len(input) THEN Len(input) - (want + 1) + 1 ELSE 0
      /\ \A i \in 1 .. Len(input) - (want + 1) + 1 :
            SubSeq(input, want + 1, Len(input))[i] = input[want + 1 + i - 1]
  BY <1>1, <1>3, SubSeqProperties
<1>5. Len(input') = Len(input) - want
  BY <1>1, <1>2, <1>4
<1>6. ASSUME NEW i \in 1 .. Len(input) - want PROVE input'[i] = input[i + want]
  <2>1. i \in 1 .. Len(input) - (want + 1) + 1 /\ want + 1 + i - 1 = i + want
    BY <1>1
  <2>. QED  BY <1>2, <1>4, <2>1
<1>. QED  BY <1>1, <1>2, <1>4, <1>5, <1>6

\* A read leaves the target's bytes where they are.
LEMMA TakeTunnel ==
  ASSUME SocksInv, Socks!Full, Socks!Take, UNCHANGED proxy, proxy = "tunnel" => Len(input) > want
  PROVE  TunnelLast'
<1>1. /\ input' \in Seq(Nat) /\ Len(input') = Len(input) - want /\ Len(input) \in Nat /\ Len(input) >= want
      /\ \A i \in 1 .. Len(input) - want : input'[i] = input[i + want]
  BY TakeGives
<1>2. want \in Nat /\ TunnelLast
  BY DEF SocksInv, SocksTyped
<1>3. CASE proxy = "tunnel"
  <2>1. Len(input) - want \in 1 .. Len(input) - want /\ Len(input) - want + want = Len(input)
    BY <1>1, <1>2, <1>3
  <2>2. input'[Len(input) - want] = input[Len(input)]
    BY <1>1, <2>1
  <2>. QED  BY <1>1, <1>2, <1>3, <2>1, <2>2 DEF TunnelLast
<1>. QED  BY <1>3 DEF TunnelLast

LEMMA ResultErr ==
  ASSUME SocksInv,
         NEW e \in {"none", "nil", "target", "lookup", "refused", "method", "auth", "io", "ctx"}
  PROVE  /\ [result EXCEPT !.err = e].err = e
         /\ [result EXCEPT !.err = e] \in
              [err : {"none", "nil", "target", "lookup", "refused", "method", "auth", "io", "ctx"}, open : BOOLEAN]
  BY DEF SocksInv, SocksTyped

\* A step of connect that touches neither the goroutine nor the deadline.
LEMMA WatcherAside ==
  ASSUME SocksInv, UNCHANGED Socks!Rest, phase \notin {"deferred", "await", "returned"},
         phase' \notin {"await", "returned"}, phase' # "deferred" => result'.err = "none"
  PROVE  WatcherReports'
  BY DEF SocksInv, Socks!Rest, WatcherReports

\* connect gives up.
LEMMA EndKeeps ==
  ASSUME SocksInv, phase \notin {"deferred", "await", "returned"},
         NEW e \in {"target", "lookup", "io"}, Socks!End(e), UNCHANGED proxy, UNCHANGED Socks!Rest
  PROVE  SocksInv'
<1>1. /\ phase' = "deferred" /\ UNCHANGED <<input, want, proxy, dialer, socksCtx, watcher, errCh, deadline>>
      /\ result' = [result EXCEPT !.err = e]
  BY DEF Socks!End, Socks!Rest
<1>2. result'.err = e /\ SocksTyped'
  BY <1>1, ResultErr DEF SocksInv, SocksTyped
<1>3. Negotiating' /\ Connecting' /\ Addressing' /\ TunnelLast'
  BY <1>1, <1>2 DEF SocksInv, Negotiating, Connecting, Addressing, TunnelLast
<1>4. WatcherReports'
  BY <1>1, WatcherAside
<1>. QED  BY <1>2, <1>3, <1>4 DEF SocksInv

\* A message is written.
LEMMA AskKeeps ==
  ASSUME SocksInv, phase \in {"start", "request"},
         NEW p, NEW n, NEW to, Socks!Ask(p, n, to), UNCHANGED Socks!Rest,
         <<p, n, to>> \in {<<"reply4", 8, "connect4">>, <<"method", 2, "greeted">>, <<"reply5", 4, "connect5">>}
  PROVE  SocksInv'
<1>1. /\ phase' = p /\ want' = n /\ proxy' = to
      /\ UNCHANGED <<input, result, dialer, socksCtx, watcher, errCh, deadline>>
  BY DEF Socks!Ask, Socks!Rest
<1>2. \/ p = "reply4" /\ n = 8 /\ to = "connect4"
      \/ p = "method" /\ n = 2 /\ to = "greeted"
      \/ p = "reply5" /\ n = 4 /\ to = "connect5"
  OBVIOUS
<1>3. Len(input) = 0
  BY DEF SocksInv, Negotiating
<1>4. SocksTyped'
  BY <1>1, <1>2 DEF SocksInv, SocksTyped
<1>5. Negotiating' /\ Connecting' /\ Addressing' /\ TunnelLast'
  BY <1>1, <1>2, <1>3 DEF Negotiating, Connecting, Addressing, TunnelLast
<1>6. result.err = "none"
  BY DEF SocksInv, WatcherReports
<1>7. WatcherReports'
  BY <1>1, <1>2, <1>6, WatcherAside
<1>. QED  BY <1>4, <1>5, <1>7 DEF SocksInv

LEMMA NegotiationKeeps ==
  ASSUME SocksInv,
         Socks!connect4 \/ Socks!greet \/ Socks!method \/ Socks!authReply \/ Socks!request \/ Socks!ioError
  PROVE  SocksInv'
<1>0. SocksTyped /\ Negotiating /\ Connecting /\ Addressing /\ TunnelLast /\ WatcherReports
  BY DEF SocksInv
<1>1. CASE Socks!connect4
  <2>1. phase = "start" /\ UNCHANGED Socks!Rest
    BY <1>1 DEF Socks!connect4
  <2>2. CASE UNCHANGED proxy /\ (Socks!End("target") \/ Socks!End("lookup"))
    BY <2>1, <2>2, EndKeeps
  <2>3. CASE Socks!Ask("reply4", 8, "connect4")
    BY <2>1, <2>3, AskKeeps
  <2>. QED  BY <1>1, <2>2, <2>3 DEF Socks!connect4
<1>2. CASE Socks!greet
  BY <1>2, AskKeeps DEF Socks!greet
<1>3. CASE Socks!request
  <2>1. phase = "request" /\ UNCHANGED Socks!Rest
    BY <1>3 DEF Socks!request
  <2>. QED  BY <1>3, <2>1, EndKeeps, AskKeeps DEF Socks!request
<1>4. CASE Socks!ioError
  BY <1>4, EndKeeps DEF Socks!ioError
<1>5. CASE Socks!method
  <2>1. phase = "method" /\ Socks!Full /\ Socks!Take /\ UNCHANGED Socks!Rest
    BY <1>5 DEF Socks!method
  <2>2. want = 2 /\ proxy \in {"answered", "gone"} /\ Len(input) = 2
    BY <1>0, <2>1 DEF Negotiating, Socks!Full
  <2>3. input' \in Seq(Nat) /\ Len(input') = 0
    BY <2>1, <2>2, TakeGives
  <2>4. result.err = "none"
    BY <1>0, <2>1 DEF WatcherReports
  <2>5. \/ phase' = "deferred" /\ proxy' = proxy /\ want' = 0 /\ result' = [result EXCEPT !.err = "method"]
        \/ phase' = "authReply" /\ proxy' = "auth" /\ want' = 2 /\ result' = [result EXCEPT !.err = "none"]
        \/ phase' = "request" /\ proxy' = proxy /\ want' = 0 /\ result' = [result EXCEPT !.err = "none"]
    BY <1>5, <2>4 DEF Socks!method
  <2>6. SocksTyped' /\ (phase' # "deferred" => result'.err = "none") /\ (phase' = "deferred" => result'.err = "method")
    BY <1>0, <2>1, <2>3, <2>5, ResultErr DEF SocksTyped, Socks!Rest
  <2>7. Negotiating' /\ Connecting' /\ Addressing' /\ TunnelLast'
    BY <2>2, <2>3, <2>5, <2>6 DEF Negotiating, Connecting, Addressing, TunnelLast
  <2>8. WatcherReports'
    BY <2>1, <2>5, <2>6, WatcherAside
  <2>. QED  BY <2>6, <2>7, <2>8 DEF SocksInv
<1>6. CASE Socks!authReply
  <2>1. phase = "authReply" /\ Socks!Full /\ Socks!Take /\ UNCHANGED Socks!Rest /\ UNCHANGED proxy /\ want' = 0
    BY <1>6 DEF Socks!authReply
  <2>2. want = 2 /\ proxy \in {"answered", "gone"} /\ Len(input) = 2
    BY <1>0, <2>1 DEF Negotiating, Socks!Full
  <2>3. input' \in Seq(Nat) /\ Len(input') = 0
    BY <2>1, <2>2, TakeGives
  <2>4. result.err = "none"
    BY <1>0, <2>1 DEF WatcherReports
  <2>5. \/ phase' = "deferred" /\ result' = [result EXCEPT !.err = "auth"]
        \/ phase' = "request" /\ result' = [result EXCEPT !.err = "none"]
    BY <1>6, <2>4 DEF Socks!authReply
  <2>6. SocksTyped' /\ (phase' # "deferred" => result'.err = "none") /\ (phase' = "deferred" => result'.err = "auth")
    BY <1>0, <2>1, <2>3, <2>5, ResultErr DEF SocksTyped, Socks!Rest
  <2>7. Negotiating' /\ Connecting' /\ Addressing' /\ TunnelLast'
    BY <2>1, <2>2, <2>3, <2>5, <2>6 DEF Negotiating, Connecting, Addressing, TunnelLast
  <2>8. WatcherReports'
    BY <2>1, <2>5, <2>6, WatcherAside
  <2>. QED  BY <2>6, <2>7, <2>8 DEF SocksInv
<1>. QED  BY <1>1, <1>2, <1>3, <1>4, <1>5, <1>6

\* The replies to the request, as far as they are read.
LEMMA RepliesReadKeep ==
  ASSUME SocksInv, Socks!reply4 \/ Socks!reply5 \/ Socks!nameLen \/ Socks!address
  PROVE  SocksInv'
<1>. USE DEF Answered, Extra
<1>0. SocksTyped /\ Negotiating /\ Connecting /\ Addressing /\ TunnelLast /\ WatcherReports
  BY DEF SocksInv
<1>00. Len(input) \in Nat /\ input \in Seq(Nat) /\ want \in Nat
  BY <1>0 DEF SocksTyped
<1>1. CASE Socks!reply4
  <2>1. /\ phase = "reply4" /\ phase' = "deferred" /\ Socks!Full /\ Socks!Take /\ UNCHANGED Socks!Rest /\ UNCHANGED proxy
        /\ want' = 0 /\ result' = [result EXCEPT !.err = IF Granted4(input) THEN "nil" ELSE "refused"]
    BY <1>1 DEF Socks!reply4, Granted4
  <2>2. want = 8 /\ Len(input) = 8 + Extra /\ proxy \in {"answered"} \cup Answered /\ (proxy = "answered" => ~Granted4(input))
    BY <1>0, <1>00, <2>1 DEF Connecting, Socks!Full
  <2>3. input' \in Seq(Nat) /\ Len(input') = Extra
    BY <2>1, <2>2, TakeGives
  <2>4. TunnelLast'
    BY <1>00, <2>1, <2>2, TakeTunnel
  <2>5. result'.err = (IF Granted4(input) THEN "nil" ELSE "refused") /\ SocksTyped'
    <3>1. (IF Granted4(input) THEN "nil" ELSE "refused") \in
             {"none", "nil", "target", "lookup", "refused", "method", "auth", "io", "ctx"}
      OBVIOUS
    <3>. QED  BY <1>0, <2>1, <2>3, <3>1, ResultErr DEF SocksTyped, Socks!Rest
  <2>6. Negotiating' /\ Connecting' /\ Addressing'
    BY <2>1, <2>2, <2>3, <2>5 DEF Negotiating, Connecting, Addressing
  <2>7. WatcherReports'
    BY <2>1, WatcherAside
  <2>. QED  BY <2>4, <2>5, <2>6, <2>7 DEF SocksInv
<1>2. CASE Socks!reply5
  <2>1. /\ phase = "reply5" /\ Socks!Full /\ Socks!Take /\ UNCHANGED Socks!Rest /\ UNCHANGED proxy
        /\ phase' = (IF ~Granted5(input) THEN "deferred" ELSE IF input[4] = 3 THEN "nameLen" ELSE "address")
        /\ want' = (IF ~Granted5(input) THEN 0 ELSE IF input[4] = 3 THEN 1 ELSE Socks!addrLen(input[4]))
        /\ result' = [result EXCEPT !.err = IF Granted5(input) THEN @ ELSE "refused"]
    BY <1>2 DEF Socks!reply5, Granted5
  <2>2. /\ want = 4 /\ Len(input) >= 4 /\ proxy \in {"answered"} \cup Answered
        /\ proxy = "answered" => ~Granted5(input)
        /\ proxy = "tunnel" => Granted5(input)
        /\ Granted5(input) => Len(input) = ReplyLen(input) + Extra /\ (input[4] = 3 => input[5] \in Nat)
    BY <1>0, <1>00, <2>1 DEF Connecting, Socks!Full
  <2>3. /\ input' \in Seq(Nat) /\ Len(input') = Len(input) - 4
        /\ \A i \in 1 .. Len(input) - 4 : input'[i] = input[i + 4]
    BY <2>1, <2>2, TakeGives
  <2>4. result.err = "none"
    BY <1>0, <2>1 DEF WatcherReports
  <2>5. CASE ~Granted5(input)
    <3>1. result'.err = "refused" /\ SocksTyped'
      BY <1>0, <2>1, <2>3, <2>5, ResultErr DEF SocksTyped, Socks!Rest
    <3>2. Negotiating' /\ Connecting' /\ Addressing'
      BY <2>1, <2>5, <3>1 DEF Negotiating, Connecting, Addressing
    <3>3. TunnelLast'
      BY <2>1, <2>2, <2>5, TakeTunnel
    <3>4. WatcherReports'
      BY <2>1, <2>5, WatcherAside
    <3>. QED  BY <3>1, <3>2, <3>3, <3>4 DEF SocksInv
  <2>6. CASE Granted5(input)
    <3>1. result' = [result EXCEPT !.err = "none"]
      BY <2>1, <2>4, <2>6
    <3>2. Len(input) = ReplyLen(input) + Extra /\ (input[4] = 3 => input[5] \in Nat) /\ input[4] \in {1, 3, 4}
      BY <2>2, <2>6 DEF Granted5
    <3>3. Len(input) > 4
      BY <3>2 DEF ReplyLen
    <3>4. want' \in Nat
      BY <2>1, <2>6, <3>2 DEF Socks!addrLen
    <3>5. result'.err = "none" /\ SocksTyped'
      BY <1>0, <2>1, <2>3, <2>6, <3>1, <3>4, ResultErr DEF SocksTyped, Socks!Rest
    <3>6. CASE input[4] = 3
      <4>1. 1 \in 1 .. Len(input) - 4
        BY <1>00, <3>3
      <4>2. input'[1] = input[5]
        BY <2>3, <4>1
      <4>25. Len(input) = 7 + input[5] + Extra /\ Extra \in Nat /\ input[5] \in Nat
        BY <3>2, <3>6 DEF ReplyLen
      <4>26. Len(input') = 3 + input'[1] + Extra
        <5>. HIDE DEF Extra
        <5>. QED  BY <2>3, <4>2, <4>25
      <4>3. phase' = "nameLen" /\ want' = 1 /\ Len(input') = 3 + input'[1] + Extra
        BY <2>1, <2>6, <3>6, <4>26
      <4>31. Len(input') >= 1
        BY <1>00, <2>3, <3>3
      <4>4. Negotiating' /\ Connecting' /\ Addressing'
        BY <2>1, <2>2, <2>6, <4>3, <4>31 DEF Negotiating, Connecting, Addressing
      <4>5. TunnelLast' /\ WatcherReports'
        BY <1>00, <2>1, <2>2, <3>3, <3>5, <4>3, TakeTunnel, WatcherAside
      <4>. QED  BY <3>5, <4>4, <4>5 DEF SocksInv
    <3>7. CASE input[4] # 3
      <4>1. phase' = "address" /\ Len(input') = want' + Extra
        <5>1. phase' = "address" /\ want' = Socks!addrLen(input[4])
          BY <2>1, <2>6, <3>7
        <5>2. Len(input) = Socks!addrLen(input[4]) + 4 + Extra /\ Extra \in Nat /\ Socks!addrLen(input[4]) \in Nat
          <6>1. CASE input[4] = 1
            BY <3>2, <6>1 DEF ReplyLen, Socks!addrLen
          <6>2. CASE input[4] = 4
            BY <3>2, <6>2 DEF ReplyLen, Socks!addrLen
          <6>. QED  BY <3>2, <3>7, <6>1, <6>2
        <5>. HIDE DEF Extra
        <5>. QED  BY <2>3, <5>1, <5>2
      <4>4. Negotiating' /\ Connecting' /\ Addressing'
        BY <2>1, <2>2, <2>6, <4>1 DEF Negotiating, Connecting, Addressing
      <4>5. TunnelLast' /\ WatcherReports'
        BY <1>00, <2>1, <2>2, <3>3, <3>5, <4>1, TakeTunnel, WatcherAside
      <4>. QED  BY <3>5, <4>4, <4>5 DEF SocksInv
    <3>. QED  BY <3>6, <3>7
  <2>. QED  BY <2>5, <2>6
<1>3. CASE Socks!nameLen
  <2>1. /\ phase = "nameLen" /\ phase' = "address" /\ Socks!Full /\ Socks!Take /\ UNCHANGED Socks!Rest
        /\ want' = 2 + input[1] /\ UNCHANGED <<proxy, result>>
    BY <1>3 DEF Socks!nameLen
  <2>2. want = 1 /\ proxy \in Answered /\ Len(input) = 3 + input[1] + Extra /\ Len(input) >= 1
    BY <1>0, <2>1 DEF Addressing, Socks!Full
  <2>3. input[1] \in Nat
    BY <1>00, <2>2
  <2>4. input' \in Seq(Nat) /\ Len(input') = Len(input) - 1
    BY <2>1, <2>2, TakeGives
  <2>5. result.err = "none"
    BY <1>0, <2>1 DEF WatcherReports
  <2>6. SocksTyped'
    BY <1>0, <2>1, <2>3, <2>4 DEF SocksTyped, Socks!Rest
  <2>7. Negotiating' /\ Connecting' /\ Addressing'
    BY <1>00, <2>1, <2>2, <2>3, <2>4, SMTT(30) DEF Negotiating, Connecting, Addressing
  <2>8. TunnelLast' /\ WatcherReports'
    BY <1>00, <2>1, <2>2, <2>3, <2>5, TakeTunnel, WatcherAside
  <2>. QED  BY <2>6, <2>7, <2>8 DEF SocksInv
<1>4. CASE Socks!address
  <2>1. /\ phase = "address" /\ phase' = "deferred" /\ Socks!Full /\ Socks!Take /\ UNCHANGED Socks!Rest
        /\ want' = 0 /\ UNCHANGED proxy /\ result' = [result EXCEPT !.err = "nil"]
    BY <1>4 DEF Socks!address
  <2>2. proxy \in Answered /\ Len(input) = want + Extra
    BY <1>0, <2>1 DEF Addressing
  <2>3. input' \in Seq(Nat) /\ Len(input') = Len(input) - want
    BY <2>1, TakeGives
  <2>4. input' \in Seq(Nat) /\ Len(input') = Extra
    <3>1. Extra \in Nat
      OBVIOUS
    <3>. HIDE DEF Extra
    <3>. QED  BY <1>00, <2>2, <2>3, <3>1
  <2>6. SocksTyped' /\ result'.err = "nil"
    BY <1>0, <2>1, <2>4, ResultErr DEF SocksTyped, Socks!Rest
  <2>7. Negotiating' /\ Connecting' /\ Addressing'
    BY <1>00, <2>1, <2>2, <2>4 DEF Negotiating, Connecting, Addressing
  <2>8. TunnelLast' /\ WatcherReports'
    BY <1>00, <2>1, <2>2, TakeTunnel, WatcherAside
  <2>. QED  BY <2>6, <2>7, <2>8 DEF SocksInv
<1>. QED  BY <1>1, <1>2, <1>3, <1>4

\* The goroutine, the deferred calls of connect and the end of the context.
LEMMA ReturnsKeep ==
  ASSUME SocksInv, Socks!watch \/ Socks!deferred \/ Socks!awaitErr \/ Socks!cancel
  PROVE  SocksInv'
<1>0. SocksTyped /\ Negotiating /\ Connecting /\ Addressing /\ TunnelLast /\ WatcherReports
  BY DEF SocksInv
<1>00. /\ dialer.deadline \in BOOLEAN /\ dialer.background \in BOOLEAN
       /\ result \in [err : {"none", "nil", "target", "lookup", "refused", "method", "auth", "io", "ctx"},
                      open : BOOLEAN]
  BY <1>0 DEF SocksTyped, Socks!DialerType
<1>. USE DEF Extra
<1>1. CASE Socks!watch
  <2>1. /\ watcher = "run" /\ watcher' = "done" /\ UNCHANGED <<dialer, phase, input, want, proxy, socksCtx, result>>
        /\ \/ socksCtx /\ deadline' = "past" /\ errCh' = "ctx"
           \/ phase \in {"await", "returned"} /\ errCh' = "nil" /\ UNCHANGED deadline
    BY <1>1 DEF Socks!watch
  <2>2. SocksTyped' /\ Negotiating' /\ Connecting' /\ Addressing' /\ TunnelLast'
    BY <1>0, <2>1 DEF SocksTyped, Negotiating, Connecting, Addressing, TunnelLast
  <2>3. WatcherReports'
    BY <1>0, <1>00, <2>1 DEF WatcherReports
  <2>. QED  BY <2>2, <2>3 DEF SocksInv
<1>2. CASE Socks!cancel
  <2>1. socksCtx' = TRUE /\ UNCHANGED <<dialer, phase, input, want, proxy, watcher, errCh, deadline, result>>
    BY <1>2 DEF Socks!cancel
  <2>. QED  BY <1>0, <2>1
         DEF SocksInv, SocksTyped, Negotiating, Connecting, Addressing, TunnelLast, WatcherReports
<1>3. CASE Socks!deferred
  <2>1. phase = "deferred" /\ UNCHANGED <<dialer, input, want, proxy, socksCtx, watcher, errCh>>
    BY <1>3 DEF Socks!deferred
  <2>2. CASE phase' = "await" /\ UNCHANGED <<deadline, result>> /\ result.err = "nil" /\ watcher # "none"
    <3>1. SocksTyped' /\ Negotiating' /\ Connecting' /\ Addressing' /\ TunnelLast'
      BY <1>0, <2>1, <2>2 DEF SocksTyped, Negotiating, Connecting, Addressing, TunnelLast
    <3>2. WatcherReports'
      BY <1>0, <2>1, <2>2 DEF WatcherReports
    <3>. QED  BY <3>1, <3>2 DEF SocksInv
  <2>3. CASE /\ phase' = "returned" /\ deadline' = (IF dialer.deadline THEN "none" ELSE deadline)
             /\ result' = [result EXCEPT !.open = result.err = "nil"]
             /\ ~(result.err = "nil" /\ watcher # "none")
    <3>0. /\ result' \in [err : {"none", "nil", "target", "lookup", "refused", "method", "auth", "io", "ctx"},
                          open : BOOLEAN]
          /\ result'.err = result.err /\ result'.open = (result.err = "nil")
      BY <1>00, <2>3
    <3>1. SocksTyped' /\ Negotiating' /\ Connecting' /\ Addressing' /\ TunnelLast'
      BY <1>0, <2>1, <2>3, <3>0 DEF SocksTyped, Negotiating, Connecting, Addressing, TunnelLast
    <3>2. WatcherReports'
      BY <1>0, <1>00, <2>1, <2>3, <3>0 DEF WatcherReports
    <3>. QED  BY <3>1, <3>2 DEF SocksInv
  <2>. QED  BY <1>3, <2>2, <2>3 DEF Socks!deferred
<1>4. CASE Socks!awaitErr
  <2>1. /\ phase = "await" /\ errCh # "empty" /\ phase' = "returned"
        /\ deadline' = (IF dialer.deadline THEN "none" ELSE deadline)
        /\ result' = [err |-> IF errCh = "ctx" THEN "ctx" ELSE "nil", open |-> errCh # "ctx"]
        /\ UNCHANGED <<dialer, input, want, proxy, socksCtx, watcher, errCh>>
    BY <1>4 DEF Socks!awaitErr
  <2>2. /\ result' \in [err : {"none", "nil", "target", "lookup", "refused", "method", "auth", "io", "ctx"},
                        open : BOOLEAN]
        /\ result'.err = (IF errCh = "ctx" THEN "ctx" ELSE "nil") /\ result'.open = (errCh # "ctx")
    BY <2>1
  <2>3. SocksTyped' /\ Negotiating' /\ Connecting' /\ Addressing' /\ TunnelLast'
    BY <1>0, <2>1, <2>2 DEF SocksTyped, Negotiating, Connecting, Addressing, TunnelLast, WatcherReports
  <2>4. WatcherReports'
    BY <1>0, <1>00, <2>1, <2>2 DEF WatcherReports
  <2>. QED  BY <2>3, <2>4 DEF SocksInv
<1>. QED  BY <1>1, <1>2, <1>3, <1>4

LEMMA FillerSeq ==
  ASSUME NEW n \in Nat
  PROVE  Socks!Filler(n) \in Seq(Nat) /\ Len(Socks!Filler(n)) = n
  BY DEF Socks!Filler

LEMMA ConcatNat ==
  ASSUME NEW a \in Seq(Nat), NEW b \in Seq(Nat)
  PROVE  /\ a \o b \in Seq(Nat) /\ Len(a \o b) = Len(a) + Len(b)
         /\ \A i \in 1 .. Len(a) : (a \o b)[i] = a[i]
         /\ \A i \in 1 .. Len(b) : (a \o b)[Len(a) + i] = b[i]
  OBVIOUS

\* A message with filler behind it.
LEMMA FilledUp ==
  ASSUME NEW a \in Seq(Nat), NEW n \in Nat
  PROVE  /\ a \o Socks!Filler(n) \in Seq(Nat) /\ Len(a \o Socks!Filler(n)) = Len(a) + n
         /\ \A i \in 1 .. Len(a) : (a \o Socks!Filler(n))[i] = a[i]
<1>. DEFINE f == Socks!Filler(n)
<1>1. f \in Seq(Nat) /\ Len(f) = n
  BY FillerSeq
<1>. HIDE DEF f
<1>2. a \o f \in Seq(Nat) /\ Len(a \o f) = Len(a) + n /\ \A i \in 1 .. Len(a) : (a \o f)[i] = a[i]
  BY <1>1, ConcatNat
<1>. QED  BY <1>2 DEF f

\* The two-byte replies.
LEMMA SocksReplies2 ==
  ASSUME NEW p \in {"greeted", "auth"}, NEW b \in Socks!Replies(p)
  PROVE  b \in Seq(Nat) /\ Len(b) = 2 /\ ~Socks!Grants(p, b)
<1>0. Socks!Replies("greeted") = {<<5, Socks!NotRequired>>, <<5, Socks!UserPass>>, <<5, Socks!NoAcceptable>>, <<4, 0>>}
  BY SMT DEF Socks!Replies
<1>1. Socks!Replies("auth") = {<<1, 0>>, <<1, 1>>}
  BY SMT DEF Socks!Replies
<1>2. \A x, y \in Nat : <<x, y>> \in Seq(Nat) /\ Len(<<x, y>>) = 2
  OBVIOUS
<1>3. \/ b = <<5, Socks!NotRequired>> \/ b = <<5, Socks!UserPass>> \/ b = <<5, Socks!NoAcceptable>> \/ b = <<4, 0>>
      \/ b = <<1, 0>> \/ b = <<1, 1>>
  BY <1>0, <1>1
<1>4. b \in Seq(Nat) /\ Len(b) = 2
  <2>1. Socks!NotRequired \in Nat /\ Socks!UserPass \in Nat /\ Socks!NoAcceptable \in Nat
    BY DEF Socks!NotRequired, Socks!UserPass, Socks!NoAcceptable
  <2>2. CASE b = <<5, Socks!NotRequired>>
    BY <1>2, <2>1, <2>2
  <2>3. CASE b = <<5, Socks!UserPass>>
    BY <1>2, <2>1, <2>3
  <2>4. CASE b = <<5, Socks!NoAcceptable>>
    BY <1>2, <2>1, <2>4
  <2>5. CASE b = <<4, 0>>
    BY <1>2, <2>5
  <2>6. CASE b = <<1, 0>>
    BY <1>2, <2>6
  <2>7. CASE b = <<1, 1>>
    BY <1>2, <2>7
  <2>. QED  BY <1>3, <2>2, <2>3, <2>4, <2>5, <2>6, <2>7
<1>. QED  BY <1>4 DEF Socks!Grants

LEMMA SocksReplies4 ==
  ASSUME NEW b \in Socks!Replies("connect4")
  PROVE  b \in Seq(Nat) /\ Len(b) = 8 /\ (Socks!Grants("connect4", b) <=> Granted4(b))
<1>. DEFINE F(v, c) == <<v, c>> \o Socks!Filler(6)
<1>0. Socks!Replies("connect4") = {F(v, c) : v \in {0, 4, 5}, c \in {Socks!Granted4, 91}}
  BY SMT DEF Socks!Replies
<1>. HIDE DEF F
<1>01. PICK v \in {0, 4, 5}, c \in {Socks!Granted4, 91} : b = F(v, c)
  BY <1>0
<1>1. v \in {0, 4, 5} /\ c \in {Socks!Granted4, 91} /\ b = <<v, c>> \o Socks!Filler(6)
  BY <1>01 DEF F
<1>. DEFINE a == <<v, c>>
<1>2. a \in Seq(Nat) /\ Len(a) = 2 /\ a[1] = v /\ a[2] = c
  BY DEF Socks!Granted4
<1>3. b = a \o Socks!Filler(6) /\ 6 \in Nat
  BY <1>1
<1>. HIDE DEF a
<1>4. b \in Seq(Nat) /\ Len(b) = Len(a) + 6 /\ \A i \in 1 .. Len(a) : b[i] = a[i]
  <2>1. /\ a \o Socks!Filler(6) \in Seq(Nat) /\ Len(a \o Socks!Filler(6)) = Len(a) + 6
        /\ \A i \in 1 .. Len(a) : (a \o Socks!Filler(6))[i] = a[i]
    BY <1>2, <1>3, FilledUp
  <2>. QED  BY <1>3, <2>1
<1>5. Len(b) = 8 /\ b[1] = v /\ b[2] = c
  BY <1>2, <1>4
<1>. QED  BY <1>1, <1>4, <1>5 DEF Socks!Grants, Granted4

\* A CONNECT reply of SOCKS5: its length says whether it is complete.
Reply5OK(b) == /\ b \in Seq(Nat) /\ Len(b) >= 4 /\ (Socks!Grants("connect5", b) <=> Granted5(b))
               /\ Granted5(b) => Len(b) = ReplyLen(b)
               /\ Granted5(b) /\ b[4] = 3 => Len(b) >= 5

LEMMA SocksReplies5 == ASSUME NEW b \in Socks!Replies("connect5") PROVE Reply5OK(b)
<1>1. ASSUME NEW x2 \in Nat, NEW x4 \in Nat, NEW n \in Nat, b = <<5, x2, 0, x4>> \o Socks!Filler(n),
             <<x2, x4, n>> \in {<<0, 1, 6>>, <<0, 4, 18>>, <<1, 1, 6>>, <<0, 2, 6>>}
      PROVE  Reply5OK(b)
  <2>. DEFINE a == <<5, x2, 0, x4>>
  <2>1. a \in Seq(Nat) /\ Len(a) = 4 /\ a[1] = 5 /\ a[2] = x2 /\ a[3] = 0 /\ a[4] = x4
    OBVIOUS
  <2>2. b = a \o Socks!Filler(n)
    BY <1>1
  <2>. HIDE DEF a
  <2>3. b \in Seq(Nat) /\ Len(b) = Len(a) + n /\ \A i \in 1 .. Len(a) : b[i] = a[i]
    <3>1. /\ a \o Socks!Filler(n) \in Seq(Nat) /\ Len(a \o Socks!Filler(n)) = Len(a) + n
          /\ \A i \in 1 .. Len(a) : (a \o Socks!Filler(n))[i] = a[i]
      BY <2>1, FilledUp
    <3>. QED  BY <2>2, <3>1
  <2>4. Len(b) = 4 + n /\ b[1] = 5 /\ b[2] = x2 /\ b[3] = 0 /\ b[4] = x4
    BY <2>1, <2>3
  <2>5. \/ (x2 = 0 /\ x4 = 1 /\ n = 6) \/ (x2 = 0 /\ x4 = 4 /\ n = 18)
        \/ (x2 = 1 /\ x4 = 1 /\ n = 6) \/ (x2 = 0 /\ x4 = 2 /\ n = 6)
    BY <1>1
  <2>. QED  BY <2>3, <2>4, <2>5 DEF Reply5OK, Socks!Grants, Granted5, ReplyLen
<1>2. ASSUME NEW x \in Nat, b = <<5, 0, 0, 3, x>> \o Socks!Filler(2 + x)
      PROVE  Reply5OK(b)
  <2>. DEFINE a == <<5, 0, 0, 3, x>>
  <2>1. a \in Seq(Nat) /\ Len(a) = 5 /\ a[1] = 5 /\ a[2] = 0 /\ a[3] = 0 /\ a[4] = 3 /\ a[5] = x
    OBVIOUS
  <2>2. b = a \o Socks!Filler(2 + x) /\ 2 + x \in Nat
    BY <1>2
  <2>. HIDE DEF a
  <2>3. b \in Seq(Nat) /\ Len(b) = Len(a) + (2 + x) /\ \A i \in 1 .. Len(a) : b[i] = a[i]
    <3>1. /\ a \o Socks!Filler(2 + x) \in Seq(Nat) /\ Len(a \o Socks!Filler(2 + x)) = Len(a) + (2 + x)
          /\ \A i \in 1 .. Len(a) : (a \o Socks!Filler(2 + x))[i] = a[i]
      BY <2>1, <2>2, FilledUp
    <3>. QED  BY <2>2, <3>1
  <2>4. Len(b) = 7 + x /\ b[1] = 5 /\ b[2] = 0 /\ b[3] = 0 /\ b[4] = 3 /\ b[5] = x
    BY <2>1, <2>3
  <2>. QED  BY <2>3, <2>4 DEF Reply5OK, Socks!Grants, Granted5, ReplyLen
<1>3. \/ b = <<5, 0, 0, 1>> \o Socks!Filler(6) \/ b = <<5, 0, 0, 4>> \o Socks!Filler(18)
      \/ b = <<5, 0, 0, 3, 0>> \o Socks!Filler(2) \/ b = <<5, 0, 0, 3, 2>> \o Socks!Filler(4)
      \/ b = <<5, 1, 0, 1>> \o Socks!Filler(6) \/ b = <<5, 0, 0, 2>> \o Socks!Filler(6)
  <2>1. Socks!Replies("connect5") = {<<5, 0, 0, 1>> \o Socks!Filler(6), <<5, 0, 0, 4>> \o Socks!Filler(18),
                                  <<5, 0, 0, 3, 0>> \o Socks!Filler(2), <<5, 0, 0, 3, 2>> \o Socks!Filler(4),
                                  <<5, 1, 0, 1>> \o Socks!Filler(6), <<5, 0, 0, 2>> \o Socks!Filler(6)}
    BY SMT DEF Socks!Replies
  <2>. QED  BY <2>1, Zenon
<1>4. CASE b = <<5, 0, 0, 3, 0>> \o Socks!Filler(2)
  <2>1. b = <<5, 0, 0, 3, 0>> \o Socks!Filler(2 + 0)
    BY <1>4
  <2>. QED  BY <1>2, <2>1
<1>5. CASE b = <<5, 0, 0, 3, 2>> \o Socks!Filler(4)
  <2>1. b = <<5, 0, 0, 3, 2>> \o Socks!Filler(2 + 2)
    BY <1>5
  <2>. QED  BY <1>2, <2>1
<1>6. CASE b = <<5, 0, 0, 1>> \o Socks!Filler(6)
  BY <1>1, <1>6
<1>7. CASE b = <<5, 0, 0, 4>> \o Socks!Filler(18)
  BY <1>1, <1>7
<1>8. CASE b = <<5, 1, 0, 1>> \o Socks!Filler(6)
  BY <1>1, <1>8
<1>9. CASE b = <<5, 0, 0, 2>> \o Socks!Filler(6)
  BY <1>1, <1>9
<1>. QED  BY <1>3, <1>4, <1>5, <1>6, <1>7, <1>8, <1>9

\* The proxy answers, and the target's first byte may follow.
LEMMA AnswerKeeps ==
  ASSUME SocksInv, Socks!answer
  PROVE  SocksInv'
<1>0. SocksTyped /\ Negotiating /\ Connecting /\ Addressing /\ TunnelLast /\ WatcherReports
  BY DEF SocksInv
<1>1. /\ proxy \in {"greeted", "auth", "connect4", "connect5"}
      /\ UNCHANGED <<dialer, phase, want, socksCtx, watcher, errCh, deadline, result>>
  BY DEF Socks!answer
<1>2. PICK b \in Socks!Replies(proxy), early \in BOOLEAN :
         /\ early => Socks!Grants(proxy, b)
         /\ input' = input \o b \o (IF early THEN <<Socks!Tunnel>> ELSE <<>>)
         /\ proxy' = IF early THEN "tunnel" ELSE IF Socks!Grants(proxy, b) THEN "granted" ELSE "answered"
  BY DEF Socks!answer
<1>3. b \in Seq(Nat) /\ Len(b) >= 2
  <2>1. CASE proxy \in {"greeted", "auth"}
    <3>1. b \in Seq(Nat) /\ Len(b) = 2
      BY <2>1, SocksReplies2
    <3>. QED  BY <3>1
  <2>2. CASE proxy = "connect4"
    <3>1. b \in Socks!Replies("connect4")
      BY <1>2, <2>2
    <3>2. b \in Seq(Nat) /\ Len(b) = 8
      BY <3>1, SocksReplies4
    <3>. QED  BY <3>2
  <2>3. CASE proxy = "connect5"
    <3>1. b \in Socks!Replies("connect5")
      BY <1>2, <2>3
    <3>2. Reply5OK(b)
      BY <3>1, SocksReplies5
    <3>. QED  BY <3>2 DEF Reply5OK
  <2>. QED  BY <1>1, <2>1, <2>2, <2>3
<1>4. phase \in {"method", "authReply", "reply4", "reply5"} => input = <<>>
  BY <1>0, <1>1 DEF SocksTyped, Negotiating, Connecting, Answered
<1>. DEFINE t == IF early THEN <<Socks!Tunnel>> ELSE <<>>
<1>5. t \in Seq(Nat) /\ Len(t) = (IF early THEN 1 ELSE 0) /\ (early => t[1] = Socks!Tunnel)
  <2>1. <<Socks!Tunnel>> \in Seq(Nat) /\ Len(<<Socks!Tunnel>>) = 1 /\ <<Socks!Tunnel>>[1] = Socks!Tunnel
    BY DEF Socks!Tunnel
  <2>2. <<>> \in Seq(Nat) /\ Len(<<>>) = 0
    OBVIOUS
  <2>. QED  BY <2>1, <2>2
<1>6. input' = (input \o b) \o t
  BY <1>2
<1>. HIDE DEF t
<1>7. input' \in Seq(Nat) /\ SocksTyped'
  <2>1. input \in Seq(Nat)
    BY <1>0 DEF SocksTyped
  <2>2. input \o b \in Seq(Nat)
    BY <1>3, <2>1, ConcatNat
  <2>3. input' \in Seq(Nat)
    BY <1>5, <1>6, <2>2, ConcatNat
  <2>. QED  BY <1>0, <1>1, <2>3 DEF SocksTyped
<1>8. WatcherReports'
  BY <1>0, <1>1 DEF WatcherReports
<1>9. proxy' = (IF early THEN "tunnel" ELSE IF Socks!Grants(proxy, b) THEN "granted" ELSE "answered")
  BY <1>2
<1>10. TunnelLast'
  <2>1. CASE early
    <3>1. input \in Seq(Nat) /\ input \o b \in Seq(Nat)
      BY <1>0, <1>3, ConcatNat DEF SocksTyped
    <3>. DEFINE u == input \o b
    <3>2. u \in Seq(Nat) /\ input' = u \o t
      BY <1>6, <3>1
    <3>. HIDE DEF u
    <3>3. Len(input') = Len(u) + 1 /\ input'[Len(u) + 1] = t[1] /\ Len(u) \in Nat
      <4>1. Len(t) = 1
        BY <1>5, <2>1
      <4>2. Len(u \o t) = Len(u) + Len(t) /\ \A i \in 1 .. Len(t) : (u \o t)[Len(u) + i] = t[i]
        BY <1>5, <3>2, ConcatNat
      <4>. QED  BY <3>2, <4>1, <4>2
    <3>. QED  BY <1>5, <2>1, <3>3 DEF TunnelLast
  <2>2. CASE ~early
    BY <1>9, <2>2 DEF TunnelLast
  <2>. QED  BY <2>1, <2>2
<1>11. CASE input = <<>>
  <2>1. /\ Len(input') = Len(b) + (IF early THEN 1 ELSE 0)
        /\ \A i \in 1 .. Len(b) : input'[i] = b[i]
    <3>1. input \o b = b
      BY <1>3, <1>11
    <3>2. input' = b \o t
      BY <1>6, <3>1
    <3>3. Len(b \o t) = Len(b) + Len(t) /\ \A i \in 1 .. Len(b) : (b \o t)[i] = b[i]
      BY <1>3, <1>5, ConcatNat
    <3>. QED  BY <1>5, <3>2, <3>3
  <2>2. Extra' = (IF early THEN 1 ELSE 0)
    BY <1>9 DEF Extra
  <2>3. CASE proxy \in {"greeted", "auth"}
    <3>1. Len(b) = 2 /\ ~Socks!Grants(proxy, b) /\ ~early
      BY <1>2, <2>3, SocksReplies2
    <3>2. proxy' = "answered" /\ Len(input') = 2
      BY <1>9, <2>1, <3>1
    <3>3. phase \notin {"start", "request", "reply4", "reply5", "nameLen", "address"}
      BY <1>0, <2>3 DEF Negotiating, Connecting, Addressing, Answered
    <3>4. ~(phase \in {"deferred", "await", "returned"} /\ result.err = "nil")
      BY <1>0, <2>3 DEF Addressing, Answered
    <3>5. Negotiating' /\ Connecting' /\ Addressing'
      BY <1>0, <1>1, <3>2, <3>3, <3>4 DEF Negotiating, Connecting, Addressing
    <3>. QED  BY <1>7, <1>8, <1>10, <3>5 DEF SocksInv
  <2>4. CASE proxy = "connect4"
    <3>1. Len(b) = 8 /\ (Socks!Grants(proxy, b) <=> Granted4(b))
      BY <1>2, <2>4, SocksReplies4
    <3>2. Len(input') = 8 + Extra' /\ (Granted4(input') <=> Granted4(b))
      <4>1. input'[1] = b[1] /\ input'[2] = b[2]
        BY <2>1, <3>1
      <4>. QED  BY <2>1, <2>2, <3>1, <4>1 DEF Granted4
    <3>3. phase \notin {"start", "request", "method", "authReply", "reply5", "nameLen", "address"}
      BY <1>0, <2>4 DEF Negotiating, Connecting, Addressing, Answered
    <3>4. ~(phase \in {"deferred", "await", "returned"} /\ result.err = "nil")
      BY <1>0, <2>4 DEF Addressing, Answered
    <3>5. Negotiating' /\ Addressing'
      BY <1>1, <3>3, <3>4 DEF Negotiating, Addressing
    <3>6. proxy' = "answered" => ~Granted4(input')
      BY <1>2, <1>9, <3>1, <3>2
    <3>7. Connecting'
      BY <1>0, <1>1, <1>9, <3>2, <3>3, <3>6 DEF Connecting, Answered
    <3>. QED  BY <1>7, <1>8, <1>10, <3>5, <3>7 DEF SocksInv
  <2>5. CASE proxy = "connect5"
    <3>1. Reply5OK(b)
      BY <1>2, <2>5, SocksReplies5
    <3>2. Len(b) >= 4 /\ (Socks!Grants(proxy, b) <=> Granted5(b)) /\ (Granted5(b) => Len(b) = ReplyLen(b))
          /\ (Granted5(b) /\ b[4] = 3 => Len(b) >= 5)
      BY <2>5, <3>1 DEF Reply5OK
    <3>3. input'[1] = b[1] /\ input'[2] = b[2] /\ input'[3] = b[3] /\ input'[4] = b[4]
      BY <1>3, <2>1, <3>2
    <3>4. Granted5(input') <=> Granted5(b)
      BY <3>3 DEF Granted5
    <3>5. Granted5(b) => ReplyLen(input') = Len(b) /\ (b[4] = 3 => input'[5] \in Nat)
      <4>1. CASE b[4] = 3 /\ Granted5(b)
        <5>1. 5 \in 1 .. Len(b)
          BY <1>3, <3>2, <4>1
        <5>2. input'[5] = b[5] /\ b[5] \in Nat
          BY <1>3, <2>1, <5>1
        <5>. QED  BY <3>2, <3>3, <4>1, <5>2 DEF ReplyLen
      <4>2. CASE b[4] # 3 /\ Granted5(b)
        <5>1. b[4] = 1 \/ b[4] = 4
          BY <4>2 DEF Granted5
        <5>. QED  BY <3>2, <3>3, <4>2, <5>1 DEF ReplyLen
      <4>. QED  BY <4>1, <4>2
    <3>6. phase \notin {"start", "request", "method", "authReply", "reply4", "nameLen", "address"}
      BY <1>0, <2>5 DEF Negotiating, Connecting, Addressing, Answered
    <3>7. ~(phase \in {"deferred", "await", "returned"} /\ result.err = "nil")
      BY <1>0, <2>5 DEF Addressing, Answered
    <3>8. Negotiating' /\ Addressing'
      BY <1>1, <3>6, <3>7 DEF Negotiating, Addressing
    <3>9. Len(input') >= 4 /\ (Granted5(input') => Len(input') = ReplyLen(input') + Extra')
      BY <1>3, <2>1, <2>2, <3>2, <3>4, <3>5
    <3>10. /\ proxy' = "answered" => ~Granted5(input')
           /\ proxy' \in {"granted", "tunnel"} => Granted5(input')
      BY <1>2, <1>9, <3>2, <3>4
    <3>11. Granted5(input') /\ input'[4] = 3 => input'[5] \in Nat
      BY <3>3, <3>4, <3>5
    <3>12. Connecting'
      BY <1>0, <1>1, <1>9, <3>6, <3>9, <3>10, <3>11 DEF Connecting, Answered
    <3>. QED  BY <1>7, <1>8, <1>10, <3>8, <3>12 DEF SocksInv
  <2>. QED  BY <1>1, <2>3, <2>4, <2>5
<1>12. CASE phase \notin {"method", "authReply", "reply4", "reply5"}
  <2>1. phase \notin {"start", "request", "nameLen", "address"}
    BY <1>0, <1>1 DEF Negotiating, Addressing, Answered
  <2>2. ~(phase \in {"deferred", "await", "returned"} /\ result.err = "nil")
    BY <1>0, <1>1 DEF Addressing, Answered
  <2>3. Negotiating' /\ Connecting' /\ Addressing'
    BY <1>1, <1>12, <2>1, <2>2 DEF Negotiating, Connecting, Addressing
  <2>. QED  BY <1>7, <1>8, <1>10, <2>3 DEF SocksInv
<1>. QED  BY <1>4, <1>11, <1>12

\* The target sends its first byte, or the proxy hangs up.
LEMMA ProxyKeeps ==
  ASSUME SocksInv, Socks!tunnel \/ Socks!hangUp
  PROVE  SocksInv'
<1>0. SocksTyped /\ Negotiating /\ Connecting /\ Addressing /\ TunnelLast /\ WatcherReports
  BY DEF SocksInv
<1>1. UNCHANGED <<dialer, phase, want, socksCtx, watcher, errCh, deadline, result>>
  BY DEF Socks!tunnel, Socks!hangUp
<1>2. WatcherReports'
  BY <1>0, <1>1 DEF WatcherReports
<1>3. CASE Socks!tunnel
  <2>1. proxy = "granted" /\ proxy' = "tunnel" /\ input' = Append(input, Socks!Tunnel)
    BY <1>3 DEF Socks!tunnel
  <2>2. input \in Seq(Nat) /\ Socks!Tunnel \in Nat
    BY <1>0 DEF SocksTyped, Socks!Tunnel
  <2>3. /\ input' \in Seq(Nat) /\ Len(input') = Len(input) + 1 /\ input'[Len(input) + 1] = Socks!Tunnel
        /\ Len(input) \in Nat /\ \A i \in 1 .. Len(input) : input'[i] = input[i]
    BY <2>1, <2>2
  <2>4. SocksTyped' /\ TunnelLast'
    BY <1>0, <1>1, <2>1, <2>3 DEF SocksTyped, TunnelLast
  <2>5. Extra = 0 /\ Extra' = 1
    BY <2>1 DEF Extra
  <2>6. Negotiating'
    BY <1>0, <1>1, <2>1 DEF Negotiating
  <2>7. Connecting'
    <3>1. CASE phase = "reply4"
      <4>1. want = 8 /\ Len(input) = 8 + Extra
        BY <1>0, <2>1, <3>1 DEF Connecting
      <4>2. Len(input') = 8 + Extra' /\ want' = 8 /\ Extra' \in Nat
        BY <1>1, <2>3, <2>5, <4>1
      <4>. QED  BY <1>1, <2>1, <2>5, <3>1, <4>2 DEF Connecting, Answered
    <3>2. CASE phase = "reply5"
      <4>1. /\ want = 4 /\ Len(input) >= 4 /\ Granted5(input) /\ Len(input) = ReplyLen(input) + Extra
            /\ input[4] = 3 => input[5] \in Nat
        BY <1>0, <2>1, <3>2 DEF Connecting
      <4>2. input'[1] = input[1] /\ input'[2] = input[2] /\ input'[3] = input[3] /\ input'[4] = input[4]
        BY <2>3, <4>1
      <4>3. Granted5(input')
        BY <4>1, <4>2 DEF Granted5
      <4>4. ReplyLen(input') = Len(input) /\ (input'[4] = 3 => input'[5] \in Nat)
        <5>1. CASE input[4] = 3
          <6>1. Len(input) = 7 + input[5] /\ input[5] \in Nat
            BY <2>5, <4>1, <5>1 DEF ReplyLen
          <6>2. 5 \in 1 .. Len(input)
            BY <2>3, <6>1
          <6>3. input'[5] = input[5]
            BY <2>3, <6>2
          <6>. QED  BY <4>2, <5>1, <6>1, <6>3 DEF ReplyLen
        <5>2. CASE input[4] # 3
          <6>1. input[4] = 1 \/ input[4] = 4
            BY <4>1, <5>2 DEF Granted5
          <6>2. Len(input) = ReplyLen(input)
            BY <2>5, <4>1, <6>1 DEF ReplyLen
          <6>. QED  BY <4>2, <5>2, <6>1, <6>2 DEF ReplyLen
        <5>. QED  BY <5>1, <5>2
      <4>. QED  BY <1>1, <2>1, <2>3, <2>5, <3>2, <4>1, <4>3, <4>4, SMTT(30) DEF Connecting, Answered
    <3>3. CASE phase \notin {"reply4", "reply5"}
      BY <1>1, <3>3 DEF Connecting
    <3>. QED  BY <3>1, <3>2, <3>3
  <2>8. Addressing'
    <3>1. phase = "nameLen" => input[1] = input'[1] /\ input[1] \in Nat /\ Len(input) = 3 + input[1]
      <4>. SUFFICES ASSUME phase = "nameLen"
                    PROVE  input[1] = input'[1] /\ input[1] \in Nat /\ Len(input) = 3 + input[1]
        OBVIOUS
      <4>1. Len(input) = 3 + input[1] + Extra
        BY <1>0 DEF Addressing
      <4>2. Len(input) >= 1
        BY <1>0 DEF Addressing
      <4>3. 1 \in 1 .. Len(input)
        BY <2>3, <4>2
      <4>4. input[1] \in Nat /\ input'[1] = input[1]
        BY <2>2, <2>3, <4>3
      <4>. QED  BY <2>5, <4>1, <4>4
    <3>. QED  BY <1>0, <1>1, <2>1, <2>3, <2>5, <3>1 DEF Addressing, Answered, SocksTyped
  <2>. QED  BY <1>2, <2>4, <2>6, <2>7, <2>8 DEF SocksInv
<1>4. CASE Socks!hangUp
  <2>1. proxy \notin {"new", "gone", "tunnel"} /\ proxy' = "gone" /\ UNCHANGED input
    BY <1>4 DEF Socks!hangUp
  <2>2. Extra = 0 /\ Extra' = 0
    BY <2>1 DEF Extra
  <2>3. SocksTyped' /\ TunnelLast' /\ Negotiating'
    BY <1>0, <1>1, <2>1 DEF SocksTyped, TunnelLast, Negotiating
  <2>4. Connecting' /\ Addressing'
    BY <1>0, <1>1, <2>1, <2>2 DEF Connecting, Addressing, Answered
  <2>. QED  BY <1>2, <2>3, <2>4 DEF SocksInv
<1>. QED  BY <1>3, <1>4

LEMMA SocksStep == ASSUME SocksInv, [Socks!Next]_Socks!socksVars PROVE SocksInv'
<1>1. CASE Socks!Next
  BY <1>1, NegotiationKeeps, RepliesReadKeep, ReturnsKeep, AnswerKeeps, ProxyKeeps DEF Socks!Next
<1>2. CASE UNCHANGED Socks!socksVars
  BY <1>2 DEF Socks!socksVars, SocksInv, SocksTyped, Negotiating, Connecting, Addressing, TunnelLast, WatcherReports, Extra
<1>. QED  BY <1>1, <1>2

LEMMA SocksSafe == SocksInv => Socks!CleanHandover
<1>. SUFFICES ASSUME SocksInv, phase = "returned" PROVE Socks!CleanHandover
  BY DEF Socks!CleanHandover
<1>1. result.err = "nil" => /\ result.open /\ deadline = "none" /\ watcher # "run"
  BY DEF SocksInv, WatcherReports
<1>2. result.err # "nil" => ~result.open
  BY DEF SocksInv, WatcherReports
<1>3. ASSUME result.err = "nil"
      PROVE  input \in {<<>>, <<Socks!Tunnel>>} /\ (proxy = "tunnel" => input = <<Socks!Tunnel>>)
  <2>1. Len(input) = Extra /\ input \in Seq(Nat) /\ TunnelLast
    BY <1>3 DEF SocksInv, Addressing, SocksTyped
  <2>2. CASE proxy = "tunnel"
    <3>1. Len(input) = 1 /\ input[1] = Socks!Tunnel
      BY <2>1, <2>2 DEF TunnelLast, Extra
    <3>2. input = <<Socks!Tunnel>>
      BY <2>1, <3>1
    <3>. QED  BY <3>2
  <2>3. CASE proxy # "tunnel"
    <3>1. Len(input) = 0
      BY <2>1, <2>3 DEF Extra
    <3>2. input = <<>>
      BY <2>1, <3>1
    <3>. QED  BY <2>3, <3>2
  <2>. QED  BY <2>2, <2>3
<1>. QED  BY <1>1, <1>2, <1>3 DEF Socks!CleanHandover

\* socks.Dialer, for any configurations and every proxy whose replies are well
\* formed: the handshake's bytes are all read and none after them, no deadline and
\* no goroutine is left, and a failed connection is closed.
THEOREM SocksHandsOver == Spec => []CleanHandover
<1>. DEFINE I == part = "socks" => SocksInv
<1>1. Init => I
  BY SocksInit, SocksAssumption DEF Init
<1>2. I /\ [Next]_all => I'
  <2>. SUFFICES ASSUME I, [Next]_all, part' = "socks" PROVE SocksInv'
    OBVIOUS
  <2>1. part = "socks" /\ [Socks!Next]_(Socks!socksVars)
    BY DEF Next, all, Socks!socksVars
  <2>. QED  BY <2>1, SocksStep, SocksAssumption
<1>3. I => CleanHandover
  BY SocksSafe DEF CleanHandover
<1>. QED  BY <1>1, <1>2, <1>3, PTL DEF Spec

-----------------------------------------------------------------------------
(* http3.Conn: which request streams are in c.streams, and who wakes a     *)
(* ReceiveDatagram.                                                        *)

\* The variables of H3Stream in the composition.
henv    == v1
hconn   == v2
str     == v3
hcancel == v4
dgram   == v5
USE DEF henv, hconn, str, hcancel, dgram

StreamFields == {"pc", "id", "send", "recv", "snd", "hdr", "answer", "rest", "canceler", "sender",
                 "sent", "reqDone", "once", "n1xx", "rd", "remain", "trailer", "left", "violated",
                 "got", "told"}
ConnFields == {"up", "control", "next", "streams", "lastStreamID", "maxStreamID", "cut"}
DatagramFields == {"queue", "hasData", "at"}

\* roundTrip has no stateTrackingStream yet.
Unregistered == {"start", "open", "unusable", "register"}

\* The stream s of r, with its datagrams d, on the connection k: it is in
\* k.streams from its registration until both sides are closed; before that
\* nobody reads from it and none of its goroutines runs, so that only the send
\* side can be closed; and who waits for a datagram is woken.
StreamOK(s, k, d, r) ==
    /\ r \in k.streams <=> s.pc \notin Unregistered /\ (~s.send \/ s.recv = "nil")
    /\ s.pc \in Unregistered =>
          s.recv = "nil" /\ s.canceler = "none" /\ s.sender = "none" /\ s.rd = "idle"
    /\ d.at = "wait" /\ (d.queue > 0 \/ s.recv # "nil") => d.hasData

\* After GOAWAY the connection outlives its last stream only until it is closed.
Drained(k) == k.maxStreamID # H3Stream!Invalid /\ k.streams = {} /\ k.control # "closing" => ~k.up

H3StreamInv ==
    /\ henv.calls \subseteq H3Calls
    /\ DOMAIN str = H3Calls /\ DOMAIN dgram = H3Calls /\ DOMAIN hconn = ConnFields
    /\ \A r \in H3Calls : /\ DOMAIN str[r] = StreamFields /\ DOMAIN dgram[r] = DatagramFields
                          /\ StreamOK(str[r], hconn, dgram[r], r)
    /\ Drained(hconn) /\ hconn.cut = {}

LEMMA H3StreamInit == H3StreamConstants /\ H3Stream!Init => H3StreamInv
BY DEF H3StreamConstants, H3Stream!Init, H3Stream!NewH3Stream, H3StreamInv, StreamFields, ConnFields, DatagramFields,
       StreamOK, Unregistered, Drained

LEMMA H3StreamSafe == H3StreamInv => H3Stream!StreamsTracked
BY DEF H3StreamInv, StreamOK, Unregistered, Drained, H3Stream!StreamsTracked, H3Stream!Opened, H3Stream!InUse

\* What k.streams names of the others is what they use.
LEMMA UsedKnown == ASSUME H3StreamInv PROVE H3Stream!InUse = hconn.streams \cap H3Calls
BY DEF H3StreamInv, StreamOK, Unregistered, H3Stream!InUse, H3Stream!Opened

\* A step of r on its registered stream: x is what the step makes of the stream,
\* the connection and the datagrams, and the other streams stay where they are.
Sound(x, r) ==
    /\ DOMAIN x = {"s", "k", "d"} /\ DOMAIN x.s = StreamFields /\ DOMAIN x.k = ConnFields
    /\ DOMAIN x.d = DatagramFields
    /\ x.s.pc \notin Unregistered
    /\ StreamOK(x.s, x.k, x.d, r) /\ Drained(x.k)
    /\ \A q \in H3Calls : q # r => (q \in x.k.streams <=> q \in hconn.streams)
    /\ x.k.cut = {}

LEMMA SoundStart ==
  ASSUME H3StreamInv, NEW r \in H3Calls, str[r].pc \notin Unregistered
  PROVE  Sound(H3Stream!At(r), r)
BY DEF H3StreamInv, Sound, H3Stream!At

LEMMA SoundEnd ==
  ASSUME H3StreamInv, NEW r \in H3Calls, NEW x, Sound(x, r), H3Stream!Becomes(r, x), UNCHANGED henv
  PROVE  H3StreamInv'
<1>1. DOMAIN str' = H3Calls /\ DOMAIN dgram' = H3Calls /\ hconn' = x.k
  BY DEF H3StreamInv, H3Stream!Becomes
<1>2. str'[r] = x.s /\ dgram'[r] = x.d
  BY DEF H3StreamInv, H3Stream!Becomes
<1>3. \A q \in H3Calls : q # r => str'[q] = str[q] /\ dgram'[q] = dgram[q]
  BY DEF H3StreamInv, H3Stream!Becomes
<1>4. ASSUME NEW q \in H3Calls, q # r
      PROVE  DOMAIN str'[q] = StreamFields /\ DOMAIN dgram'[q] = DatagramFields
             /\ StreamOK(str'[q], hconn', dgram'[q], q)
  BY <1>1, <1>3, <1>4 DEF H3StreamInv, Sound, StreamOK
<1>5. henv'.calls \subseteq H3Calls
  BY DEF H3StreamInv
<1>. QED  BY <1>1, <1>2, <1>4, <1>5 DEF H3StreamInv, Sound

\* What a step changes besides: anything but the two sides, the set of streams
\* and the datagrams; it may close the connection.
Edits(x, y) ==
    /\ DOMAIN y = {"s", "k", "d"} /\ DOMAIN y.s = StreamFields /\ DOMAIN y.k = ConnFields /\ y.d = x.d
    /\ y.s.pc \notin Unregistered /\ (y.s.send <=> x.s.send) /\ y.s.recv = x.s.recv
    /\ y.k.streams = x.k.streams /\ y.k.maxStreamID = x.k.maxStreamID /\ y.k.control = x.k.control
    /\ (y.k.up => x.k.up) /\ y.k.cut = x.k.cut

LEMMA SoundEdit ==
  ASSUME NEW r, NEW x, NEW y, Sound(x, r), Edits(x, y) PROVE Sound(y, r)
BY DEF Sound, Edits, StreamOK, Drained

\* A stream is cleared: the connection is closed only when nobody else uses it.
LEMMA SoundClear ==
  ASSUME H3StreamInv, NEW r \in H3Calls, NEW x, Sound(x, r)
  PROVE  LET k == H3Stream!clearStream(x.k, r) IN
         /\ DOMAIN k = ConnFields /\ k.streams = x.k.streams \ {r} /\ k.cut = {}
         /\ k.maxStreamID = x.k.maxStreamID /\ k.control = x.k.control
         /\ k.up <=> x.k.up /\ (x.k.maxStreamID = H3Stream!Invalid \/ k.streams # {})
<1>. DEFINE left == x.k.streams \ {r}
            drained == x.k.maxStreamID # H3Stream!Invalid /\ left = {}
            up == x.k.up /\ ~drained
            cut == IF drained THEN x.k.cut \cup (H3Stream!InUse \ {r}) ELSE x.k.cut
<1>1. H3Stream!clearStream(x.k, r) = [x.k EXCEPT !.streams = left, !.up = up, !.cut = cut]
  BY DEF H3Stream!clearStream
<1>2. left = {} => H3Stream!InUse \ {r} = {}
  BY UsedKnown DEF Sound
<1>3. cut = {}
  BY <1>2 DEF Sound
<1>. HIDE DEF cut
<1>4. DOMAIN x.k = ConnFields
  BY DEF Sound
<1>. QED  BY <1>1, <1>3, <1>4 DEF ConnFields

\* The connection k after the stream of r was cleared, if it was.
Cleared(k0, k, r, was) ==
    /\ DOMAIN k = ConnFields /\ k.streams = (IF was THEN k0.streams \ {r} ELSE k0.streams) /\ k.cut = {}
    /\ k.maxStreamID = k0.maxStreamID /\ k.control = k0.control
    /\ k.up <=> k0.up /\ (~was \/ k0.maxStreamID = H3Stream!Invalid \/ k.streams # {})

LEMMA SoundCloseSend ==
  ASSUME H3StreamInv, NEW r \in H3Calls, NEW x, Sound(x, r)
  PROVE  Sound(H3Stream!closeSend(x, r), r) /\ H3Stream!closeSend(x, r).s.pc = x.s.pc
<1>. DEFINE k == IF x.s.recv # "nil" THEN H3Stream!clearStream(x.k, r) ELSE x.k
            y == [x EXCEPT !.s.send = TRUE, !.k = k]
<1>1. H3Stream!closeSend(x, r) = IF x.s.send THEN x ELSE y
  BY DEF H3Stream!closeSend
<1>2. Cleared(x.k, k, r, x.s.recv # "nil")
  BY SoundClear DEF Cleared, Sound
<1>. HIDE DEF k
<1>3. /\ DOMAIN y = DOMAIN x /\ DOMAIN y.s = DOMAIN x.s /\ y.k = k /\ y.d = x.d
      /\ y.s.send = TRUE /\ y.s.pc = x.s.pc /\ y.s.recv = x.s.recv
  BY DEF Sound, StreamFields
<1>. HIDE DEF y
<1>4. CASE ~x.s.send
  BY <1>1, <1>2, <1>3, <1>4 DEF Sound, StreamOK, Drained, Cleared
<1>. QED  BY <1>1, <1>4

LEMMA SoundCloseReceive ==
  ASSUME H3StreamInv, NEW r \in H3Calls, NEW x, Sound(x, r), NEW e, e # "nil"
  PROVE  Sound(H3Stream!closeReceive(x, r, e), r) /\ H3Stream!closeReceive(x, r, e).s.pc = x.s.pc
<1>. DEFINE k == IF x.s.send THEN H3Stream!clearStream(x.k, r) ELSE x.k
            y == [x EXCEPT !.s.recv = e, !.k = k, !.d.hasData = TRUE]
<1>1. H3Stream!closeReceive(x, r, e) = IF x.s.recv # "nil" THEN x ELSE y
  BY DEF H3Stream!closeReceive
<1>2. Cleared(x.k, k, r, x.s.send)
  BY SoundClear DEF Cleared, Sound
<1>. HIDE DEF k
<1>3. /\ DOMAIN y = DOMAIN x /\ DOMAIN y.s = DOMAIN x.s /\ y.k = k /\ DOMAIN y.d = DOMAIN x.d
      /\ y.s.recv = e /\ y.s.pc = x.s.pc /\ y.s.send = x.s.send /\ y.d.hasData = TRUE
  BY DEF Sound, StreamFields, DatagramFields
<1>. HIDE DEF y
<1>4. CASE x.s.recv = "nil"
  BY <1>1, <1>2, <1>3, <1>4 DEF Sound, StreamOK, Drained, Cleared
<1>. QED  BY <1>1, <1>4

LEMMA SoundReset ==
  ASSUME H3StreamInv, NEW r \in H3Calls, NEW x, Sound(x, r)
  PROVE  /\ Sound(H3Stream!CancelRead(x, r), r)
         /\ Sound(H3Stream!CancelWrite(x, r), r)
         /\ Sound(H3Stream!Close(x, r), r)
         /\ Sound(H3Stream!CancelBoth(x, r), r)
<1>1. ASSUME NEW y, Sound(y, r) PROVE Sound(H3Stream!CancelWrite(y, r), r) /\ Sound(H3Stream!Close(y, r), r)
  <2>. DEFINE z == H3Stream!closeSend(y, r)
              v == [z EXCEPT !.s.snd = IF @ = "open" THEN "reset" ELSE @]
              w == [z EXCEPT !.s.snd = IF @ = "open" THEN "fin" ELSE @]
  <2>1. Sound(z, r)
    BY <1>1, SoundCloseSend
  <2>2. H3Stream!CancelWrite(y, r) = v /\ H3Stream!Close(y, r) = w
    BY DEF H3Stream!CancelWrite, H3Stream!Close
  <2>. HIDE DEF z
  <2>3. Edits(z, v) /\ Edits(z, w)
    BY <2>1 DEF Edits, Sound, StreamFields
  <2>. HIDE DEF v, w
  <2>. QED  BY <2>1, <2>2, <2>3, SoundEdit
<1>2. Sound(H3Stream!CancelRead(x, r), r)
  BY SoundCloseReceive DEF H3Stream!CancelRead
<1>. QED  BY <1>1, <1>2 DEF H3Stream!CancelBoth

LEMMA SoundRead ==
  ASSUME H3StreamInv, NEW r \in H3Calls, NEW x, Sound(x, r)
  PROVE  /\ Edits(x, H3Stream!Next1(x)) /\ Edits(x, H3Stream!requestDone(x))
         /\ \A e : Edits(x, H3Stream!ReadEnds(x, e)) /\ Sound(H3Stream!ReadEnds(x, e), r)
         /\ Sound(H3Stream!Next1(x), r) /\ Sound(H3Stream!requestDone(x), r) /\ Sound(H3Stream!tooMuchData(x, r), r)
<1>1. Edits(x, H3Stream!Next1(x)) /\ Edits(x, H3Stream!requestDone(x))
  BY DEF Edits, Sound, StreamFields, H3Stream!Next1, H3Stream!requestDone
<1>2. ASSUME NEW y, NEW e, Sound(y, r) PROVE Edits(y, H3Stream!ReadEnds(y, e)) /\ Sound(H3Stream!ReadEnds(y, e), r)
  <2>1. Edits(y, H3Stream!ReadEnds(y, e))
    BY <1>2 DEF Edits, Sound, StreamFields, H3Stream!ReadEnds, H3Stream!requestDone
  <2>. QED  BY <1>2, <2>1, SoundEdit
<1>3. Sound(H3Stream!tooMuchData(x, r), r)
  <2>. DEFINE y == IF x.s.violated THEN x ELSE H3Stream!CancelBoth(x, r)
              z == [y EXCEPT !.s.violated = TRUE]
  <2>1. Sound(y, r)
    BY SoundReset
  <2>2. H3Stream!tooMuchData(x, r) = H3Stream!ReadEnds(z, "tooMuch")
    BY DEF H3Stream!tooMuchData
  <2>. HIDE DEF y
  <2>3. Edits(y, z)
    BY <2>1 DEF Edits, Sound, StreamFields
  <2>. HIDE DEF z
  <2>. QED  BY <1>2, <2>1, <2>2, <2>3, SoundEdit
<1>. QED  BY <1>1, <1>2, <1>3, SoundEdit

-----------------------------------------------------------------------------
\* The steps before a stream is registered.

\* Stages of r that leave the connection's streams alone.
LEMMA StagesKeep ==
  ASSUME H3StreamInv, NEW r \in H3Calls, UNCHANGED henv,
         DOMAIN dgram' = H3Calls, \A q \in H3Calls : dgram'[q] = dgram[q],
         DOMAIN str' = H3Calls, DOMAIN str'[r] = StreamFields, DOMAIN hconn' = ConnFields,
         \A q \in H3Calls : q # r => str'[q] = str[q],
         hconn'.streams = hconn.streams, hconn'.maxStreamID = hconn.maxStreamID,
         hconn'.control = hconn.control, hconn'.up => hconn.up, hconn'.cut = hconn.cut,
         str'[r].recv = str[r].recv, str'[r].pc \in Unregistered <=> str[r].pc \in Unregistered,
         str[r].pc \notin Unregistered => (str'[r].send <=> str[r].send),
         str[r].pc \in Unregistered => UNCHANGED <<str[r].canceler, str[r].sender, str[r].rd>>
  PROVE  H3StreamInv'
<1>1. ASSUME NEW q \in H3Calls PROVE DOMAIN str'[q] = StreamFields /\ StreamOK(str'[q], hconn', dgram'[q], q)
  BY DEF H3StreamInv, StreamOK
<1>2. Drained(hconn') /\ hconn'.cut = {}
  BY DEF H3StreamInv, Drained
<1>. QED  BY <1>1, <1>2 DEF H3StreamInv

LEMMA openKeeps ==
  ASSUME H3StreamInv, NEW r \in H3Calls, H3Stream!checkGoAway(r) \/ H3Stream!OpenStreamSync(r)
  PROVE  H3StreamInv'
<1>. USE DEF H3StreamInv, StreamFields, ConnFields, Unregistered
<1>1. CASE H3Stream!checkGoAway(r)
  BY <1>1, StagesKeep DEF H3Stream!checkGoAway
<1>2. CASE H3Stream!OpenStreamSync(r)
  BY <1>2, StagesKeep DEF H3Stream!OpenStreamSync
<1>. QED  BY <1>1, <1>2

LEMMA registerKeeps ==
  ASSUME H3StreamInv, NEW r \in H3Calls, H3Stream!register(r) PROVE H3StreamInv'
<1>1. /\ DOMAIN str' = H3Calls /\ DOMAIN str'[r] = StreamFields /\ DOMAIN hconn' = ConnFields
      /\ str'[r].pc = "header" /\ str'[r].recv = "nil" /\ hconn'.streams = hconn.streams \cup {r}
  BY DEF H3StreamInv, StreamOK, StreamFields, ConnFields, Unregistered, H3Stream!register
<1>2. \A q \in H3Calls : q # r => str'[q] = str[q]
  BY DEF H3StreamInv, H3Stream!register
<1>3. /\ hconn'.maxStreamID = hconn.maxStreamID /\ hconn'.control = hconn.control /\ hconn'.cut = hconn.cut
      /\ hconn'.up = hconn.up /\ henv' = henv /\ dgram' = dgram
  BY DEF H3StreamInv, ConnFields, H3Stream!register
<1>4. ASSUME NEW q \in H3Calls PROVE DOMAIN str'[q] = StreamFields /\ StreamOK(str'[q], hconn', dgram'[q], q)
  <2>1. CASE q = r
    <3>1. dgram[r].at = "wait" /\ (dgram[r].queue > 0 \/ str'[r].recv # "nil") => dgram[r].hasData
      BY <1>1 DEF H3StreamInv, StreamOK
    <3>. QED  BY <1>1, <1>3, <2>1, <3>1 DEF StreamOK, Unregistered
  <2>2. CASE q # r
    BY <1>1, <1>2, <1>3, <2>2 DEF H3StreamInv, StreamOK
  <2>. QED  BY <2>1, <2>2
<1>5. Drained(hconn') /\ hconn'.cut = {}
  BY <1>1, <1>3 DEF Drained, H3StreamInv
<1>. QED  BY <1>1, <1>3, <1>4, <1>5 DEF H3StreamInv

\* The callback, which may come before the registration.
LEMMA afterFuncKeeps ==
  ASSUME H3StreamInv, NEW r \in H3Calls, H3Stream!afterFunc(r) PROVE H3StreamInv'
<1>1. CASE str[r].pc \notin Unregistered
  BY <1>1, SoundStart, SoundCloseSend, SoundEnd DEF H3Stream!afterFunc
<1>2. CASE str[r].pc \in Unregistered
  <2>1. str[r].recv = "nil" /\ ~str[r].send
    BY <1>2 DEF H3StreamInv, StreamOK, H3Stream!afterFunc
  <2>2. H3Stream!closeSend(H3Stream!At(r), r) = [H3Stream!At(r) EXCEPT !.s.send = TRUE, !.k = hconn]
    BY <2>1 DEF H3Stream!closeSend, H3Stream!At
  <2>3. hconn' = hconn /\ dgram' = [dgram EXCEPT ![r] = dgram[r]] /\ henv' = henv
        /\ str' = [str EXCEPT ![r] = [str[r] EXCEPT !.send = TRUE]]
    BY <2>2 DEF H3Stream!afterFunc, H3Stream!Becomes, H3Stream!At
  <2>4. DOMAIN dgram' = H3Calls /\ \A q \in H3Calls : dgram'[q] = dgram[q]
    BY <2>3 DEF H3StreamInv
  <2>. QED  BY <1>2, <2>3, <2>4, StagesKeep DEF H3StreamInv, StreamFields
<1>. QED  BY <1>1, <1>2

-----------------------------------------------------------------------------
\* The steps of the goroutines of a registered stream.

LEMMA callerKeeps ==
  ASSUME H3StreamInv, NEW r \in H3Calls, H3Stream!sendRequestHeader(r) \/ H3Stream!finish(r) \/ H3Stream!roundTripFails(r)
  PROVE  H3StreamInv'
<1>1. str[r].pc \notin Unregistered /\ Sound(H3Stream!At(r), r) /\ UNCHANGED henv
  <2>1. str[r].pc \notin Unregistered /\ UNCHANGED henv
    BY DEF Unregistered, H3Stream!sendRequestHeader, H3Stream!finish, H3Stream!roundTripFails
  <2>. QED  BY <2>1, SoundStart
<1>2. ASSUME NEW x, NEW y, Sound(x, r), y = [x EXCEPT !.s.pc = "response"], H3Stream!Becomes(r, y)
      PROVE  H3StreamInv'
  <2>1. Edits(x, y)
    BY <1>2 DEF Edits, Sound, StreamFields, Unregistered
  <2>. QED  BY <1>1, <1>2, <2>1, SoundEdit, SoundEnd
<1>3. CASE H3Stream!finish(r)
  BY <1>1, <1>2, <1>3, SoundReset DEF H3Stream!finish
<1>4. CASE ~H3Stream!Writable(r) /\ H3Stream!Becomes(r, [H3Stream!closeSend(H3Stream!At(r), r) EXCEPT !.s.pc = "response"])
  BY <1>1, <1>2, <1>4, SoundCloseSend
<1>5. CASE H3Stream!roundTripFails(r)
  BY <1>1, <1>5, StagesKeep DEF H3StreamInv, StreamFields, Unregistered, H3Stream!roundTripFails
<1>6. CASE /\ UNCHANGED <<hconn, dgram>>
           /\ \E p \in {"finish", "response"} : \E v :
                 str' = [str EXCEPT ![r].hdr = TRUE, ![r].pc = p, ![r].sender = v]
  BY <1>1, <1>6, StagesKeep DEF H3StreamInv, StreamFields, Unregistered
<1>7. CASE str' = [str EXCEPT ![r].pc = "response"] /\ UNCHANGED <<hconn, dgram>>
  BY <1>1, <1>7, StagesKeep DEF H3StreamInv, StreamFields, Unregistered
<1>. QED  BY <1>3, <1>4, <1>5, <1>6, <1>7 DEF H3Stream!sendRequestHeader

LEMMA cancelerKeeps ==
  ASSUME H3StreamInv, NEW r \in H3Calls, H3Stream!canceler(r) PROVE H3StreamInv'
<1>1. str[r].pc \notin Unregistered /\ Sound(H3Stream!At(r), r) /\ UNCHANGED henv
  <2>1. str[r].pc \notin Unregistered /\ UNCHANGED henv
    BY DEF H3StreamInv, StreamOK, H3Stream!canceler
  <2>. QED  BY <2>1, SoundStart
<1>2. ASSUME NEW x, NEW y, NEW v, Sound(x, r), y = [x EXCEPT !.s.canceler = v], H3Stream!Becomes(r, y)
      PROVE  H3StreamInv'
  <2>1. Edits(x, y)
    BY <1>2 DEF Edits, Sound, StreamFields
  <2>. QED  BY <1>1, <1>2, <2>1, SoundEdit, SoundEnd
<1>3. CASE H3Stream!Becomes(r, [H3Stream!CancelWrite(H3Stream!At(r), r) EXCEPT !.s.canceler = "cancelRead"])
  BY <1>1, <1>2, <1>3, SoundReset
<1>4. CASE H3Stream!Becomes(r, [H3Stream!CancelRead(H3Stream!At(r), r) EXCEPT !.s.canceler = "done"])
  BY <1>1, <1>2, <1>4, SoundReset
<1>5. CASE str' = [str EXCEPT ![r].canceler = "done"] /\ UNCHANGED <<hconn, dgram>>
  BY <1>1, <1>5, StagesKeep DEF H3StreamInv, StreamFields
<1>. QED  BY <1>3, <1>4, <1>5 DEF H3Stream!canceler

LEMMA sendRequestBodyKeeps ==
  ASSUME H3StreamInv, NEW r \in H3Calls, H3Stream!sendRequestBody(r) PROVE H3StreamInv'
<1>1. str[r].pc \notin Unregistered /\ Sound(H3Stream!At(r), r) /\ UNCHANGED henv
  <2>1. str[r].pc \notin Unregistered /\ UNCHANGED henv
    BY DEF H3StreamInv, StreamOK, H3Stream!sendRequestBody
  <2>. QED  BY <2>1, SoundStart
<1>2. ASSUME NEW x, NEW y, NEW v, Sound(x, r), y = [x EXCEPT !.s.sender = v], H3Stream!Becomes(r, y)
      PROVE  H3StreamInv'
  <2>1. Edits(x, y)
    BY <1>2 DEF Edits, Sound, StreamFields
  <2>. QED  BY <1>1, <1>2, <2>1, SoundEdit, SoundEnd
<1>3. CASE H3Stream!Becomes(r, [H3Stream!At(r) EXCEPT !.s.sent = @ + 1])
  <2>. DEFINE y == [H3Stream!At(r) EXCEPT !.s.sent = @ + 1]
  <2>1. Edits(H3Stream!At(r), y)
    BY <1>1 DEF Edits, Sound, StreamFields
  <2>. HIDE DEF y
  <2>2. Sound(y, r)
    BY <1>1, <2>1, SoundEdit
  <2>3. H3Stream!Becomes(r, y)
    BY <1>3 DEF y
  <2>. QED  BY <1>1, <2>2, <2>3, SoundEnd
<1>4. CASE H3Stream!Becomes(r, [H3Stream!closeSend(H3Stream!At(r), r) EXCEPT !.s.sender = "close"])
  BY <1>1, <1>2, <1>4, SoundCloseSend
<1>5. CASE H3Stream!Becomes(r, [H3Stream!CancelWrite(H3Stream!At(r), r) EXCEPT !.s.sender = "close"])
  BY <1>1, <1>2, <1>5, SoundReset
<1>6. CASE H3Stream!Becomes(r, [H3Stream!At(r) EXCEPT !.s.sender = "close"])
  BY <1>1, <1>2, <1>6
<1>7. CASE H3Stream!Becomes(r, [H3Stream!Close(H3Stream!At(r), r) EXCEPT !.s.sender = "done"])
  BY <1>1, <1>2, <1>7, SoundReset
<1>. QED  BY <1>3, <1>4, <1>5, <1>6, <1>7 DEF H3Stream!sendRequestBody, H3Stream!cancelingReader

LEMMA ReadResponseKeeps ==
  ASSUME H3StreamInv, NEW r \in H3Calls, H3Stream!ReadResponse(r) PROVE H3StreamInv'
<1>. DEFINE x == H3Stream!At(r)
            st == H3Stream!Status(r)
            n == H3Stream!Next1(x)
            fail(y) == [y EXCEPT !.s.pc = "failing"]
<1>1. str[r].pc \notin Unregistered /\ Sound(x, r) /\ UNCHANGED henv
  <2>1. str[r].pc \notin Unregistered /\ UNCHANGED henv
    BY DEF Unregistered, H3Stream!ReadResponse
  <2>. QED  BY <2>1, SoundStart
<1>2. Sound(n, r) /\ st # "nil"
  BY <1>1, SoundRead DEF H3Stream!Status
<1>. HIDE DEF x, st, n
<1>3. ASSUME NEW y, NEW z, Sound(y, r), z = fail(y), H3Stream!Becomes(r, z) PROVE H3StreamInv'
  <2>1. Edits(y, z)
    BY <1>3 DEF Edits, Sound, StreamFields, Unregistered
  <2>. QED  BY <1>1, <1>3, <2>1, SoundEdit, SoundEnd
<1>4. ASSUME NEW z, Edits(n, z), H3Stream!Becomes(r, z) PROVE H3StreamInv'
  BY <1>1, <1>2, <1>4, SoundEdit, SoundEnd
<1>5. CASE H3Stream!Becomes(r, fail(H3Stream!CancelBoth(H3Stream!closeReceive(x, r, st), r)))
  BY <1>1, <1>2, <1>3, <1>5, SoundCloseReceive, SoundReset
<1>6. CASE H3Stream!Becomes(r, n)
  BY <1>1, <1>2, <1>6, SoundEnd
<1>7. CASE H3Stream!Becomes(r, IF str[r].n1xx < Max1xx THEN [n EXCEPT !.s.n1xx = @ + 1]
                         ELSE fail(H3Stream!CancelBoth([n EXCEPT !.s.n1xx = @ + 1], r)))
  <2>. DEFINE y == [n EXCEPT !.s.n1xx = @ + 1]
  <2>1. Edits(n, y)
    BY <1>2 DEF Edits, Sound, StreamFields
  <2>2. H3Stream!Becomes(r, y) \/ H3Stream!Becomes(r, fail(H3Stream!CancelBoth(y, r)))
    BY <1>7
  <2>. HIDE DEF y
  <2>3. Sound(y, r)
    BY <1>2, <2>1, SoundEdit
  <2>. QED  BY <1>3, <1>4, <2>1, <2>2, <2>3, SoundReset
<1>8. CASE H3Stream!Becomes(r, [n EXCEPT !.s.left = henv.clen,
                             !.s.pc = IF "auto" \in henv.events THEN "noBody" ELSE "body"])
  <2>. DEFINE y == [n EXCEPT !.s.left = henv.clen, !.s.pc = IF "auto" \in henv.events THEN "noBody" ELSE "body"]
  <2>1. Edits(n, y)
    BY <1>2 DEF Edits, Sound, StreamFields, Unregistered
  <2>2. H3Stream!Becomes(r, y)
    BY <1>8
  <2>. HIDE DEF y
  <2>. QED  BY <1>4, <2>1, <2>2
<1>9. CASE H3Stream!Becomes(r, fail(H3Stream!CancelBoth(n, r)))
  BY <1>2, <1>3, <1>9, SoundReset
<1>10. CASE \/ H3Stream!Becomes(r, fail([n EXCEPT !.k.up = FALSE]))
            \/ H3Stream!Becomes(r, fail(H3Stream!CancelBoth([n EXCEPT !.k.up = FALSE], r)))
  <2>. DEFINE y == [n EXCEPT !.k.up = FALSE]
  <2>1. Edits(n, y)
    BY <1>2 DEF Edits, Sound, ConnFields
  <2>2. H3Stream!Becomes(r, fail(y)) \/ H3Stream!Becomes(r, fail(H3Stream!CancelBoth(y, r)))
    BY <1>10
  <2>. HIDE DEF y
  <2>3. Sound(y, r)
    BY <1>2, <2>1, SoundEdit
  <2>. QED  BY <1>3, <2>2, <2>3, SoundReset
<1>. QED  BY <1>5, <1>6, <1>7, <1>8, <1>9, <1>10 DEF H3Stream!ReadResponse, x, st, n

LEMMA bodyKeeps ==
  ASSUME H3StreamInv, NEW r \in H3Calls, H3Stream!bodyRead(r) \/ H3Stream!bodyClose(r) PROVE H3StreamInv'
<1>. DEFINE x == H3Stream!At(r)
<1>1. str[r].pc \notin Unregistered /\ Sound(x, r) /\ UNCHANGED henv
  <2>1. str[r].pc \notin Unregistered /\ UNCHANGED henv
    BY DEF Unregistered, H3Stream!bodyRead, H3Stream!bodyClose
  <2>. QED  BY <2>1, SoundStart
<1>. HIDE DEF x
<1>2. CASE H3Stream!Becomes(r, H3Stream!tooMuchData(x, r))
  BY <1>1, <1>2, SoundRead, SoundEnd
<1>3. CASE H3Stream!Becomes(r, [x EXCEPT !.s.rd = IF str[r].remain = 0 THEN "parse" ELSE "data"])
  <2>. DEFINE y == [x EXCEPT !.s.rd = IF str[r].remain = 0 THEN "parse" ELSE "data"]
  <2>1. Edits(x, y)
    BY <1>1 DEF Edits, Sound, StreamFields
  <2>2. H3Stream!Becomes(r, y)
    BY <1>3
  <2>. HIDE DEF y
  <2>. QED  BY <1>1, <2>1, <2>2, SoundEdit, SoundEnd
<1>4. CASE H3Stream!Becomes(r, [H3Stream!requestDone(H3Stream!CancelRead(x, r)) EXCEPT !.s.pc = "closed"])
  <2>. DEFINE y == H3Stream!requestDone(H3Stream!CancelRead(x, r))
              z == [y EXCEPT !.s.pc = "closed"]
  <2>1. Sound(y, r)
    BY <1>1, SoundReset, SoundRead
  <2>2. H3Stream!Becomes(r, z)
    BY <1>4
  <2>. HIDE DEF y
  <2>3. Edits(y, z)
    BY <2>1 DEF Edits, Sound, StreamFields, Unregistered
  <2>. HIDE DEF z
  <2>. QED  BY <1>1, <2>1, <2>2, <2>3, SoundEdit, SoundEnd
<1>. QED  BY <1>2, <1>3, <1>4 DEF H3Stream!bodyRead, H3Stream!bodyClose, x

LEMMA streamParseKeeps ==
  ASSUME H3StreamInv, NEW r \in H3Calls, H3Stream!streamParse(r) PROVE H3StreamInv'
<1>. DEFINE x == H3Stream!At(r)
            st == H3Stream!Status(r)
            n == H3Stream!Next1(x)
<1>1. str[r].pc \notin Unregistered /\ Sound(x, r) /\ UNCHANGED henv
  <2>1. str[r].pc \notin Unregistered /\ UNCHANGED henv
    BY DEF H3StreamInv, StreamOK, H3Stream!streamParse
  <2>. QED  BY <2>1, SoundStart
<1>2. Sound(n, r) /\ st # "nil"
  BY <1>1, SoundRead DEF H3Stream!Status
<1>. HIDE DEF x, st, n
<1>3. ASSUME NEW y, Sound(y, r), H3Stream!Becomes(r, y) \/ \E e : H3Stream!Becomes(r, H3Stream!ReadEnds(y, e)) PROVE H3StreamInv'
  BY <1>1, <1>3, SoundRead, SoundEnd
<1>4. CASE H3Stream!Becomes(r, H3Stream!ReadEnds(H3Stream!closeReceive(x, r, st), st))
  BY <1>1, <1>2, <1>3, <1>4, SoundCloseReceive
<1>5. CASE H3Stream!Becomes(r, n) \/ H3Stream!Becomes(r, H3Stream!ReadEnds(n, "err"))
  BY <1>2, <1>3, <1>5
<1>6. CASE H3Stream!Becomes(r, [n EXCEPT !.s.remain = H3Stream!FrameLen[Head(str[r].rest)], !.s.rd = "data"])
  <2>. DEFINE y == [n EXCEPT !.s.remain = H3Stream!FrameLen[Head(str[r].rest)], !.s.rd = "data"]
  <2>1. Edits(n, y)
    BY <1>2 DEF Edits, Sound, StreamFields
  <2>2. H3Stream!Becomes(r, y)
    BY <1>6
  <2>. HIDE DEF y
  <2>. QED  BY <1>2, <1>3, <2>1, <2>2, SoundEdit
<1>7. CASE H3Stream!Becomes(r, [n EXCEPT !.s.trailer = TRUE, !.s.rd = "idle"])
  <2>. DEFINE y == [n EXCEPT !.s.trailer = TRUE, !.s.rd = "idle"]
  <2>1. Edits(n, y)
    BY <1>2 DEF Edits, Sound, StreamFields
  <2>2. H3Stream!Becomes(r, y)
    BY <1>7
  <2>. HIDE DEF y
  <2>. QED  BY <1>2, <1>3, <2>1, <2>2, SoundEdit
<1>8. CASE H3Stream!Becomes(r, H3Stream!ReadEnds([n EXCEPT !.s.trailer = TRUE], "err"))
  <2>. DEFINE y == [n EXCEPT !.s.trailer = TRUE]
  <2>1. Edits(n, y)
    BY <1>2 DEF Edits, Sound, StreamFields
  <2>2. H3Stream!Becomes(r, H3Stream!ReadEnds(y, "err"))
    BY <1>8
  <2>. HIDE DEF y
  <2>. QED  BY <1>2, <1>3, <2>1, <2>2, SoundEdit
<1>9. CASE H3Stream!Becomes(r, H3Stream!ReadEnds([n EXCEPT !.k.up = FALSE], "err"))
  <2>. DEFINE y == [n EXCEPT !.k.up = FALSE]
  <2>1. Edits(n, y)
    BY <1>2 DEF Edits, Sound, ConnFields
  <2>2. H3Stream!Becomes(r, H3Stream!ReadEnds(y, "err"))
    BY <1>9
  <2>. HIDE DEF y
  <2>. QED  BY <1>2, <1>3, <2>1, <2>2, SoundEdit
<1>. QED  BY <1>4, <1>5, <1>6, <1>7, <1>8, <1>9 DEF H3Stream!streamParse, x, st, n

LEMMA streamReadKeeps ==
  ASSUME H3StreamInv, NEW r \in H3Calls, H3Stream!streamRead(r) PROVE H3StreamInv'
<1>. DEFINE x == H3Stream!At(r)
            st == H3Stream!Status(r)
            read(n) == [x EXCEPT !.s.rest = SubSeq(@, n + 1, Len(@)), !.s.remain = @ - n,
                                 !.s.left = IF @ = H3Stream!Invalid THEN @ ELSE @ - n, !.s.rd = "idle",
                                 !.s.got = @ + n]
            checked(y) == IF H3Stream!tooMuch(y.s) THEN H3Stream!tooMuchData(y, r) ELSE y
<1>1. str[r].pc \notin Unregistered /\ Sound(x, r) /\ UNCHANGED henv
  <2>1. str[r].pc \notin Unregistered /\ UNCHANGED henv
    BY DEF H3StreamInv, StreamOK, H3Stream!streamRead
  <2>. QED  BY <2>1, SoundStart
<1>2. \/ H3Stream!Becomes(r, H3Stream!ReadEnds(H3Stream!closeReceive(x, r, st), st)) /\ st \in {"EOF", "err"}
      \/ \E n : H3Stream!Becomes(r, checked(read(n)))
  <2>1. CASE H3Stream!readable(str[r]) = 0
    BY <2>1 DEF H3Stream!streamRead
  <2>2. CASE H3Stream!readable(str[r]) # 0
    BY <2>2 DEF H3Stream!streamRead
  <2>. QED  BY <2>1, <2>2
<1>. HIDE DEF x, st
<1>3. CASE H3Stream!Becomes(r, H3Stream!ReadEnds(H3Stream!closeReceive(x, r, st), st)) /\ st \in {"EOF", "err"}
  BY <1>1, <1>3, SoundCloseReceive, SoundRead, SoundEnd
<1>4. ASSUME NEW n, H3Stream!Becomes(r, checked(read(n))) PROVE H3StreamInv'
  <2>. DEFINE y == read(n)
  <2>1. Edits(x, y)
    <3>1. DOMAIN x = {"s", "k", "d"} /\ DOMAIN x.s = StreamFields /\ DOMAIN x.k = ConnFields
          /\ x.s.pc \notin Unregistered
      BY <1>1 DEF Sound
    <3>2. DOMAIN y = {"s", "k", "d"} /\ y.k = x.k /\ y.d = x.d
      BY <3>1
    <3>3. DOMAIN y.s = StreamFields
      BY <3>1 DEF StreamFields
    <3>4. y.s.pc = x.s.pc
      BY <3>1 DEF StreamFields
    <3>5. y.s.send = x.s.send
      BY <3>1 DEF StreamFields
    <3>6. y.s.recv = x.s.recv
      BY <3>1 DEF StreamFields
    <3>. HIDE DEF y
    <3>. QED  BY <3>1, <3>2, <3>3, <3>4, <3>5, <3>6 DEF Edits
  <2>2. H3Stream!Becomes(r, checked(y))
    BY <1>4
  <2>. HIDE DEF y
  <2>3. Sound(y, r)
    BY <1>1, <2>1, SoundEdit
  <2>. QED  BY <1>1, <2>2, <2>3, SoundRead, SoundEnd
<1>. QED  BY <1>2, <1>3, <1>4

LEMMA datagramKeeps ==
  ASSUME H3StreamInv, NEW r \in H3Calls, H3Stream!ReceiveDatagram(r) \/ H3Stream!enqueueDatagram(r) PROVE H3StreamInv'
<1>1. DOMAIN dgram' = H3Calls /\ DOMAIN dgram'[r] = DatagramFields /\ UNCHANGED <<henv, hconn, str>>
  BY DEF H3StreamInv, DatagramFields, H3Stream!ReceiveDatagram, H3Stream!enqueueDatagram
<1>2. \A q \in H3Calls : q # r => dgram'[q] = dgram[q]
  BY DEF H3StreamInv, H3Stream!ReceiveDatagram, H3Stream!enqueueDatagram
<1>3. dgram'[r].at = "wait" /\ (dgram'[r].queue > 0 \/ str[r].recv # "nil") => dgram'[r].hasData
  BY DEF H3StreamInv, StreamOK, DatagramFields, H3Stream!ReceiveDatagram, H3Stream!enqueueDatagram
<1>4. ASSUME NEW q \in H3Calls PROVE DOMAIN dgram'[q] = DatagramFields /\ StreamOK(str'[q], hconn', dgram'[q], q)
  BY <1>1, <1>2, <1>3 DEF H3StreamInv, StreamOK
<1>. QED  BY <1>1, <1>4 DEF H3StreamInv

\* The server, and the end of the connection.
LEMMA serverKeeps ==
  ASSUME H3StreamInv, NEW r \in H3Calls, H3Stream!serverAnswers(r) \/ H3Stream!serverResets(r) \/ H3Stream!serverStops(r)
  PROVE  H3StreamInv'
<1>1. CASE H3Stream!serverAnswers(r)
  <2>1. PICK a \in henv.answers : str' = [str EXCEPT ![r].answer = a, ![r].rest = a]
    BY <1>1 DEF H3Stream!serverAnswers
  <2>2. UNCHANGED <<henv, hconn, dgram>>
    BY <1>1 DEF H3Stream!serverAnswers
  <2>. QED  BY <2>1, <2>2, StagesKeep DEF H3StreamInv, StreamFields
<1>2. CASE H3Stream!serverResets(r)
  BY <1>2, StagesKeep DEF H3StreamInv, StreamFields, H3Stream!serverResets
<1>3. CASE H3Stream!serverStops(r)
  BY <1>3, StagesKeep DEF H3StreamInv, StreamFields, H3Stream!serverStops
<1>. QED  BY <1>1, <1>2, <1>3

LEMMA connKeeps ==
  ASSUME H3StreamInv,
         \/ \E id \in henv.goAways : H3Stream!handleGoAway(id)
         \/ H3Stream!handleSettings \/ H3Stream!controlFails \/ H3Stream!goAwayClose \/ H3Stream!connLost
  PROVE  H3StreamInv'
<1>1. UNCHANGED <<henv, str, dgram>>
  BY DEF H3Stream!handleGoAway, H3Stream!handleSettings, H3Stream!controlFails, H3Stream!goAwayClose, H3Stream!connLost
<1>2. DOMAIN hconn' = ConnFields /\ hconn'.streams = hconn.streams /\ Drained(hconn') /\ hconn'.cut = {}
  <2>1. ASSUME NEW id \in henv.goAways, H3Stream!handleGoAway(id), ~H3Stream!goAwayRefused(id)
        PROVE  DOMAIN hconn' = ConnFields /\ hconn'.streams = hconn.streams /\ Drained(hconn') /\ hconn'.cut = {}
    <3>. DEFINE control == IF hconn.streams = {} THEN "closing" ELSE hconn.control
                cut == IF hconn.streams = {} THEN hconn.cut \cup H3Stream!InUse ELSE hconn.cut
    <3>1. hconn' = [hconn EXCEPT !.maxStreamID = id, !.control = control, !.cut = cut]
      BY <2>1 DEF H3Stream!handleGoAway
    <3>2. cut = {} /\ (hconn.streams = {} => control = "closing")
      BY UsedKnown DEF H3StreamInv
    <3>. HIDE DEF cut, control
    <3>. QED  BY <3>1, <3>2 DEF H3StreamInv, ConnFields, Drained
  <2>2. ASSUME NEW id \in henv.goAways, H3Stream!handleGoAway(id), H3Stream!goAwayRefused(id)
        PROVE  DOMAIN hconn' = ConnFields /\ hconn'.streams = hconn.streams /\ Drained(hconn') /\ hconn'.cut = {}
    BY <2>2 DEF H3StreamInv, ConnFields, Drained, H3Stream!handleGoAway
  <2>3. CASE H3Stream!handleSettings \/ H3Stream!controlFails \/ H3Stream!goAwayClose \/ H3Stream!connLost
    BY <2>3 DEF H3StreamInv, ConnFields, Drained, H3Stream!handleSettings, H3Stream!controlFails,
                H3Stream!goAwayClose, H3Stream!connLost
  <2>. QED  BY <2>1, <2>2, <2>3
<1>. QED  BY <1>1, <1>2 DEF H3StreamInv, StreamOK

LEMMA H3StreamStep == H3StreamInv /\ [H3Stream!Next]_(H3Stream!h3Vars) => H3StreamInv'
<1>. SUFFICES ASSUME H3StreamInv, [H3Stream!Next]_(H3Stream!h3Vars) PROVE H3StreamInv'
  OBVIOUS
<1>1. CASE UNCHANGED <<henv, hconn, str, dgram>>
  BY <1>1 DEF H3StreamInv, StreamOK
<1>2. CASE UNCHANGED H3Stream!h3Vars \/ \E r \in H3Calls : H3Stream!cancel(r)
  BY <1>1, <1>2 DEF H3Stream!h3Vars, H3Stream!cancel
<1>. QED  BY <1>2, openKeeps, registerKeeps, callerKeeps, ReadResponseKeeps, afterFuncKeeps, cancelerKeeps,
             sendRequestBodyKeeps, bodyKeeps, streamParseKeeps, streamReadKeeps, datagramKeeps, serverKeeps,
             connKeeps
          DEF H3Stream!Next, H3Stream!H3Caller

-----------------------------------------------------------------------------
(* outflow: the windows the server gave for request bodies.                *)

\* The variables of H2Body in the composition.
sit    == v1
wire   == v2
peer   == v3
credit == v4
ccf    == v5
csf    == v6
pipe   == v7
body   == v8
got    == v9
USE DEF sit, wire, peer, credit, ccf, csf, pipe, body, got

CsFields == {"open", "pastHeaders", "pastTrailers", "readClosed", "readAborted", "abort", "res",
             "bytesRemain", "readErr", "trailer", "resTrailer", "inflow", "flow", "toSend", "sent",
             "taken", "granted", "done"}
CcFields == {"inflow", "flow", "initial", "reader"}

\* The outgoing window of a stream c, with w the initial window: it is an int32,
\* what was sent and what may be sent was granted, and while the stream is open
\* the window has not fallen by more than an int32 below the initial one, so that
\* no change of the initial window takes it below the smallest int32.
StreamFlowOK(c, w) ==
    /\ c.flow \in -MaxWindow .. MaxWindow
    /\ c.sent \in Nat /\ c.taken \in Nat /\ c.toSend \in Nat /\ c.granted \in Int
    /\ c.flow + c.sent + c.taken <= c.granted
    /\ c.open => c.flow >= w - MaxWindow

ConnFlowOK(k) == DOMAIN k = CcFields /\ k.flow \in 0 .. MaxWindow /\ k.initial \in 0 .. MaxWindow

\* Frames that change a window carry 31 bits.
UpdateOK(f) == f.type \in {"settings", "windowUpdate"} => f.n \in 0 .. MaxWindow
WireOK(q) == \E S : q \in Seq(S) /\ \A f \in S : UpdateOK(f)

FlowInv ==
    /\ sit.increments \subseteq 0 .. MaxWindow /\ sit.initials \subseteq 0 .. MaxWindow
    /\ WireOK(wire) /\ ConnFlowOK(ccf)
    /\ DOMAIN csf = sit.streams
    /\ \A s \in sit.streams : DOMAIN csf[s] = CsFields /\ StreamFlowOK(csf[s], ccf.initial)

LEMMA FlowInit == H2BodyConstants /\ H2Body!Init => FlowInv
<1>. SUFFICES ASSUME H2BodyConstants, H2Body!Init PROVE FlowInv
  OBVIOUS
<1>1. sit.increments \subseteq 0 .. MaxWindow /\ sit.initials \subseteq 0 .. MaxWindow /\ sit.upload \in Nat
      /\ MaxWindow \in Nat
  BY DEF H2BodyConstants, H2Body!Init
<1>2. WireOK(wire)
  <2>1. wire \in Seq({})
    BY DEF H2Body!Init
  <2>. QED  BY <2>1 DEF WireOK
<1>3. PICK w \in (IF sit.initials = {} THEN {0} ELSE sit.initials) :
         /\ ccf = [inflow |-> [avail |-> ConnWindow, unsent |-> 0], flow |-> w,
                   initial |-> w, reader |-> "run"]
         /\ csf = [s \in sit.streams |->
                     [H2Body!NewStreamFields EXCEPT !.flow = w, !.granted = w, !.toSend = sit.upload]]
  BY DEF H2Body!Init
<1>4. w \in 0 .. MaxWindow
  BY <1>1, <1>3
<1>5. ConnFlowOK(ccf) /\ ccf.initial = w
  BY <1>3, <1>4 DEF ConnFlowOK, CcFields
<1>6. DOMAIN csf = sit.streams
  BY <1>3
<1>7. ASSUME NEW s \in sit.streams PROVE DOMAIN csf[s] = CsFields /\ StreamFlowOK(csf[s], w)
  BY <1>1, <1>3, <1>4 DEF H2Body!NewStreamFields, CsFields, StreamFlowOK
<1>. QED  BY <1>1, <1>2, <1>5, <1>6, <1>7 DEF FlowInv

LEMMA FlowSafe == H2BodyConstants /\ FlowInv => H2Body!NoOverdraft
BY DEF H2BodyConstants, FlowInv, StreamFlowOK, ConnFlowOK, H2Body!NoOverdraft

\* outflow.add in int32 arithmetic: its test refuses exactly the sums that
\* are not an int32.
LEMMA OutflowAdd ==
  ASSUME MaxWindow \in Nat \ {0}, NEW f \in -MaxWindow .. MaxWindow, NEW n \in -MaxWindow .. MaxWindow
  PROVE  /\ H2Body!outflowFits(f, n) => H2Body!Wrap(f + n) = f + n /\ f + n <= MaxWindow
         /\ ~H2Body!outflowFits(f, n) => f + n > MaxWindow \/ f + n < -MaxWindow
<1>. DEFINE m == 2 * MaxWindow + 2
            a == f + n + MaxWindow + 1
<1>1. m \in Nat \ {0} /\ a \in Int
  OBVIOUS
<1>2. H2Body!Wrap(f + n) = (a % m) - (MaxWindow + 1)
  BY DEF H2Body!Wrap
<1>3. CASE 0 <= a /\ a < m
  <2>1. a % m = a
    BY <1>1, <1>3, Z3
  <2>. QED  BY <1>2, <1>3, <2>1 DEF H2Body!outflowFits
<1>4. CASE a >= m
  <2>1. a % m = a - m
    <3>1. a < 2 * m
      OBVIOUS
    <3>. HIDE DEF a, m
    <3>. QED  BY <1>1, <1>4, <3>1, Z3
  <2>. QED  BY <1>2, <1>4, <2>1 DEF H2Body!outflowFits
<1>5. CASE a < 0
  <2>1. a % m = a + m
    <3>1. a >= -m
      OBVIOUS
    <3>. HIDE DEF a, m
    <3>. QED  BY <1>1, <1>5, <3>1, Z3
  <2>. QED  BY <1>2, <1>5, <2>1 DEF H2Body!outflowFits
<1>. QED  BY <1>1, <1>3, <1>4, <1>5

-----------------------------------------------------------------------------
\* Most steps leave the outgoing windows alone.

\* c becomes d, and what concerns its outgoing window stays.
SameFlow(c, d) ==
    /\ DOMAIN d = CsFields
    /\ d.flow = c.flow /\ d.sent = c.sent /\ d.taken = c.taken /\ d.toSend = c.toSend
    /\ d.granted = c.granted /\ (d.open => c.open)

LEMMA SameFlowTrans ==
  ASSUME NEW c, NEW d, NEW e, SameFlow(c, d), SameFlow(d, e) PROVE SameFlow(c, e)
BY DEF SameFlow

\* The operators that end or abort a stream.
LEMMA SameFlowOps ==
  ASSUME NEW c, DOMAIN c = CsFields
  PROVE  /\ SameFlow(c, c)
         /\ \A e : SameFlow(c, H2Body!abortStream(c, e)) /\ SameFlow(c, H2Body!endStreamError(c, e))
         /\ \A f : SameFlow(c, H2Body!handleResponse(c, f))
         /\ \A p : SameFlow(c, H2Body!endStream(c, p)[1])
<1>1. SameFlow(c, c)
  BY DEF SameFlow
<1>2. ASSUME NEW e PROVE SameFlow(c, H2Body!abortStream(c, e)) /\ SameFlow(c, H2Body!endStreamError(c, e))
  BY DEF SameFlow, CsFields, H2Body!abortStream, H2Body!endStreamError
<1>3. ASSUME NEW f PROVE SameFlow(c, H2Body!handleResponse(c, f))
  BY DEF SameFlow, CsFields, H2Body!handleResponse
<1>4. ASSUME NEW p PROVE SameFlow(c, H2Body!endStream(c, p)[1])
  BY DEF SameFlow, CsFields, H2Body!endStream
<1>. QED  BY <1>1, <1>2, <1>3, <1>4

FlowsKept ==
    /\ DOMAIN csf' = sit.streams
    /\ \A s \in sit.streams : SameFlow(csf[s], csf'[s])
ConnFlowKept == DOMAIN ccf' = CcFields /\ ccf'.flow = ccf.flow /\ ccf'.initial = ccf.initial

LEMMA KeptInv ==
  ASSUME H2BodyConstants, FlowInv, FlowsKept, ConnFlowKept, UNCHANGED sit, WireOK(wire')
  PROVE  FlowInv'
<1>1. ConnFlowOK(ccf')
  BY DEF FlowInv, ConnFlowOK, ConnFlowKept
<1>2. ASSUME NEW s \in sit.streams PROVE DOMAIN csf'[s] = CsFields /\ StreamFlowOK(csf'[s], ccf'.initial)
  BY DEF FlowInv, FlowsKept, ConnFlowKept, SameFlow, StreamFlowOK
<1>. QED  BY <1>1, <1>2 DEF FlowInv, FlowsKept

\* One stream moves on.
LEMMA OneMoves ==
  ASSUME FlowInv, NEW s, NEW d, s \in sit.streams => SameFlow(csf[s], d), csf' = [csf EXCEPT ![s] = d]
  PROVE  FlowsKept
<1>1. DOMAIN csf' = sit.streams
  BY DEF FlowInv
<1>2. ASSUME NEW q \in sit.streams PROVE SameFlow(csf[q], csf'[q])
  <2>1. CASE q = s
    BY <2>1 DEF FlowInv
  <2>2. CASE q # s
    <3>1. csf'[q] = csf[q] /\ DOMAIN csf[q] = CsFields
      BY <2>2 DEF FlowInv
    <3>. QED  BY <3>1 DEF SameFlow
  <2>. QED  BY <2>1, <2>2
<1>. QED  BY <1>1, <1>2 DEF FlowsKept

LEMMA NoneMoves == ASSUME FlowInv, UNCHANGED csf PROVE FlowsKept
BY DEF FlowInv, FlowsKept, SameFlow

LEMMA ConnStays == ASSUME FlowInv, UNCHANGED ccf PROVE ConnFlowKept
BY DEF FlowInv, ConnFlowOK, ConnFlowKept

LEMMA StopReadingKeeps ==
  ASSUME FlowInv, NEW e, H2Body!StopReading(e) PROVE FlowsKept /\ ConnFlowKept
<1>1. ConnFlowKept
  BY DEF FlowInv, ConnFlowOK, CcFields, ConnFlowKept, H2Body!StopReading
<1>2. DOMAIN csf' = sit.streams
  BY DEF FlowInv, H2Body!StopReading
<1>3. ASSUME NEW s \in sit.streams PROVE SameFlow(csf[s], csf'[s])
  <2>1. csf'[s] = IF csf[s].open /\ ~csf[s].readClosed THEN H2Body!abortStream(csf[s], e) ELSE csf[s]
    BY DEF FlowInv, H2Body!StopReading
  <2>. QED  BY <2>1, SameFlowOps DEF FlowInv
<1>. QED  BY <1>1, <1>2, <1>3 DEF FlowsKept

\* The wire.
LEMMA WireTakes ==
  ASSUME FlowInv, NEW type, H2Body!ReadLoop(type) PROVE WireOK(wire') /\ UpdateOK(Head(wire))
<1>1. PICK S : wire \in Seq(S) /\ \A f \in S : UpdateOK(f)
  BY DEF FlowInv, WireOK
<1>2. wire # <<>> /\ wire' = Tail(wire)
  BY DEF H2Body!ReadLoop
<1>3. Tail(wire) \in Seq(S) /\ Head(wire) \in S
  BY <1>1, <1>2
<1>. QED  BY <1>1, <1>2, <1>3 DEF WireOK

LEMMA WireGets ==
  ASSUME FlowInv, NEW f, UpdateOK(f), H2Body!serverSends(f) PROVE WireOK(wire')
<1>1. PICK S : wire \in Seq(S) /\ \A g \in S : UpdateOK(g)
  BY DEF FlowInv, WireOK
<1>2. wire' = Append(wire, f)
  BY DEF H2Body!serverSends
<1>3. wire \in Seq(S \cup {f})
  BY <1>1
<1>4. wire' \in Seq(S \cup {f})
  BY <1>2, <1>3
<1>. QED  BY <1>1, <1>4 DEF WireOK

-----------------------------------------------------------------------------
\* The read loop.

LEMMA headersKeep ==
  ASSUME H2BodyConstants, FlowInv, H2Body!processHeaders \/ H2Body!processTrailers PROVE FlowInv'
<1>. DEFINE f == Head(wire)
            s == f.s
            c == csf[s]
<1>1. WireOK(wire') /\ UNCHANGED <<sit, ccf>>
  BY WireTakes DEF H2Body!processHeaders, H2Body!processTrailers
<1>2. ConnFlowKept
  BY <1>1, ConnStays
<1>3. CASE H2Body!processHeaders
  <2>. DEFINE c1 == [c EXCEPT !.pastHeaders = TRUE]
              r == H2Body!handleResponse(c1, f)
              p == IF r.res = "pipe" THEN H2Body!setBuffer(pipe[s]) ELSE pipe[s]
              cp == CASE ~H2Body!Live(s) -> <<c, pipe[s]>>
                      [] H2Body!Live(s) /\ c.readClosed -> <<H2Body!endStreamError(c, "proto"), pipe[s]>>
                      [] OTHER -> IF f.end THEN H2Body!endStream(r, p) ELSE <<r, p>>
  <2>1. csf' = [csf EXCEPT ![s] = cp[1]]
    BY <1>3 DEF H2Body!processHeaders
  <2>2. ASSUME s \in sit.streams PROVE SameFlow(csf[s], cp[1])
    <3>1. DOMAIN c = CsFields
      BY <2>2 DEF FlowInv
    <3>2. SameFlow(c, c1)
      BY <3>1 DEF SameFlow, CsFields
    <3>. HIDE DEF c1, p, c
    <3>3. SameFlow(c1, r)
      BY <3>2, SameFlowOps DEF SameFlow
    <3>. HIDE DEF r
    <3>4. SameFlow(r, H2Body!endStream(r, p)[1])
      BY <3>3, SameFlowOps DEF SameFlow
    <3>5. SameFlow(c, r) /\ SameFlow(c, H2Body!endStream(r, p)[1])
      BY <3>2, <3>3, <3>4, SameFlowTrans
    <3>6. SameFlow(c, c) /\ SameFlow(c, H2Body!endStreamError(c, "proto"))
      BY <3>1, SameFlowOps
    <3>7. cp[1] \in {c, H2Body!endStreamError(c, "proto"), H2Body!endStream(r, p)[1], r}
      OBVIOUS
    <3>. HIDE DEF cp
    <3>8. SameFlow(c, cp[1])
      BY <3>5, <3>6, <3>7
    <3>. QED  BY <3>8 DEF c
  <2>. HIDE DEF cp
  <2>. QED  BY <1>1, <1>2, <2>1, <2>2, OneMoves, KeptInv
<1>4. CASE H2Body!processTrailers
  <2>. DEFINE c1 == [c EXCEPT !.pastTrailers = TRUE, !.trailer = TRUE]
              cp == CASE ~H2Body!Live(s) -> <<c, pipe[s]>>
                      [] H2Body!Live(s) /\ c.readClosed -> <<H2Body!endStreamError(c, "proto"), pipe[s]>>
                      [] OTHER -> H2Body!endStream(c1, pipe[s])
  <2>1. csf' = [csf EXCEPT ![s] = cp[1]]
    BY <1>4 DEF H2Body!processTrailers
  <2>2. ASSUME s \in sit.streams PROVE SameFlow(csf[s], cp[1])
    <3>1. DOMAIN c = CsFields
      BY <2>2 DEF FlowInv
    <3>2. SameFlow(c, c1)
      BY <3>1 DEF SameFlow, CsFields
    <3>. HIDE DEF c1, c
    <3>3. SameFlow(c1, H2Body!endStream(c1, pipe[s])[1])
      BY <3>2, SameFlowOps DEF SameFlow
    <3>4. SameFlow(c, H2Body!endStream(c1, pipe[s])[1]) /\ SameFlow(c, c) /\ SameFlow(c, H2Body!endStreamError(c, "proto"))
      BY <3>1, <3>2, <3>3, SameFlowTrans, SameFlowOps
    <3>5. cp[1] \in {c, H2Body!endStreamError(c, "proto"), H2Body!endStream(c1, pipe[s])[1]}
      OBVIOUS
    <3>. HIDE DEF cp
    <3>6. SameFlow(c, cp[1])
      BY <3>4, <3>5
    <3>. QED  BY <3>6 DEF c
  <2>. HIDE DEF cp
  <2>. QED  BY <1>1, <1>2, <2>1, <2>2, OneMoves, KeptInv
<1>. QED  BY <1>3, <1>4

LEMMA dataKeeps ==
  ASSUME H2BodyConstants, FlowInv, H2Body!processData \/ H2Body!processDataForgotten PROVE FlowInv'
<1>1. WireOK(wire') /\ UNCHANGED sit
  BY WireTakes DEF H2Body!processData, H2Body!processDataForgotten
<1>2. ASSUME NEW i, ccf' = [ccf EXCEPT !.inflow = i] PROVE ConnFlowKept
  BY <1>2 DEF FlowInv, ConnFlowOK, CcFields, ConnFlowKept
<1>3. CASE H2Body!StopReading("flowControl")
  BY <1>1, <1>3, StopReadingKeeps, KeptInv
<1>4. CASE H2Body!processDataForgotten /\ ~H2Body!StopReading("flowControl")
  <2>1. UNCHANGED csf
    BY <1>4 DEF H2Body!processDataForgotten
  <2>2. ccf' = [ccf EXCEPT !.inflow = H2Body!inflowAdd(H2Body!take(@, Head(wire).n), Head(wire).n)]
    BY <1>4 DEF H2Body!processDataForgotten
  <2>. QED  BY <1>1, <1>2, <2>1, <2>2, NoneMoves, KeptInv
<1>5. CASE H2Body!processData /\ ~H2Body!StopReading("flowControl")
  <2>. DEFINE f == Head(wire)
              s == f.s
              c == csf[s]
              p == pipe[s]
              refund == H2Body!Refund(p, f)
              reset == f.data # <<>> /\ ~H2Body!writable(p)
              ci == H2Body!take(ccf.inflow, f.n)
              si == H2Body!take(c.inflow, f.n)
              c1 == [c EXCEPT !.inflow = IF reset THEN si ELSE H2Body!inflowAdd(si, refund)]
              p1 == IF reset THEN p ELSE [p EXCEPT !.buf = @ \o f.data]
              cp == CASE reset -> <<H2Body!endStreamError(c1, "closedPipe"), p1>>
                      [] ~reset /\ f.end -> H2Body!endStream(c1, p1)
                      [] OTHER -> <<c1, p1>>
  <2>1. \/ csf' = [csf EXCEPT ![s] = H2Body!endStreamError(c, "proto")] /\ UNCHANGED ccf
        \/ csf' = [csf EXCEPT ![s] = cp[1]] /\ ccf' = [ccf EXCEPT !.inflow = H2Body!inflowAdd(ci, refund)]
    <3>1. CASE c.readClosed \/ ~c.pastHeaders \/ (sit.head /\ f.data # <<>>)
      BY <1>5, <3>1 DEF H2Body!processData
    <3>2. CASE /\ ~(c.readClosed \/ ~c.pastHeaders \/ (sit.head /\ f.data # <<>>))
               /\ ~(f.n > ccf.inflow.avail \/ f.n > c.inflow.avail)
      BY <1>5, <3>2 DEF H2Body!processData
    <3>3. CASE /\ ~(c.readClosed \/ ~c.pastHeaders \/ (sit.head /\ f.data # <<>>))
               /\ f.n > ccf.inflow.avail \/ f.n > c.inflow.avail
      BY <1>5, <3>3 DEF H2Body!processData
    <3>. QED  BY <3>1, <3>2, <3>3
  <2>2. ASSUME s \in sit.streams PROVE SameFlow(csf[s], cp[1]) /\ SameFlow(csf[s], H2Body!endStreamError(c, "proto"))
    <3>1. DOMAIN c = CsFields
      BY <2>2 DEF FlowInv
    <3>2. SameFlow(c, c1)
      BY <3>1 DEF SameFlow, CsFields
    <3>. HIDE DEF c1, p1, reset
    <3>3. SameFlow(c1, H2Body!endStreamError(c1, "closedPipe")) /\ SameFlow(c1, H2Body!endStream(c1, p1)[1])
      BY <3>2, SameFlowOps DEF SameFlow
    <3>. HIDE DEF c
    <3>4. SameFlow(c, H2Body!endStreamError(c1, "closedPipe")) /\ SameFlow(c, H2Body!endStream(c1, p1)[1])
      BY <3>2, <3>3, SameFlowTrans
    <3>5. SameFlow(c, H2Body!endStreamError(c, "proto"))
      BY <3>1, SameFlowOps
    <3>6. cp[1] \in {c1, H2Body!endStreamError(c1, "closedPipe"), H2Body!endStream(c1, p1)[1]}
      OBVIOUS
    <3>. HIDE DEF cp
    <3>7. SameFlow(c, cp[1])
      BY <3>2, <3>4, <3>6
    <3>. QED  BY <3>5, <3>7 DEF c
  <2>. HIDE DEF cp, c, ci, refund, s
  <2>3. FlowsKept
    BY <2>1, <2>2, OneMoves
  <2>4. ConnFlowKept
    BY <1>2, <2>1, ConnStays
  <2>. QED  BY <1>1, <2>3, <2>4, KeptInv
<1>. QED  BY <1>3, <1>4, <1>5

LEMMA resetKeeps ==
  ASSUME H2BodyConstants, FlowInv, H2Body!processResetStream \/ H2Body!readError PROVE FlowInv'
<1>1. CASE H2Body!readError
  BY <1>1, StopReadingKeeps, KeptInv DEF H2Body!readError, FlowInv
<1>2. CASE H2Body!processResetStream
  <2>1. WireOK(wire') /\ UNCHANGED <<sit, ccf>>
    BY <1>2, WireTakes DEF H2Body!processResetStream
  <2>2. UNCHANGED csf \/ \E s : csf' = [csf EXCEPT ![s] = H2Body!abortStream(csf[s], "reset")]
    BY <1>2 DEF H2Body!processResetStream
  <2>3. FlowsKept
    <3>1. CASE UNCHANGED csf
      BY <3>1, NoneMoves
    <3>2. ASSUME NEW s, csf' = [csf EXCEPT ![s] = H2Body!abortStream(csf[s], "reset")] PROVE FlowsKept
      <4>1. s \in sit.streams => SameFlow(csf[s], H2Body!abortStream(csf[s], "reset"))
        BY SameFlowOps DEF FlowInv
      <4>. QED  BY <3>2, <4>1, OneMoves
    <3>. QED  BY <2>2, <3>1, <3>2
  <2>. QED  BY <2>1, <2>3, ConnStays, KeptInv
<1>. QED  BY <1>1, <1>2

\* SETTINGS_INITIAL_WINDOW_SIZE moves every open stream's window, by less than an
\* int32 in either direction.
LEMMA settingsKeep ==
  ASSUME H2BodyConstants, FlowInv, H2Body!processSettings PROVE FlowInv'
<1>. DEFINE n == Head(wire).n
            d == n - ccf.initial
<1>1. WireOK(wire') /\ UNCHANGED sit /\ n \in 0 .. MaxWindow
  <2>1. H2Body!ReadLoop("settings") /\ UNCHANGED sit
    BY DEF H2Body!processSettings
  <2>. QED  BY <2>1, WireTakes DEF UpdateOK, H2Body!ReadLoop
<1>2. ccf.initial \in 0 .. MaxWindow /\ MaxWindow \in Nat \ {0}
  BY DEF FlowInv, ConnFlowOK, H2BodyConstants
<1>3. ConnFlowOK(ccf') /\ ccf'.initial = n
  BY <1>1 DEF FlowInv, ConnFlowOK, CcFields, H2Body!processSettings
<1>4. DOMAIN csf' = sit.streams
  BY DEF FlowInv, H2Body!processSettings
<1>5. ASSUME NEW s \in sit.streams PROVE DOMAIN csf'[s] = CsFields /\ StreamFlowOK(csf'[s], n)
  <2>. DEFINE c == csf[s]
  <2>1. csf'[s] = IF c.open
                  THEN [c EXCEPT !.flow = IF H2Body!outflowFits(c.flow, d) THEN H2Body!Wrap(c.flow + d) ELSE c.flow,
                                 !.granted = c.granted + d]
                  ELSE c
    BY DEF FlowInv, H2Body!processSettings
  <2>2. DOMAIN c = CsFields /\ StreamFlowOK(c, ccf.initial)
    BY DEF FlowInv
  <2>. HIDE DEF c
  <2>3. CASE ~c.open
    BY <2>1, <2>2, <2>3 DEF StreamFlowOK
  <2>4. CASE c.open
    <3>1. d \in -MaxWindow .. MaxWindow /\ c.flow \in -MaxWindow .. MaxWindow /\ c.flow + d >= -MaxWindow
      BY <1>1, <1>2, <2>2, <2>4 DEF StreamFlowOK
    <3>2. /\ H2Body!outflowFits(c.flow, d) => H2Body!Wrap(c.flow + d) = c.flow + d /\ c.flow + d <= MaxWindow
          /\ ~H2Body!outflowFits(c.flow, d) => c.flow + d > MaxWindow
      BY <1>2, <3>1, OutflowAdd
    <3>. DEFINE g == IF H2Body!outflowFits(c.flow, d) THEN H2Body!Wrap(c.flow + d) ELSE c.flow
    <3>3. /\ DOMAIN csf'[s] = CsFields /\ csf'[s].flow = g /\ csf'[s].granted = c.granted + d
          /\ csf'[s].sent = c.sent /\ csf'[s].taken = c.taken /\ csf'[s].toSend = c.toSend
      BY <2>1, <2>2, <2>4 DEF CsFields
    <3>4. g \in -MaxWindow .. MaxWindow /\ g <= c.flow + d /\ g >= n - MaxWindow
      BY <1>1, <1>2, <2>2, <2>4, <3>1, <3>2 DEF StreamFlowOK
    <3>. HIDE DEF g
    <3>. QED  BY <1>1, <1>2, <2>2, <3>1, <3>3, <3>4 DEF StreamFlowOK
  <2>. QED  BY <2>3, <2>4
<1>. QED  BY <1>1, <1>3, <1>4, <1>5 DEF FlowInv

LEMMA windowUpdateKeeps ==
  ASSUME H2BodyConstants, FlowInv, H2Body!processWindowUpdate PROVE FlowInv'
<1>. DEFINE s == Head(wire).s
            n == Head(wire).n
<1>1. WireOK(wire') /\ UNCHANGED sit /\ n \in 0 .. MaxWindow
  <2>1. H2Body!ReadLoop("windowUpdate") /\ UNCHANGED sit
    BY DEF H2Body!processWindowUpdate
  <2>. QED  BY <2>1, WireTakes DEF UpdateOK, H2Body!ReadLoop
<1>2. ccf.flow \in 0 .. MaxWindow /\ ccf.initial \in 0 .. MaxWindow /\ MaxWindow \in Nat \ {0}
      /\ DOMAIN ccf = CcFields
  BY DEF FlowInv, ConnFlowOK, H2BodyConstants
<1>. HIDE DEF n, s
<1>3. CASE H2Body!outflowFits(ccf.flow, n) /\ ccf' = [ccf EXCEPT !.flow = H2Body!Wrap(@ + n)] /\ UNCHANGED csf
  <2>1. H2Body!Wrap(ccf.flow + n) \in 0 .. MaxWindow
    BY <1>1, <1>2, <1>3, OutflowAdd
  <2>2. ConnFlowOK(ccf') /\ ccf'.initial = ccf.initial
    BY <1>2, <1>3, <2>1 DEF ConnFlowOK, CcFields
  <2>. QED  BY <1>1, <1>3, <2>2 DEF FlowInv
<1>4. CASE H2Body!StopReading("overflow")
  BY <1>1, <1>4, StopReadingKeeps, KeptInv
<1>5. CASE UNCHANGED <<ccf, csf>>
  BY <1>1, <1>5, NoneMoves, ConnStays, KeptInv
<1>6. CASE /\ H2Body!outflowFits(csf[s].flow, n) /\ UNCHANGED ccf
           /\ csf' = [csf EXCEPT ![s].flow = H2Body!Wrap(@ + n), ![s].granted = @ + n]
  <2>1. DOMAIN csf' = sit.streams
    BY <1>6 DEF FlowInv
  <2>2. ASSUME NEW q \in sit.streams PROVE DOMAIN csf'[q] = CsFields /\ StreamFlowOK(csf'[q], ccf.initial)
    <3>1. CASE q # s
      BY <1>6, <3>1 DEF FlowInv
    <3>2. CASE q = s
      <4>. DEFINE c == csf[q]
      <4>1. DOMAIN c = CsFields /\ StreamFlowOK(c, ccf.initial)
        BY DEF FlowInv
      <4>2. csf'[q] = [c EXCEPT !.flow = H2Body!Wrap(c.flow + n), !.granted = c.granted + n]
        BY <1>6, <3>2 DEF FlowInv
      <4>3. H2Body!outflowFits(c.flow, n)
        BY <1>6, <3>2
      <4>. HIDE DEF c
      <4>4. H2Body!Wrap(c.flow + n) = c.flow + n /\ c.flow + n <= MaxWindow
        BY <1>1, <1>2, <4>1, <4>3, OutflowAdd DEF StreamFlowOK
      <4>5. /\ DOMAIN csf'[q] = CsFields /\ csf'[q].flow = c.flow + n /\ csf'[q].granted = c.granted + n
            /\ csf'[q].sent = c.sent /\ csf'[q].taken = c.taken /\ csf'[q].toSend = c.toSend
            /\ csf'[q].open = c.open
        BY <4>1, <4>2, <4>4 DEF CsFields
      <4>. QED  BY <1>1, <1>2, <4>1, <4>4, <4>5 DEF StreamFlowOK
    <3>. QED  BY <3>1, <3>2
  <2>. QED  BY <1>1, <1>6, <2>1, <2>2 DEF FlowInv
<1>7. CASE ccf' = [ccf EXCEPT !.reader = "stuck"] /\ csf' = [csf EXCEPT ![s].readAborted = TRUE]
  <2>1. ConnFlowKept
    BY <1>2, <1>7 DEF ConnFlowKept, CcFields
  <2>2. s \in sit.streams => SameFlow(csf[s], [csf[s] EXCEPT !.readAborted = TRUE])
    BY DEF FlowInv, SameFlow, CsFields
  <2>3. FlowsKept
    BY <1>7, <2>2, OneMoves
  <2>. QED  BY <1>1, <2>1, <2>3, KeptInv
<1>. QED  BY <1>3, <1>4, <1>5, <1>6, <1>7 DEF H2Body!processWindowUpdate, s, n

-----------------------------------------------------------------------------
\* The stream's goroutine and the caller.

LEMMA awaitFlowControlKeeps ==
  ASSUME H2BodyConstants, FlowInv, NEW s \in sit.streams, H2Body!awaitFlowControl(s) PROVE FlowInv'
<1>. DEFINE c == csf[s]
            a == H2Body!available(s)
            S == {a, c.toSend, MaxFrameSize}
            n == H2Body!Min(S)
<1>1. ccf.flow \in 0 .. MaxWindow /\ ccf.initial \in 0 .. MaxWindow /\ MaxWindow \in Nat \ {0}
      /\ DOMAIN ccf = CcFields /\ MaxFrameSize \in Nat \ {0}
  BY DEF FlowInv, ConnFlowOK, H2BodyConstants
<1>2. DOMAIN c = CsFields /\ StreamFlowOK(c, ccf.initial)
  BY DEF FlowInv
<1>3. a \in Nat \ {0} /\ a <= ccf.flow /\ a <= c.flow /\ c.toSend \in Nat \ {0} /\ c.taken = 0
  BY <1>1, <1>2 DEF H2Body!awaitFlowControl, H2Body!available, StreamFlowOK
<1>4. /\ ccf' = [ccf EXCEPT !.flow = @ - n]
      /\ csf' = [csf EXCEPT ![s].flow = @ - n, ![s].taken = n, ![s].toSend = @ - n]
      /\ UNCHANGED <<sit, wire>>
  BY DEF H2Body!awaitFlowControl
<1>. HIDE DEF a
<1>5. n \in S /\ \A x \in S : n <= x
  <2>1. \E y \in S : \A x \in S : y <= x
    <3>1. a \in Int /\ c.toSend \in Int /\ MaxFrameSize \in Int
      BY <1>1, <1>3
    <3>. QED  BY <3>1
  <2>. QED  BY <2>1 DEF H2Body!Min
<1>6. n \in Nat \ {0} /\ n <= ccf.flow /\ n <= c.flow /\ n <= c.toSend
  <2>1. n \in {a, c.toSend, MaxFrameSize} /\ n <= a /\ n <= c.toSend
    BY <1>5
  <2>. HIDE DEF n
  <2>. QED  BY <1>1, <1>2, <1>3, <2>1 DEF StreamFlowOK
<1>. HIDE DEF n
<1>7. ConnFlowOK(ccf') /\ ccf'.initial = ccf.initial
  BY <1>1, <1>4, <1>6 DEF ConnFlowOK, CcFields
<1>8. DOMAIN csf' = sit.streams
  BY <1>4 DEF FlowInv
<1>9. ASSUME NEW q \in sit.streams PROVE DOMAIN csf'[q] = CsFields /\ StreamFlowOK(csf'[q], ccf.initial)
  <2>1. CASE q # s
    BY <1>4, <2>1 DEF FlowInv
  <2>2. CASE q = s
    <3>1. csf'[q] = [c EXCEPT !.flow = c.flow - n, !.taken = n, !.toSend = c.toSend - n]
      BY <1>4, <2>2 DEF FlowInv
    <3>. HIDE DEF c
    <3>2. /\ DOMAIN csf'[q] = CsFields /\ csf'[q].flow = c.flow - n /\ csf'[q].taken = n
          /\ csf'[q].sent = c.sent /\ csf'[q].toSend = c.toSend - n /\ csf'[q].granted = c.granted
      BY <1>2, <3>1 DEF CsFields
    <3>. QED  BY <1>1, <1>2, <1>3, <1>6, <3>2 DEF StreamFlowOK
  <2>. QED  BY <2>1, <2>2
<1>. QED  BY <1>4, <1>7, <1>8, <1>9 DEF FlowInv

LEMMA writeDataKeeps ==
  ASSUME H2BodyConstants, FlowInv, NEW s \in sit.streams, H2Body!writeData(s) PROVE FlowInv'
<1>. DEFINE c == csf[s]
<1>1. csf' = [csf EXCEPT ![s].sent = @ + c.taken, ![s].taken = 0] /\ UNCHANGED <<sit, wire, ccf>>
  BY DEF H2Body!writeData
<1>2. DOMAIN csf' = sit.streams
  BY <1>1 DEF FlowInv
<1>3. ASSUME NEW q \in sit.streams PROVE DOMAIN csf'[q] = CsFields /\ StreamFlowOK(csf'[q], ccf.initial)
  <2>1. CASE q # s
    BY <1>1, <2>1 DEF FlowInv
  <2>2. CASE q = s
    <3>1. csf'[q] = [c EXCEPT !.sent = c.sent + c.taken, !.taken = 0]
      BY <1>1, <2>2 DEF FlowInv
    <3>2. DOMAIN c = CsFields /\ StreamFlowOK(c, ccf.initial)
      BY DEF FlowInv
    <3>. HIDE DEF c
    <3>3. /\ DOMAIN csf'[q] = CsFields /\ csf'[q].flow = c.flow /\ csf'[q].taken = 0
          /\ csf'[q].sent = c.sent + c.taken /\ csf'[q].toSend = c.toSend /\ csf'[q].granted = c.granted
          /\ csf'[q].open = c.open
      BY <3>1, <3>2 DEF CsFields
    <3>. QED  BY <3>2, <3>3 DEF StreamFlowOK, H2BodyConstants
  <2>. QED  BY <2>1, <2>2
<1>. QED  BY <1>1, <1>2, <1>3 DEF FlowInv

LEMMA callersKeep ==
  ASSUME H2BodyConstants, FlowInv, NEW s \in sit.streams,
         \/ H2Body!closePipe(s) \/ H2Body!forgetStreamID(s) \/ H2Body!roundTrip(s) \/ H2Body!cancel(s) \/ H2Body!ReadNothing(s)
         \/ H2Body!Close(s) \/ H2Body!returnUnread(s) \/ H2Body!returnWindow(s)
  PROVE  FlowInv'
<1>. DEFINE c == csf[s]
<1>1. UNCHANGED <<sit, wire>>
  BY DEF H2Body!closePipe, H2Body!forgetStreamID, H2Body!roundTrip, H2Body!cancel, H2Body!ReadNothing, H2Body!Close, H2Body!returnUnread,
         H2Body!returnWindow
<1>2. DOMAIN c = CsFields
  BY DEF FlowInv
<1>3. ASSUME NEW v PROVE /\ SameFlow(c, [c EXCEPT !.done = TRUE]) /\ SameFlow(c, [c EXCEPT !.open = FALSE])
                         /\ SameFlow(c, [c EXCEPT !.inflow = v]) /\ SameFlow(c, H2Body!abortStream(c, v))
  BY <1>2, SameFlowOps DEF SameFlow, CsFields
<1>4. \/ UNCHANGED csf
      \/ csf' = [csf EXCEPT ![s] = [c EXCEPT !.done = TRUE]]
      \/ csf' = [csf EXCEPT ![s] = [c EXCEPT !.open = FALSE]]
      \/ \E v : csf' = [csf EXCEPT ![s] = [c EXCEPT !.inflow = v]]
      \/ \E v : csf' = [csf EXCEPT ![s] = H2Body!abortStream(c, v)]
  BY DEF H2Body!closePipe, H2Body!forgetStreamID, H2Body!roundTrip, H2Body!cancel, H2Body!ReadNothing, H2Body!Close, H2Body!returnUnread,
         H2Body!returnWindow
<1>5. FlowsKept
  <2>1. CASE UNCHANGED csf
    BY <2>1, NoneMoves
  <2>2. ASSUME NEW d, SameFlow(c, d), csf' = [csf EXCEPT ![s] = d] PROVE FlowsKept
    BY <2>2, OneMoves
  <2>. QED  BY <1>3, <1>4, <2>1, <2>2
<1>6. UNCHANGED ccf \/ \E v : ccf' = [ccf EXCEPT !.inflow = v]
  BY DEF H2Body!closePipe, H2Body!forgetStreamID, H2Body!roundTrip, H2Body!cancel, H2Body!ReadNothing, H2Body!Close, H2Body!returnUnread,
         H2Body!returnWindow
<1>7. ConnFlowKept
  BY <1>6 DEF FlowInv, ConnFlowOK, CcFields, ConnFlowKept
<1>8. WireOK(wire')
  BY <1>1 DEF FlowInv
<1>. QED  BY <1>1, <1>5, <1>7, <1>8, KeptInv

LEMMA ReadKeeps ==
  ASSUME H2BodyConstants, FlowInv, NEW s \in sit.streams, H2Body!Read(s) PROVE FlowInv'
<1>. DEFINE c == csf[s]
<1>1. UNCHANGED <<sit, wire, ccf>>
  BY SMTT(30) DEF H2Body!Read
<1>2. DOMAIN c = CsFields
  BY SMTT(30) DEF FlowInv
<1>. DEFINE r(k) == H2Body!pipeRead(pipe[s], k)
            n(k) == Len(r(k).data)
            remain == c.bytesRemain
            long(k) == remain # -1 /\ n(k) > remain
            short(k) == remain # -1 /\ r(k).err = "EOF" /\ remain > 0
            e(k) == CASE long(k) /\ r(k).err = "nil" -> "truncated"
                      [] short(k) -> "unexpectedEOF"
                      [] OTHER -> r(k).err
            d(k) == IF long(k) THEN H2Body!abortStream(c, "truncated") ELSE c
            x(k) == IF remain = -1 \/ long(k) THEN d(k).bytesRemain ELSE d(k).bytesRemain - n(k)
            y(k) == IF long(k) \/ short(k) THEN e(k) ELSE d(k).readErr
            z(k) == d(k).resTrailer \/ (pipe[s].readFn /\ r(k).err = "EOF" /\ c.trailer)
            m(k) == [d(k) EXCEPT !.bytesRemain = x(k), !.readErr = y(k), !.resTrailer = z(k)]
<1>3. PICK k \in sit.reads : csf' = [csf EXCEPT ![s] = m(k)]
  BY DEF H2Body!Read
<1>. HIDE DEF c, x, y, z
<1>4. SameFlow(c, d(k))
  BY <1>2, SameFlowOps
<1>. HIDE DEF d
<1>5. SameFlow(d(k), m(k))
  BY <1>4 DEF SameFlow, CsFields
<1>. HIDE DEF m
<1>6. SameFlow(c, m(k))
  BY <1>4, <1>5, SameFlowTrans
<1>7. FlowsKept
  BY <1>3, <1>6, OneMoves DEF c
<1>8. WireOK(wire')
  BY <1>1 DEF FlowInv
<1>. QED  BY <1>1, <1>7, <1>8, ConnStays, KeptInv

\* The server.
LEMMA serverSendsKeep ==
  ASSUME H2BodyConstants, FlowInv, NEW s \in sit.streams,
         \/ H2Body!serverHeaders(s) \/ H2Body!serverData(s) \/ H2Body!serverEnd(s) \/ H2Body!serverReset(s) \/ H2Body!serverUpdates(s)
  PROVE  FlowInv'
<1>1. UNCHANGED <<sit, ccf, csf>>
  BY DEF H2Body!serverHeaders, H2Body!serverData, H2Body!serverEnd, H2Body!serverReset, H2Body!serverUpdates
<1>2. \E f : UpdateOK(f) /\ H2Body!serverSends(f)
  <2>1. CASE H2Body!serverHeaders(s)
    BY <2>1 DEF H2Body!serverHeaders, H2Body!Frame, UpdateOK
  <2>2. CASE H2Body!serverData(s)
    <3>1. PICK k \in 1 .. 2 :
            H2Body!serverSends(H2Body!Frame("data", s, [i \in 1 .. k |-> peer.sent[s] + i], k + sit.pad,
                                    peer.sent[s] + k = sit.total /\ ~sit.trailers))
      BY <2>2 DEF H2Body!serverData
    <3>2. ASSUME NEW data, NEW n, NEW end PROVE UpdateOK(H2Body!Frame("data", s, data, n, end))
      BY DEF H2Body!Frame, UpdateOK
    <3>. QED  BY <3>1, <3>2
  <2>3. CASE H2Body!serverEnd(s)
    BY <2>3 DEF H2Body!serverEnd, H2Body!Frame, UpdateOK
  <2>4. CASE H2Body!serverReset(s)
    BY <2>4 DEF H2Body!serverReset, H2Body!Frame, UpdateOK
  <2>5. CASE H2Body!serverUpdates(s)
    BY <2>5 DEF H2Body!serverUpdates, H2Body!Frame, UpdateOK, FlowInv
  <2>. QED  BY <2>1, <2>2, <2>3, <2>4, <2>5
<1>3. WireOK(wire')
  BY <1>2, WireGets
<1>. QED  BY <1>1, <1>3, NoneMoves, ConnStays, KeptInv

LEMMA FlowStep == H2BodyConstants /\ FlowInv /\ [H2Body!Next]_(H2Body!vars) => FlowInv'
<1>. SUFFICES ASSUME H2BodyConstants, FlowInv, [H2Body!Next]_(H2Body!vars) PROVE FlowInv'
  OBVIOUS
<1>1. CASE UNCHANGED <<sit, wire, ccf, csf>>
  BY <1>1 DEF FlowInv
<1>2. CASE UNCHANGED H2Body!vars \/ H2Body!serverSeesCredit
  BY <1>1, <1>2 DEF H2Body!vars, H2Body!serverSeesCredit
<1>. QED  BY <1>2, headersKeep, dataKeeps, resetKeeps, settingsKeep, windowUpdateKeeps, awaitFlowControlKeeps,
             writeDataKeeps, callersKeep, ReadKeeps, serverSendsKeep
          DEF H2Body!Next

-----------------------------------------------------------------------------
\* http3.Transport, for any number of requests, clients and dials: no request is
\* acted on twice by the server, and CloseIdleConnections spares every client that
\* a request is dialing, opening a stream on or awaiting a response from.
\* http3.Conn, for any number of requests and whatever the server sends: c.streams
\* has exactly the registered streams with an open side, after a GOAWAY the
\* connection is closed when the last of them is gone and not before, and who waits
\* in ReceiveDatagram is woken by a datagram and by the end of the stream.
THEOREM H3ClientsCareful == Spec => []H3Careful
<1>. DEFINE I == /\ part = "h3pool" => H3PoolInv
                 /\ part = "h3stream" => H3StreamInv
<1>1. Init => I
  BY H3PoolInit, H3StreamInit, H3PoolAssumption, H3StreamAssumption DEF Init
<1>2. I /\ [Next]_all => I'
  <2>. SUFFICES ASSUME I, [Next]_all PROVE I'
    OBVIOUS
  <2>1. ASSUME part' = "h3pool" PROVE H3PoolInv'
    <3>1. part = "h3pool" /\ [H3Pool!Next]_(H3Pool!h3poolVars)
      BY <2>1 DEF Next, all, H3Pool!h3poolVars
    <3>. QED  BY <3>1, H3PoolStep, H3PoolAssumption
  <2>2. ASSUME part' = "h3stream" PROVE H3StreamInv'
    <3>1. part = "h3stream" /\ [H3Stream!Next]_(H3Stream!h3Vars)
      BY <2>2 DEF Next, all, H3Stream!h3Vars
    <3>. QED  BY <3>1, H3StreamStep
  <2>. QED  BY <2>1, <2>2
<1>3. I => H3Careful
  BY H3PoolSafe, H3StreamSafe DEF H3Careful
<1>. QED  BY <1>1, <1>2, <1>3, PTL DEF Spec

\* outflow, for any number of streams and every sequence of WINDOW_UPDATE and
\* SETTINGS_INITIAL_WINDOW_SIZE the protocol allows, in int32 arithmetic: what was
\* written of a request body, what is reserved for the next DATA frame and what
\* may still be taken is at most what the server granted, and the window of the
\* connection is never negative.
THEOREM WindowsRespected == Spec => []NoOverdraft
<1>. DEFINE I == part = "h2body" => FlowInv
<1>1. Init => I
  BY FlowInit, H2BodyAssumption DEF Init
<1>2. I /\ [Next]_all => I'
  <2>. SUFFICES ASSUME I, [Next]_all, part' = "h2body" PROVE FlowInv'
    OBVIOUS
  <2>1. part = "h2body" /\ [H2Body!Next]_(H2Body!vars)
    BY DEF Next, all, H2Body!vars
  <2>. QED  BY <2>1, FlowStep, H2BodyAssumption
<1>3. I => NoOverdraft
  BY FlowSafe, H2BodyAssumption DEF NoOverdraft
<1>. QED  BY <1>1, <1>2, <1>3, PTL DEF Spec
=============================================================================
