--------------------------- MODULE RequestProofs ----------------------------
(***************************************************************************)
(* Theorems about Request.Do with its retries, about Digest authentication *)
(* and about the dumps, each as a part of the composition.                 *)
(***************************************************************************)
EXTENDS Protocols, SequencesExt, FiniteSetTheorems, SequenceTheorems, TLAPS

-----------------------------------------------------------------------------
(* Request.Do: attempts, bodies and errors.                                *)

\* The variables of RequestDo in the composition.
cfg       == v1
pc        == v2
attempt   == v3
ctx       == v4
err       == v5
resp      == v6
canceled  == v7
arrived   == v8
open      == v9
out       == v10
outClosed == v11
common    == v12
consumed  == v13
sent      == v14
late      == v15
failed    == v16
USE DEF cfg, pc, attempt, ctx, err, resp, canceled, arrived, open, out, outClosed, common,
    consumed, sent, late, failed

ReqErrs == {"nil", "unreplayable", "middleware", "getBody", "transport", "canceled", "deadline", "tooLarge",
            "read", "unmarshal", "create", "closed", "after"}
RespType == [Err : ReqErrs, has : BOOLEAN, cached : BOOLEAN]
PayloadType == [cookies : Nat, form : Nat, body : {"none", "empty", "full"}]

\* Where do() is: before the attempt is sent, with its response, after it.
Starting == {"udBeforeRequest", "beforeRequest", "roundTrip"}
Reading == {"applyMaxResponseSize", "autoRead", "parseResponseBody", "handleDownload"}
Ending == {"afterResponse", "decide", "return"}

RequestTyped ==
    /\ cfg \in Configs /\ pc \in {"Do", "waitRetryInterval"} \cup Starting \cup Reading \cup Ending
    /\ attempt \in Nat /\ ctx \in {"live", "canceled", "deadline"}
    /\ err \in ReqErrs /\ resp \in RespType /\ canceled \in BOOLEAN /\ failed \in BOOLEAN
    /\ common \in Nat \X Nat /\ sent \in Seq(PayloadType) /\ consumed \in BOOLEAN /\ late \in Nat

\* The attempts: their number, what was sent, whose body may be open.
Attempts ==
    /\ cfg.max >= 0 => attempt <= cfg.max
    /\ open \subseteq {attempt} /\ Len(sent) <= attempt + 1
    /\ pc \in {"Do", "waitRetryInterval"} \cup Starting => open = {} /\ Len(sent) <= attempt

\* The errors: failed and Response.Err tell the same story once there is a
\* response, and err is Response.Err unless the request's middleware cleared it.
ErrorsMatch ==
    /\ pc \in {"Do"} \cup Starting => ~failed
    /\ pc \in Reading \cup Ending => (failed <=> resp.Err # "nil")
    /\ pc = "afterResponse" => err = resp.Err
    /\ pc = "decide" => /\ err = resp.Err \/ (cfg.after /\ err = "nil")
                        /\ canceled /\ ~cfg.after => err = "canceled"

\* Nobody reads the body for the caller: automatic reading is off or the answer is
\* a 101.
CallersBody == cfg.save = "no" /\ (~cfg.auto \/ arrived = "switch")

\* The body of the attempt that is read is closed in time.
BodiesClosed ==
    /\ pc \in Reading => /\ resp.Err = "nil" => resp.has
                         /\ ~resp.has => open = {}
                         /\ resp.Err # "nil" /\ ~resp.cached => open = {}
    /\ pc \in {"applyMaxResponseSize", "autoRead"} => ~resp.cached
    /\ pc \in {"parseResponseBody", "handleDownload"} /\ cfg.save = "no" => open = {} \/ CallersBody
    /\ pc \in Ending => open = {} \/ resp.Err = "create" \/ CallersBody
    /\ pc \in Ending /\ resp.Err = "nil" /\ cfg.save = "file" => out = <<attempt>>

\* Once a request was sent with a canceled context its error goes through.
CancelGoesThrough ==
    /\ late <= 1
    /\ late = 1 => \/ pc \in Reading /\ resp.Err = "canceled" /\ ~resp.has
                   \/ pc = "afterResponse" /\ err = "canceled"
                   \/ pc = "decide" /\ canceled
                   \/ pc = "return"

RequestInv ==
    /\ RequestTyped /\ Attempts /\ ErrorsMatch /\ BodiesClosed /\ CancelGoesThrough
    /\ Request!ErrorsRetried

\* A body that can be read once is not sent a second time.
BodySentOnce ==
    /\ \A i \in 1 .. Len(sent) : sent[i].body # "empty"
    /\ cfg.body = "reader" /\ pc \notin {"Do", "return"} => ~cfg.retry \/ cfg.max = 0
    /\ cfg.body \in {"reader", "field"} /\ pc \in {"Do", "waitRetryInterval"} \cup Starting =>
          ~consumed /\ pc # "waitRetryInterval"

LEMMA RequestInit == RequestConstants /\ Request!Init => RequestInv /\ BodySentOnce
<1>. SUFFICES ASSUME RequestConstants, Request!Init PROVE RequestInv /\ BodySentOnce
  OBVIOUS
<1>. USE DEF Request!Init, Request!NoResp
<1>0. Request!NoResp \in RespType /\ "nil" \in ReqErrs
  BY DEF RespType, ReqErrs
<1>01. <<0, 0>> \in Nat \X Nat /\ <<>> \in Seq(PayloadType)
  OBVIOUS
<1>1. RequestTyped
  BY <1>0, <1>01 DEF RequestTyped
<1>2. Attempts
  BY DEF Attempts
<1>3. ErrorsMatch /\ BodiesClosed /\ CancelGoesThrough /\ Request!ErrorsRetried
  BY DEF ErrorsMatch, BodiesClosed, CallersBody, CallersBody, CancelGoesThrough, Request!ErrorsRetried, Reading, Ending, Starting
<1>4. BodySentOnce
  BY DEF BodySentOnce
<1>. QED  BY <1>1, <1>2, <1>3, <1>4 DEF RequestInv

LEMMA FinishGives ==
  ASSUME NEW e \in ReqErrs, NEW r \in RespType, Request!Finish(e, r)
  PROVE  /\ pc' = "return" /\ err' = e /\ resp' \in RespType
         /\ resp'.Err = IF e # "nil" /\ r.Err = "nil" THEN e ELSE r.Err
  BY DEF Request!Finish, RespType

\* What tryRetry decides.
LEMMA tryRetryGives ==
  ASSUME RequestConstants, RequestInv, NEW e \in ReqErrs, Request!tryRetry(e, resp)
  PROVE  /\ err' = e /\ resp' \in RespType /\ resp'.Err = (IF e # "nil" THEN e ELSE resp.Err)
         /\ \/ /\ pc' = "waitRetryInterval" /\ attempt' = attempt + 1 /\ open' = open \ {attempt}
               /\ Request!BudgetLeft /\ e # "canceled"
            \/ /\ pc' = "return" /\ UNCHANGED <<attempt, open>>
               /\ ~cfg.conds => e \in {"nil", "canceled"} \/ ~Request!BudgetLeft
<1>. DEFINE r1 == IF e # "nil" THEN [resp EXCEPT !.Err = e] ELSE resp
<1>1. resp \in RespType
  BY DEF RequestInv, RequestTyped
<1>2. r1 \in RespType /\ r1.Err = (IF e # "nil" THEN e ELSE resp.Err)
  BY <1>1 DEF RespType
<1>. HIDE DEF r1
<1>3. CASE /\ TRUE \in Request!shouldRetry(e) /\ attempt' = attempt + 1 /\ open' = open \ {attempt}
           /\ resp' = [r1 EXCEPT !.cached = FALSE] /\ pc' = "waitRetryInterval" /\ err' = e
  <2>1. Request!BudgetLeft /\ e # "canceled"
    BY <1>3 DEF Request!shouldRetry
  <2>2. resp' \in RespType /\ resp'.Err = r1.Err
    BY <1>2, <1>3 DEF RespType
  <2>. QED  BY <1>2, <1>3, <2>1, <2>2
<1>4. CASE FALSE \in Request!shouldRetry(e) /\ Request!Finish(e, r1) /\ UNCHANGED <<attempt, open>>
  <2>1. ~cfg.conds => e \in {"nil", "canceled"} \/ ~Request!BudgetLeft
    BY <1>4 DEF Request!shouldRetry
  <2>2. /\ pc' = "return" /\ err' = e /\ resp' \in RespType
        /\ resp'.Err = IF e # "nil" /\ r1.Err = "nil" THEN e ELSE r1.Err
    BY <1>2, <1>4, FinishGives
  <2>. QED  BY <1>2, <1>4, <2>1, <2>2
<1>. QED  BY <1>3, <1>4 DEF Request!tryRetry, Request!closeRetryResponseBody, r1

\* The attempt is over, with error e: a retry or the end of do().
LEMMA AttemptOver ==
  ASSUME RequestConstants, RequestInv, NEW e \in ReqErrs, Request!tryRetry(e, resp),
         UNCHANGED <<cfg, arrived, ctx, canceled, sent, late, out>>, common' \in Nat \X Nat, consumed' \in BOOLEAN,
         late = 0, failed' \in BOOLEAN,
         \/ pc \in Starting /\ e = "middleware" /\ failed'
         \/ pc = "decide" /\ e = err /\ failed' = failed
  PROVE  RequestInv'
<1>. USE DEF Starting, Reading, Ending
<1>0. RequestTyped /\ Attempts /\ ErrorsMatch /\ BodiesClosed /\ CancelGoesThrough /\ cfg.max \in Int
  BY DEF RequestInv, RequestTyped, RequestConstants, Request!ConfigOK
<1>1. /\ err' = e /\ resp' \in RespType /\ resp'.Err = (IF e # "nil" THEN e ELSE resp.Err)
      /\ \/ /\ pc' = "waitRetryInterval" /\ attempt' = attempt + 1 /\ open' = open \ {attempt}
            /\ Request!BudgetLeft /\ e # "canceled"
         \/ /\ pc' = "return" /\ UNCHANGED <<attempt, open>>
            /\ ~cfg.conds => e \in {"nil", "canceled"} \/ ~Request!BudgetLeft
  BY tryRetryGives
<1>2. CASE /\ pc' = "waitRetryInterval" /\ attempt' = attempt + 1 /\ open' = open \ {attempt}
           /\ Request!BudgetLeft
  <2>1. RequestTyped'
    BY <1>0, <1>1, <1>2 DEF RequestTyped
  <2>2. Attempts'
    BY <1>0, <1>2 DEF Attempts, RequestTyped, Request!BudgetLeft
  <2>3. ErrorsMatch' /\ BodiesClosed' /\ CancelGoesThrough' /\ Request!ErrorsRetried'
    BY <1>2 DEF ErrorsMatch, BodiesClosed, CallersBody, CancelGoesThrough, Request!ErrorsRetried
  <2>. QED  BY <2>1, <2>2, <2>3 DEF RequestInv
<1>3. CASE /\ pc' = "return" /\ UNCHANGED <<attempt, open>>
           /\ ~cfg.conds => e \in {"nil", "canceled"} \/ ~Request!BudgetLeft
  <2>1. RequestTyped'
    BY <1>0, <1>1, <1>3 DEF RequestTyped
  <2>2. Attempts'
    BY <1>0, <1>3 DEF Attempts
  <2>3. ErrorsMatch'
    BY <1>0, <1>1, <1>3 DEF ErrorsMatch
  <2>4. BodiesClosed'
    BY <1>0, <1>1, <1>3 DEF BodiesClosed, CallersBody, Attempts, ErrorsMatch
  <2>5. CancelGoesThrough'
    BY <1>3 DEF CancelGoesThrough
  <2>6. Request!ErrorsRetried'
    BY <1>0, <1>1, <1>3 DEF Request!ErrorsRetried, Request!BudgetLeft, ErrorsMatch, RequestTyped
  <2>. QED  BY <2>1, <2>2, <2>3, <2>4, <2>5, <2>6 DEF RequestInv
<1>. QED  BY <1>1, <1>2, <1>3

\* do() before the attempt is sent.
LEMMA StartingKeeps ==
  ASSUME RequestConstants, RequestInv,
         Request!Do \/ Request!udBeforeRequest \/ Request!beforeRequest \/ Request!waitRetryInterval \/ Request!endContext
  PROVE  RequestInv'
<1>. USE DEF Request!respVars, Request!outVars, Request!bodyVars, Starting, Reading, Ending
<1>0. RequestTyped /\ Attempts /\ ErrorsMatch /\ BodiesClosed /\ CancelGoesThrough /\ Request!ErrorsRetried
  BY DEF RequestInv
<1>1. CASE Request!Do
  <2>1. CASE pc' = "udBeforeRequest" /\ UNCHANGED <<err, resp, failed>>
    BY <1>0, <1>1, <2>1
       DEF Request!Do, RequestInv, RequestTyped, Attempts, ErrorsMatch, BodiesClosed, CallersBody, CancelGoesThrough, Request!ErrorsRetried
  <2>2. CASE Request!Finish("unreplayable", Request!NoResp) /\ failed' = TRUE
    <3>1. Request!NoResp \in RespType /\ Request!NoResp.Err = "nil" /\ "unreplayable" \in ReqErrs
      BY DEF Request!NoResp, RespType, ReqErrs
    <3>2. pc' = "return" /\ err' = "unreplayable" /\ resp' \in RespType /\ resp'.Err = "unreplayable"
      BY <2>2, <3>1, FinishGives
    <3>. QED  BY <1>0, <1>1, <2>2, <3>1, <3>2
       DEF Request!Do, RequestInv, RequestTyped, Attempts, ErrorsMatch, BodiesClosed, CallersBody, CancelGoesThrough, Request!ErrorsRetried
  <2>. QED  BY <1>1, <2>1, <2>2 DEF Request!Do
<1>2. CASE Request!udBeforeRequest
  <2>1. CASE pc' = "beforeRequest" /\ UNCHANGED <<attempt, err, resp, failed, open>>
    BY <1>0, <1>2, <2>1
       DEF Request!udBeforeRequest, RequestInv, RequestTyped, Attempts, ErrorsMatch, BodiesClosed, CallersBody, CancelGoesThrough,
           Request!ErrorsRetried
  <2>2. CASE Request!tryRetry("middleware", resp) /\ failed' = TRUE
    <3>1. late = 0
      BY <1>0, <1>2 DEF Request!udBeforeRequest, CancelGoesThrough, RequestTyped
    <3>2. "middleware" \in ReqErrs
      BY DEF ReqErrs
    <3>3. UNCHANGED <<cfg, arrived, ctx, canceled, sent, late, out, common, consumed>> /\ pc \in Starting
      BY <1>2 DEF Request!udBeforeRequest
    <3>. QED  BY <1>0, <2>2, <3>1, <3>2, <3>3, AttemptOver DEF RequestTyped
  <2>. QED  BY <1>2, <2>1, <2>2 DEF Request!udBeforeRequest
<1>3. CASE Request!beforeRequest
  <2>0. /\ common[1] \in Nat /\ common[2] \in Nat /\ Request!parseRequestCookie \in Nat /\ Request!parseRequestBody \in Nat
    BY <1>0 DEF RequestTyped, Request!parseRequestCookie, Request!parseRequestBody
  <2>01. common' \in Nat \X Nat
    BY <1>3, <2>0 DEF Request!beforeRequest
  <2>1. CASE pc' = "roundTrip" /\ UNCHANGED <<attempt, err, resp, failed, open>>
    BY <1>0, <1>3, <2>01, <2>1
       DEF Request!beforeRequest, RequestInv, RequestTyped, Attempts, ErrorsMatch, BodiesClosed, CallersBody, CancelGoesThrough,
           Request!ErrorsRetried
  <2>2. CASE Request!tryRetry("middleware", resp) /\ failed' = TRUE
    <3>1. late = 0
      BY <1>0, <1>3 DEF Request!beforeRequest, CancelGoesThrough, RequestTyped
    <3>2. "middleware" \in ReqErrs
      BY DEF ReqErrs
    <3>3. UNCHANGED <<cfg, arrived, ctx, canceled, sent, late, out, consumed>> /\ pc \in Starting
      BY <1>3 DEF Request!beforeRequest
    <3>. QED  BY <1>0, <2>01, <2>2, <3>1, <3>2, <3>3, AttemptOver DEF RequestTyped
  <2>. QED  BY <1>3, <2>1, <2>2 DEF Request!beforeRequest
<1>4. CASE Request!waitRetryInterval
  <2>1. CASE pc' = "udBeforeRequest" /\ failed' = FALSE /\ UNCHANGED <<err, resp>>
    BY <1>0, <1>4, <2>1
       DEF Request!waitRetryInterval, RequestInv, RequestTyped, Attempts, ErrorsMatch, BodiesClosed, CallersBody, CancelGoesThrough,
           Request!ErrorsRetried
  <2>2. CASE ctx # "live" /\ Request!Finish(ctx, resp) /\ failed' = TRUE
    <3>1. ctx \in ReqErrs /\ ctx # "nil" /\ resp \in RespType
      BY <1>0, <2>2 DEF RequestTyped, ReqErrs
    <3>2. pc' = "return" /\ err' = ctx /\ resp' \in RespType /\ resp'.Err # "nil"
      BY <2>2, <3>1, FinishGives
    <3>. QED  BY <1>0, <1>4, <2>2, <3>1, <3>2
       DEF Request!waitRetryInterval, RequestInv, RequestTyped, Attempts, ErrorsMatch, BodiesClosed, CallersBody, CancelGoesThrough,
           Request!ErrorsRetried
  <2>. QED  BY <1>4, <2>1, <2>2 DEF Request!waitRetryInterval
<1>5. CASE Request!endContext
  BY <1>0, <1>5
     DEF Request!endContext, RequestInv, RequestTyped, Attempts, ErrorsMatch, BodiesClosed, CallersBody, CancelGoesThrough,
         Request!ErrorsRetried
<1>. QED  BY <1>1, <1>2, <1>3, <1>4, <1>5

LEMMA RespExcept ==
  ASSUME NEW r \in RespType, NEW e \in ReqErrs
  PROVE  /\ [r EXCEPT !.Err = e] \in RespType
         /\ [r EXCEPT !.Err = e].Err = e
         /\ [r EXCEPT !.Err = e].has = r.has /\ [r EXCEPT !.Err = e].cached = r.cached
         /\ [r EXCEPT !.Err = e, !.cached = TRUE] \in RespType
         /\ [r EXCEPT !.Err = e, !.cached = TRUE].Err = e
         /\ [r EXCEPT !.Err = e, !.cached = TRUE].has = r.has
         /\ [r EXCEPT !.Err = e, !.cached = TRUE].cached = TRUE
  BY DEF RespType

LEMMA NoRespFields ==
  /\ Request!NoResp \in RespType
  /\ \A e \in ReqErrs : /\ [Request!NoResp EXCEPT !.Err = e] \in RespType
                        /\ [Request!NoResp EXCEPT !.Err = e].Err = e /\ [Request!NoResp EXCEPT !.Err = e].has = FALSE
                        /\ [Request!NoResp EXCEPT !.Err = e].cached = FALSE
  /\ [Request!NoResp EXCEPT !.has = TRUE] \in RespType
  /\ [Request!NoResp EXCEPT !.has = TRUE].Err = "nil" /\ [Request!NoResp EXCEPT !.has = TRUE].has = TRUE
  /\ [Request!NoResp EXCEPT !.has = TRUE].cached = FALSE
  BY DEF RespType, Request!NoResp, ReqErrs

LEMMA ReadErrsKnown == ASSUME RequestTyped PROVE Request!ReadErrs \subseteq ReqErrs
<1>1. {"nil", "read", "tooLarge"} \subseteq ReqErrs
  BY DEF ReqErrs
<1>2. {ctx} \ {"live"} \subseteq ReqErrs
  BY DEF RequestTyped, ReqErrs
<1>. QED  BY <1>1, <1>2 DEF Request!ReadErrs

\* What ToBytes may leave in the Response.
LEMMA ToBytesGives ==
  ASSUME RequestTyped, NEW r \in Request!ToBytes
  PROVE  /\ r \in RespType /\ r.has = resp.has
         /\ Request!Unread => r.cached
         /\ ~Request!Unread => r = resp
         /\ resp.Err # "nil" => r = resp
<1>1. resp \in RespType
  BY DEF RequestTyped
<1>2. CASE Request!Unread
  <2>1. PICK e \in Request!ReadErrs : r = [resp EXCEPT !.Err = e, !.cached = TRUE]
    BY <1>2 DEF Request!ToBytes
  <2>2. e \in ReqErrs
    BY ReadErrsKnown
  <2>. QED  BY <1>1, <1>2, <2>1, <2>2, RespExcept DEF Request!Unread
<1>3. CASE ~Request!Unread
  BY <1>1, <1>3 DEF Request!ToBytes
<1>. QED  BY <1>2, <1>3

\* The attempt is sent.
LEMMA SendingKeeps ==
  ASSUME RequestConstants, RequestInv, Request!getBodyFails \/ Request!httpClientDo
  PROVE  RequestInv'
<1>. USE DEF Request!respVars, Request!outVars, Request!bodyVars, Starting, Reading, Ending
<1>0. RequestTyped /\ Attempts /\ ErrorsMatch /\ BodiesClosed /\ CancelGoesThrough /\ Request!ErrorsRetried
  BY DEF RequestInv
<1>1. CASE Request!getBodyFails
  <2>0. "getBody" \in ReqErrs
    BY DEF ReqErrs
  <2>1. resp' \in RespType /\ resp'.Err = "getBody" /\ err' = "getBody"
    BY <1>1, <2>0, NoRespFields DEF Request!getBodyFails
  <2>2. /\ pc = "roundTrip" /\ pc' = "afterResponse" /\ failed' = TRUE
        /\ UNCHANGED <<cfg, attempt, ctx, canceled, open, out, common, consumed, sent, late>>
    BY <1>1 DEF Request!getBodyFails
  <2>3. RequestTyped'
    BY <1>0, <2>0, <2>1, <2>2 DEF RequestTyped
  <2>4. Attempts' /\ ErrorsMatch'
    BY <1>0, <2>1, <2>2 DEF Attempts, ErrorsMatch
  <2>5. BodiesClosed'
    BY <1>0, <2>1, <2>2 DEF BodiesClosed, CallersBody, Attempts
  <2>6. CancelGoesThrough' /\ Request!ErrorsRetried'
    BY <1>0, <2>2 DEF CancelGoesThrough, Request!ErrorsRetried
  <2>. QED  BY <2>3, <2>4, <2>5, <2>6 DEF RequestInv
<1>2. CASE Request!httpClientDo
  <2>1. /\ pc = "roundTrip" /\ pc' = "applyMaxResponseSize"
        /\ sent' = Append(sent, Request!Payload) /\ consumed' = (consumed \/ Request!OneShot)
        /\ late' = (IF ctx = "canceled" THEN late + 1 ELSE late)
        /\ UNCHANGED <<cfg, attempt, ctx, err, canceled, out, common>>
    BY <1>2 DEF Request!httpClientDo
  <2>2. Request!Payload \in PayloadType
    <3>1. common[1] \in Nat /\ common[2] \in Nat
      BY <1>0 DEF RequestTyped
    <3>. QED  BY <3>1 DEF Request!Payload, PayloadType
  <2>3. sent' \in Seq(PayloadType) /\ Len(sent') = Len(sent) + 1 /\ Len(sent) \in Nat
    BY <1>0, <2>1, <2>2 DEF RequestTyped
  <2>4. late = 0 /\ late' \in Nat /\ late' <= 1 /\ (late' = 1 => ctx = "canceled")
    BY <1>0, <2>1 DEF CancelGoesThrough, RequestTyped
  <2>5. consumed' \in BOOLEAN
    BY <1>0, <2>1 DEF RequestTyped, Request!OneShot
  <2>6. open = {} /\ ~failed
    BY <1>0, <2>1 DEF Attempts, ErrorsMatch
  <2>7. CASE /\ resp' = [Request!NoResp EXCEPT !.Err = IF ctx = "live" THEN "transport" ELSE ctx]
             /\ failed' = TRUE /\ UNCHANGED open
    <3>. DEFINE e == IF ctx = "live" THEN "transport" ELSE ctx
    <3>1. e \in ReqErrs /\ e # "nil" /\ (ctx = "canceled" => e = "canceled")
      BY <1>0 DEF RequestTyped, ReqErrs
    <3>2. resp' \in RespType /\ resp'.Err = e /\ resp'.has = FALSE /\ ~resp'.cached
      BY <2>7, <3>1, NoRespFields
    <3>. HIDE DEF e
    <3>3. RequestTyped'
      BY <1>0, <2>1, <2>3, <2>4, <2>5, <2>7, <3>2 DEF RequestTyped
    <3>4. Attempts'
      BY <1>0, <2>1, <2>3, <2>6, <2>7 DEF Attempts, RequestTyped
    <3>5. ErrorsMatch' /\ Request!ErrorsRetried'
      BY <2>1, <2>7, <3>1, <3>2 DEF ErrorsMatch, Request!ErrorsRetried
    <3>6. BodiesClosed'
      BY <2>1, <2>6, <2>7, <3>1, <3>2 DEF BodiesClosed, CallersBody
    <3>7. CancelGoesThrough'
      BY <2>1, <2>4, <3>1, <3>2 DEF CancelGoesThrough
    <3>. QED  BY <3>3, <3>4, <3>5, <3>6, <3>7 DEF RequestInv
  <2>8. CASE /\ ctx = "live" /\ resp' = [Request!NoResp EXCEPT !.has = TRUE]
             /\ open' = open \cup {attempt} /\ UNCHANGED failed
    <3>2. resp' \in RespType /\ resp'.Err = "nil" /\ resp'.has = TRUE /\ ~resp'.cached
      BY <2>8, NoRespFields
    <3>3. RequestTyped'
      BY <1>0, <2>1, <2>3, <2>4, <2>5, <2>8, <3>2 DEF RequestTyped
    <3>4. Attempts'
      BY <1>0, <2>1, <2>3, <2>6, <2>8 DEF Attempts, RequestTyped
    <3>5. ErrorsMatch' /\ Request!ErrorsRetried'
      BY <2>1, <2>6, <2>8, <3>2 DEF ErrorsMatch, Request!ErrorsRetried
    <3>6. BodiesClosed'
      BY <2>1, <2>6, <2>8, <3>2 DEF BodiesClosed, CallersBody
    <3>7. CancelGoesThrough'
      BY <2>1, <2>4, <2>8, <3>2 DEF CancelGoesThrough
    <3>. QED  BY <3>3, <3>4, <3>5, <3>6, <3>7 DEF RequestInv
  <2>. QED  BY <1>2, <2>7, <2>8 DEF Request!httpClientDo
<1>. QED  BY <1>1, <1>2

\* What a step over the response must show.
LEMMA ReadingStep ==
  ASSUME RequestInv, UNCHANGED <<cfg, arrived, attempt, ctx, canceled, common, consumed, sent, late>>,
         pc \in Reading, pc' \in Reading \cup {"afterResponse"},
         resp' \in RespType, resp'.has = resp.has, open' \subseteq open, resp.Err # "nil" => resp'.Err # "nil",
         ~resp.has => resp' = resp,
         failed' = (failed \/ resp'.Err # "nil"),
         err' = (IF pc' = "afterResponse" THEN resp'.Err ELSE err),
         BodiesClosed'
  PROVE  RequestInv'
<1>. USE DEF Starting, Reading, Ending
<1>0. RequestTyped /\ Attempts /\ ErrorsMatch /\ BodiesClosed /\ CancelGoesThrough
  BY DEF RequestInv
<1>1. resp'.Err \in ReqErrs
  BY DEF RespType
<1>2. RequestTyped'
  BY <1>0, <1>1 DEF RequestTyped
<1>3. Attempts'
  BY <1>0 DEF Attempts
<1>4. ErrorsMatch' /\ Request!ErrorsRetried'
  BY <1>0 DEF ErrorsMatch, Request!ErrorsRetried, RequestTyped
<1>5. CancelGoesThrough'
  BY <1>0 DEF CancelGoesThrough
<1>. QED  BY <1>2, <1>3, <1>4, <1>5 DEF RequestInv

\* The response is checked, read and parsed.
LEMMA ReadingKeeps ==
  ASSUME RequestConstants, RequestInv, Request!applyMaxResponseSize \/ Request!autoRead \/ Request!parseResponseBody
  PROVE  RequestInv'
<1>. USE DEF Request!respVars, Request!outVars, Request!bodyVars, Starting, Reading, Ending
<1>0. RequestTyped /\ Attempts /\ ErrorsMatch /\ BodiesClosed /\ CancelGoesThrough /\ Request!ErrorsRetried
  BY DEF RequestInv
<1>00. resp \in RespType /\ cfg.auto \in BOOLEAN /\ open \ {attempt} = {} /\ failed \in BOOLEAN
  BY <1>0 DEF RequestTyped, Attempts, RequestConstants, Request!ConfigOK
<1>1. CASE Request!applyMaxResponseSize
  <2>1. /\ UNCHANGED <<cfg, arrived, attempt, ctx, canceled, common, consumed, sent, late, err>>
        /\ pc = "applyMaxResponseSize" /\ pc' = "autoRead"
    BY <1>1 DEF Request!applyMaxResponseSize
  <2>2. CASE resp.Err = "nil" /\ cfg.limit /\ arrived = "longCL"
    <3>1. "tooLarge" \in ReqErrs
      BY DEF ReqErrs
    <3>2. resp' = [resp EXCEPT !.Err = "tooLarge"] /\ open' = {} /\ failed' = TRUE
      BY <1>00, <1>1, <2>2 DEF Request!applyMaxResponseSize
    <3>3. resp' \in RespType /\ resp'.Err = "tooLarge" /\ resp'.has = resp.has /\ resp.has /\ ~resp'.cached
      BY <1>0, <1>00, <2>1, <2>2, <3>1, <3>2, RespExcept DEF BodiesClosed, CallersBody
    <3>4. BodiesClosed'
      BY <2>1, <3>2, <3>3 DEF BodiesClosed, CallersBody
    <3>. QED  BY <2>1, <3>2, <3>3, <3>4, ReadingStep
  <2>3. CASE ~(resp.Err = "nil" /\ cfg.limit /\ arrived = "longCL")
    <3>1. UNCHANGED <<resp, open, failed>>
      BY <1>1, <2>3 DEF Request!applyMaxResponseSize
    <3>2. failed' = (failed \/ resp'.Err # "nil")
      BY <1>0, <1>00, <2>1, <3>1 DEF ErrorsMatch
    <3>3. BodiesClosed'
      BY <1>0, <2>1, <3>1 DEF BodiesClosed, CallersBody
    <3>. QED  BY <1>00, <2>1, <3>1, <3>2, <3>3, ReadingStep
  <2>. QED  BY <2>2, <2>3
<1>2. CASE Request!autoRead
  <2>1. /\ UNCHANGED <<cfg, arrived, attempt, ctx, canceled, common, consumed, sent, late, err>>
        /\ pc = "autoRead" /\ pc' = "parseResponseBody" /\ failed' = (failed \/ resp'.Err # "nil")
    BY <1>2 DEF Request!autoRead
  <2>2. CASE resp.Err = "nil" /\ cfg.auto /\ cfg.save = "no" /\ arrived # "switch"
    <3>1. resp' \in Request!ToBytes /\ open' = {} /\ resp.has
      BY <1>0, <1>00, <1>2, <2>1, <2>2 DEF Request!autoRead, BodiesClosed
    <3>2. resp' \in RespType /\ resp'.has = resp.has
      BY <1>0, <3>1, ToBytesGives
    <3>3. BodiesClosed'
      BY <2>1, <3>1, <3>2 DEF BodiesClosed, CallersBody
    <3>. QED  BY <2>1, <2>2, <3>1, <3>2, <3>3, ReadingStep
  <2>3. CASE ~(resp.Err = "nil" /\ cfg.auto /\ cfg.save = "no" /\ arrived # "switch")
    <3>1. UNCHANGED <<resp, open>>
      BY <1>2, <2>3 DEF Request!autoRead
    <3>2. ~resp.cached
      BY <1>0, <2>1 DEF BodiesClosed, CallersBody
    <3>3. BodiesClosed'
      BY <1>0, <2>1, <2>3, <3>1, <3>2 DEF BodiesClosed, CallersBody
    <3>. QED  BY <1>00, <2>1, <3>1, <3>3, ReadingStep
  <2>. QED  BY <2>2, <2>3
<1>3. CASE Request!parseResponseBody
  <2>1. /\ UNCHANGED <<cfg, arrived, attempt, ctx, canceled, common, consumed, sent, late, err>>
        /\ pc = "parseResponseBody" /\ pc' = "handleDownload" /\ failed' = (failed \/ resp'.Err # "nil")
    BY <1>3 DEF Request!parseResponseBody
  <2>2. CASE cfg.result /\ resp.has /\ arrived # "switch"
    <3>1. PICK r \in Request!ToBytes : resp' = r \/ (r.Err = "nil" /\ resp' = [r EXCEPT !.Err = "unmarshal"])
      BY <1>3, <2>2 DEF Request!parseResponseBody
    <3>2. open' = IF Request!Unread THEN {} ELSE open
      BY <1>00, <1>3, <2>2 DEF Request!parseResponseBody
    <3>3. /\ r \in RespType /\ r.has = resp.has
          /\ Request!Unread => r.cached
          /\ ~Request!Unread => r = resp
          /\ resp.Err # "nil" => r = resp
      BY <1>0, ToBytesGives
    <3>4. "unmarshal" \in ReqErrs
      BY DEF ReqErrs
    <3>5. /\ resp' \in RespType /\ resp'.has = resp.has /\ resp'.cached = r.cached
          /\ resp.Err # "nil" => resp' = resp
      <4>1. CASE resp' = r
        BY <3>3, <4>1
      <4>2. CASE r.Err = "nil" /\ resp' = [r EXCEPT !.Err = "unmarshal"]
        <5>1. resp.Err = "nil"
          BY <3>3, <4>2
        <5>. QED  BY <3>3, <3>4, <4>2, <5>1, RespExcept
      <4>. QED  BY <3>1, <4>1, <4>2
    <3>6. ~Request!Unread /\ resp.Err = "nil" => resp.cached
      BY <1>00, <2>2 DEF Request!Unread, RespType
    <3>7. BodiesClosed'
      <4>1. CASE Request!Unread
        BY <2>1, <2>2, <3>2, <3>5, <4>1 DEF BodiesClosed, CallersBody
      <4>2. CASE ~Request!Unread
        BY <1>0, <2>1, <2>2, <3>2, <3>3, <3>5, <3>6, <4>2 DEF BodiesClosed, CallersBody
      <4>. QED  BY <4>1, <4>2
    <3>8. open' \subseteq open
      BY <3>2
    <3>. QED  BY <2>1, <2>2, <3>5, <3>7, <3>8, ReadingStep
  <2>3. CASE ~(cfg.result /\ resp.has /\ arrived # "switch")
    <3>1. UNCHANGED <<resp, open>>
      BY <1>3, <2>3 DEF Request!parseResponseBody
    <3>3. BodiesClosed'
      BY <1>0, <2>1, <3>1 DEF BodiesClosed, CallersBody
    <3>. QED  BY <1>00, <2>1, <3>1, <3>3, ReadingStep
  <2>. QED  BY <2>2, <2>3
<1>. QED  BY <1>1, <1>2, <1>3

\* The response goes to a file or to a writer.
LEMMA DownloadKeeps ==
  ASSUME RequestConstants, RequestInv, Request!handleDownload
  PROVE  RequestInv'
<1>. USE DEF Request!respVars, Request!outVars, Request!bodyVars, Starting, Reading, Ending
<1>0. RequestTyped /\ Attempts /\ ErrorsMatch /\ BodiesClosed /\ CancelGoesThrough /\ Request!ErrorsRetried
  BY DEF RequestInv
<1>00. /\ resp \in RespType /\ cfg.auto \in BOOLEAN /\ open \ {attempt} = {} /\ failed \in BOOLEAN
       /\ cfg.save \in {"no", "file", "writer", "closer"}
  BY <1>0 DEF RequestTyped, Attempts, RequestConstants, Request!ConfigOK
<1>1. /\ UNCHANGED <<cfg, arrived, attempt, ctx, canceled, common, consumed, sent, late>>
      /\ pc = "handleDownload" /\ pc' = "afterResponse" /\ failed' = (failed \/ resp'.Err # "nil")
      /\ err' = resp'.Err
  BY DEF Request!handleDownload
<1>2. CASE Request!SkipDownload
  <2>1. UNCHANGED <<resp, open, out>>
    BY <1>2 DEF Request!handleDownload
  <2>2. BodiesClosed'
    BY <1>0, <1>00, <1>1, <1>2, <2>1 DEF BodiesClosed, CallersBody, Request!SkipDownload
  <2>. QED  BY <1>00, <1>1, <2>1, <2>2, ReadingStep
<1>3. CASE ~Request!SkipDownload
  <2>0. resp.has /\ cfg.save # "no" /\ Request!download
    BY <1>00, <1>3 DEF Request!SkipDownload, Request!handleDownload, RespType
  <2>1. ASSUME NEW base, Request!Copy(base), cfg.save = "file" => base = <<>>
        PROVE  RequestInv'
    <3>1. out' = Append(base, attempt) /\ open' = {}
      BY <1>00, <2>1 DEF Request!Copy
    <3>2. PICK e \in (IF resp.cached THEN {"nil"} ELSE Request!ReadErrs) :
             resp' = IF e # "nil" THEN [resp EXCEPT !.Err = e] ELSE resp
      BY <2>1 DEF Request!Copy
    <3>3. e \in ReqErrs
      BY <1>0, <3>2, ReadErrsKnown DEF ReqErrs
    <3>4. resp' \in RespType /\ resp'.has = resp.has /\ (resp.Err # "nil" => resp'.Err # "nil")
      <4>1. CASE e = "nil"
        BY <1>00, <3>2, <4>1
      <4>2. CASE e # "nil"
        BY <1>00, <3>2, <3>3, <4>2, RespExcept
      <4>. QED  BY <4>1, <4>2
    <3>5. cfg.save = "file" => out' = <<attempt>>
      BY <2>1, <3>1
    <3>6. BodiesClosed'
      BY <1>1, <3>1, <3>5 DEF BodiesClosed, CallersBody
    <3>. QED  BY <1>1, <2>0, <3>1, <3>4, <3>6, ReadingStep
  <2>2. CASE cfg.save = "file" /\ resp' = [resp EXCEPT !.Err = "create"] /\ UNCHANGED Request!outVars
    <3>1. "create" \in ReqErrs
      BY DEF ReqErrs
    <3>2. resp' \in RespType /\ resp'.has = resp.has /\ resp'.Err = "create"
      BY <1>00, <2>2, <3>1, RespExcept
    <3>3. BodiesClosed'
      BY <1>1, <2>2, <3>2 DEF BodiesClosed, CallersBody
    <3>. QED  BY <1>1, <2>0, <2>2, <3>2, <3>3, ReadingStep
  <2>3. CASE /\ cfg.save = "closer" /\ outClosed
             /\ open' = open \ {attempt} /\ resp' = [resp EXCEPT !.Err = "closed"]
    <3>1. "closed" \in ReqErrs
      BY DEF ReqErrs
    <3>2. resp' \in RespType /\ resp'.has = resp.has /\ resp'.Err = "closed"
      BY <1>00, <2>3, <3>1, RespExcept
    <3>3. open' = {}
      BY <1>00, <2>3
    <3>4. BodiesClosed'
      BY <1>1, <2>3, <3>2, <3>3 DEF BodiesClosed, CallersBody
    <3>. QED  BY <1>1, <2>0, <3>2, <3>3, <3>4, ReadingStep
  <2>. QED  BY <2>0, <2>1, <2>2, <2>3 DEF Request!download
<1>. QED  BY <1>2, <1>3

\* The request's own middleware, and the decision.
LEMMA EndingKeeps ==
  ASSUME RequestConstants, RequestInv, Request!afterResponse \/ Request!decide
  PROVE  RequestInv'
<1>. USE DEF Request!respVars, Request!outVars, Request!bodyVars, Starting, Reading, Ending
<1>0. RequestTyped /\ Attempts /\ ErrorsMatch /\ BodiesClosed /\ CancelGoesThrough /\ Request!ErrorsRetried
  BY DEF RequestInv
<1>00. resp \in RespType /\ err \in ReqErrs /\ cfg.after \in BOOLEAN /\ failed \in BOOLEAN
  BY <1>0 DEF RequestTyped, RequestConstants, Request!ConfigOK
<1>1. CASE Request!afterResponse
  <2>1. /\ UNCHANGED <<cfg, arrived, attempt, ctx, open, out, common, consumed, sent, late>>
        /\ pc = "afterResponse" /\ canceled' = (err = "canceled") /\ err = resp.Err
    BY <1>0, <1>1 DEF Request!afterResponse, ErrorsMatch
  <2>2. PICK e \in (IF cfg.after THEN {"nil", "after"} ELSE {err}) :
          /\ failed' = (failed \/ e = "after")
          /\ IF cfg.after /\ e # "nil" THEN Request!Finish(e, resp)
             ELSE err' = e /\ pc' = "decide" /\ UNCHANGED resp
    BY <1>1 DEF Request!afterResponse
  <2>3. e \in ReqErrs
    BY <1>00, <2>2 DEF ReqErrs
  <2>4. (failed <=> resp.Err # "nil") /\ (late = 1 => err = "canceled") /\ late \in Nat
    BY <1>0, <2>1 DEF ErrorsMatch, CancelGoesThrough, RequestTyped
  <2>5. CASE cfg.after /\ e # "nil"
    <3>0. e = "after"
      BY <2>2, <2>5
    <3>1. /\ pc' = "return" /\ err' = e /\ resp' \in RespType
          /\ resp'.Err = IF e # "nil" /\ resp.Err = "nil" THEN e ELSE resp.Err
      BY <1>00, <2>2, <2>3, <2>5, FinishGives
    <3>2. failed' = TRUE /\ resp'.Err # "nil"
      BY <2>2, <2>5, <3>0, <3>1
    <3>3. RequestTyped'
      BY <1>0, <2>1, <2>3, <3>1, <3>2 DEF RequestTyped
    <3>4. Attempts' /\ ErrorsMatch' /\ CancelGoesThrough' /\ Request!ErrorsRetried'
      BY <1>0, <2>1, <2>5, <3>1, <3>2 DEF Attempts, ErrorsMatch, CancelGoesThrough, Request!ErrorsRetried
    <3>5. BodiesClosed'
      BY <1>0, <2>1, <3>0, <3>1, <3>2 DEF BodiesClosed, CallersBody
    <3>. QED  BY <3>3, <3>4, <3>5 DEF RequestInv
  <2>6. CASE ~(cfg.after /\ e # "nil")
    <3>1. err' = e /\ pc' = "decide" /\ UNCHANGED resp
      BY <2>2, <2>6
    <3>2. failed' = failed
      BY <1>00, <2>1, <2>2, <2>4, <2>6
    <3>3. RequestTyped'
      BY <1>0, <2>1, <2>3, <3>1, <3>2 DEF RequestTyped
    <3>4. Attempts' /\ BodiesClosed'
      BY <1>0, <2>1, <3>1 DEF Attempts, BodiesClosed, CallersBody
    <3>5. ErrorsMatch'
      BY <1>00, <2>1, <2>2, <2>4, <2>6, <3>1, <3>2 DEF ErrorsMatch
    <3>6. CancelGoesThrough' /\ Request!ErrorsRetried'
      BY <1>0, <2>1, <2>4, <3>1 DEF CancelGoesThrough, Request!ErrorsRetried
    <3>. QED  BY <3>3, <3>4, <3>5, <3>6 DEF RequestInv
  <2>. QED  BY <2>5, <2>6
<1>2. CASE Request!decide
  <2>1. /\ UNCHANGED <<cfg, arrived, ctx, canceled, failed, out, common, consumed, sent, late>>
        /\ pc = "decide"
    BY <1>2 DEF Request!decide
  <2>2. CASE canceled
    <3>1. Request!Finish(err, resp) /\ UNCHANGED <<attempt, open>>
      BY <1>2, <2>2 DEF Request!decide
    <3>2. /\ pc' = "return" /\ err' = err /\ resp' \in RespType
          /\ resp'.Err = IF err # "nil" /\ resp.Err = "nil" THEN err ELSE resp.Err
      BY <1>00, <3>1, FinishGives
    <3>3. resp'.Err = resp.Err
      BY <1>0, <2>1, <3>2 DEF ErrorsMatch
    <3>4. RequestTyped'
      BY <1>0, <2>1, <3>1, <3>2 DEF RequestTyped
    <3>5. Attempts' /\ ErrorsMatch' /\ BodiesClosed' /\ CancelGoesThrough'
      BY <1>0, <2>1, <3>1, <3>2, <3>3 DEF Attempts, ErrorsMatch, BodiesClosed, CallersBody, CancelGoesThrough
    <3>6. Request!ErrorsRetried'
      <4>1. ~cfg.after => resp'.Err = "canceled"
        BY <1>0, <2>1, <2>2, <3>3 DEF ErrorsMatch
      <4>. QED  BY <2>1, <4>1 DEF Request!ErrorsRetried
    <3>. QED  BY <3>4, <3>5, <3>6 DEF RequestInv
  <2>3. CASE ~canceled
    <3>1. Request!tryRetry(err, resp)
      BY <1>2, <2>3 DEF Request!decide
    <3>2. late = 0
      BY <1>0, <2>1, <2>3 DEF CancelGoesThrough, RequestTyped
    <3>3. common' \in Nat \X Nat /\ consumed' \in BOOLEAN /\ failed' \in BOOLEAN
      BY <1>0, <2>1 DEF RequestTyped
    <3>. QED  BY <1>00, <2>1, <3>1, <3>2, <3>3, AttemptOver
  <2>. QED  BY <2>2, <2>3
<1>. QED  BY <1>1, <1>2

LEMMA RequestStep == ASSUME RequestConstants, RequestInv, [Request!Next]_Request!vars PROVE RequestInv'
<1>1. CASE Request!Next
  BY <1>1, StartingKeeps, SendingKeeps, ReadingKeeps, DownloadKeeps, EndingKeeps DEF Request!Next, Request!do
<1>2. CASE UNCHANGED Request!vars
  BY <1>2 DEF Request!vars, Request!respVars, Request!outVars, Request!bodyVars, RequestInv, RequestTyped, Attempts, ErrorsMatch,
     BodiesClosed, CallersBody, CancelGoesThrough, Request!ErrorsRetried
<1>. QED  BY <1>1, <1>2

\* A one-shot body is not retried.
LEMMA OneShotNotRetried ==
  ASSUME RequestConstants, FieldsReplayable, RequestInv, BodySentOnce,
         cfg.body \in {"reader", "field"}, pc \notin {"Do", "return"}
  PROVE  ~Request!BudgetLeft
<1>1. cfg \in Configs /\ attempt \in Nat /\ cfg.max \in Int
  BY DEF RequestInv, RequestTyped, RequestConstants, Request!ConfigOK
<1>2. ~cfg.retry \/ cfg.max = 0
  BY <1>1 DEF FieldsReplayable, BodySentOnce
<1>. QED  BY <1>1, <1>2 DEF Request!BudgetLeft

LEMMA RetryDecided ==
  ASSUME NEW e, NEW r, Request!tryRetry(e, r)
  PROVE  pc' = "return" \/ (pc' = "waitRetryInterval" /\ Request!BudgetLeft)
  BY DEF Request!tryRetry, Request!shouldRetry, Request!Finish

LEMMA BodySentOnceStep ==
  ASSUME RequestConstants, FieldsReplayable, RequestInv, BodySentOnce, [Request!Next]_Request!vars
  PROVE  BodySentOnce'
<1>. USE DEF Request!respVars, Request!outVars, Request!bodyVars, Starting
<1>0. cfg \in Configs /\ sent \in Seq(PayloadType) /\ consumed \in BOOLEAN /\ cfg.max \in Int
  BY DEF RequestInv, RequestTyped, RequestConstants, Request!ConfigOK
<1>1. CASE Request!httpClientDo
  <2>1. /\ pc = "roundTrip" /\ pc' = "applyMaxResponseSize" /\ UNCHANGED cfg
        /\ sent' = Append(sent, Request!Payload)
    BY <1>1 DEF Request!httpClientDo
  <2>2. Request!Payload.body # "empty"
    BY <2>1 DEF BodySentOnce, Request!Payload, Request!OneShot
  <2>3. \A i \in 1 .. Len(sent') : sent'[i].body # "empty"
    <3>. SUFFICES ASSUME NEW i \in 1 .. Len(sent') PROVE sent'[i].body # "empty"
      OBVIOUS
    <3>1. Len(sent') = Len(sent) + 1 /\ Len(sent) \in Nat
      BY <1>0, <2>1
    <3>2. CASE i = Len(sent) + 1
      BY <1>0, <2>1, <2>2, <3>2
    <3>3. CASE i \in 1 .. Len(sent)
      BY <1>0, <2>1, <3>3 DEF BodySentOnce
    <3>. QED  BY <3>1, <3>2, <3>3
  <2>. QED  BY <2>1, <2>3 DEF BodySentOnce
<1>2. CASE Request!Do
  BY <1>0, <1>2 DEF Request!Do, Request!Finish, BodySentOnce
<1>3. CASE Request!udBeforeRequest
  <2>1. UNCHANGED <<cfg, sent, consumed>> /\ pc = "udBeforeRequest"
    BY <1>3 DEF Request!udBeforeRequest
  <2>2. pc' \in {"beforeRequest", "return"} \/ (pc' = "waitRetryInterval" /\ Request!BudgetLeft)
    BY <1>3, RetryDecided DEF Request!udBeforeRequest
  <2>. QED  BY <2>1, <2>2, OneShotNotRetried DEF BodySentOnce
<1>4. CASE Request!beforeRequest
  <2>1. UNCHANGED <<cfg, sent, consumed>> /\ pc = "beforeRequest"
    BY <1>4 DEF Request!beforeRequest
  <2>2. pc' \in {"roundTrip", "return"} \/ (pc' = "waitRetryInterval" /\ Request!BudgetLeft)
    BY <1>4, RetryDecided DEF Request!beforeRequest
  <2>. QED  BY <2>1, <2>2, OneShotNotRetried DEF BodySentOnce
<1>5. CASE Request!decide
  <2>1. UNCHANGED <<cfg, sent, consumed>> /\ pc = "decide"
    BY <1>5 DEF Request!decide
  <2>2. pc' = "return" \/ (pc' = "waitRetryInterval" /\ Request!BudgetLeft)
    BY <1>5, RetryDecided DEF Request!decide, Request!Finish
  <2>. QED  BY <2>1, <2>2, OneShotNotRetried DEF BodySentOnce
<1>6. CASE \/ Request!getBodyFails \/ Request!applyMaxResponseSize \/ Request!autoRead \/ Request!parseResponseBody
           \/ Request!handleDownload
  <2>1. /\ UNCHANGED <<cfg, sent, consumed>> /\ pc # "Do"
        /\ pc' \in {"afterResponse", "autoRead", "parseResponseBody", "handleDownload"} /\ pc # "return"
    BY <1>6 DEF Request!getBodyFails, Request!applyMaxResponseSize, Request!autoRead, Request!parseResponseBody, Request!handleDownload
  <2>. QED  BY <2>1 DEF BodySentOnce
<1>7. CASE Request!afterResponse
  <2>1. UNCHANGED <<cfg, sent, consumed>> /\ pc = "afterResponse" /\ pc' \in {"return", "decide"}
    BY <1>7 DEF Request!afterResponse, Request!Finish
  <2>. QED  BY <2>1 DEF BodySentOnce
<1>8. CASE Request!waitRetryInterval
  <2>1. UNCHANGED <<cfg, sent, consumed>> /\ pc = "waitRetryInterval" /\ pc' \in {"return", "udBeforeRequest"}
    BY <1>8 DEF Request!waitRetryInterval, Request!Finish
  <2>. QED  BY <2>1 DEF BodySentOnce
<1>9. CASE Request!endContext \/ UNCHANGED Request!vars
  BY <1>9 DEF Request!endContext, Request!vars, BodySentOnce
<1>. QED  BY <1>1, <1>2, <1>3, <1>4, <1>5, <1>6, <1>7, <1>8, <1>9 DEF Request!Next, Request!do

LEMMA BodiesSafe == RequestInv => Request!NoBodyLeak /\ Request!FileIsFinalResponse
BY DEF RequestInv, Attempts, BodiesClosed, CallersBody, Request!NoBodyLeak, Request!FileIsFinalResponse, Starting, Ending

LEMMA RetriesSafe ==
  RequestInv => Request!TypeOK /\ Request!ErrReported /\ Request!ErrorsRetried /\ Request!CancelStopsRetries
<1>. SUFFICES ASSUME RequestInv PROVE Request!TypeOK /\ Request!ErrReported /\ Request!ErrorsRetried /\ Request!CancelStopsRetries
  OBVIOUS
<1>1. Request!TypeOK
  <2>1. resp.has \in BOOLEAN /\ resp.cached \in BOOLEAN
    BY DEF RequestInv, RequestTyped, RespType
  <2>2. open \subseteq 0 .. attempt
    BY DEF RequestInv, RequestTyped, Attempts
  <2>. QED  BY <2>1, <2>2 DEF RequestInv, RequestTyped, Attempts, Request!TypeOK
<1>2. Request!ErrReported /\ Request!ErrorsRetried /\ Request!CancelStopsRetries
  BY DEF RequestInv, ErrorsMatch, CancelGoesThrough, Request!ErrReported, Request!CancelStopsRetries, Ending
<1>. QED  BY <1>1, <1>2

\* Request.Do, for any set of requests, whatever their options, and any number of
\* retries: before an attempt is sent the bodies of the earlier ones are closed,
\* Do returns with no open body but one the caller is to read (automatic reading
\* is off, or the answer is a 101) or one whose file could not be created, and a
\* file that was downloaded holds the final response alone.
THEOREM BodiesReleased == Spec => []NoBodyLeak
<1>. DEFINE I == part = "request" => RequestInv
<1>1. Init => I
  BY RequestInit, RequestAssumption DEF Init
<1>2. I /\ [Next]_all => I'
  <2>. SUFFICES ASSUME I, [Next]_all, part' = "request" PROVE RequestInv'
    OBVIOUS
  <2>1. part = "request" /\ [Request!Next]_(Request!vars)
    BY DEF Next, all, Request!vars, Request!respVars, Request!outVars, Request!bodyVars
  <2>. QED  BY <2>1, RequestStep, RequestAssumption
<1>3. I => NoBodyLeak
  BY BodiesSafe DEF NoBodyLeak
<1>. QED  BY <1>1, <1>2, <1>3, PTL DEF Spec

\* Request.Do, for any set of requests: RetryAttempt stays within MaxRetries,
\* Response.Err says whether the last attempt failed, a transport error is not
\* given up while budget and context are left, and at most one call of
\* httpClient.Do follows a cancellation.
THEOREM RetriesCorrect == Spec => []RetriesRight
<1>. DEFINE I == part = "request" => RequestInv
<1>1. Init => I
  BY RequestInit, RequestAssumption DEF Init
<1>2. I /\ [Next]_all => I'
  <2>. SUFFICES ASSUME I, [Next]_all, part' = "request" PROVE RequestInv'
    OBVIOUS
  <2>1. part = "request" /\ [Request!Next]_(Request!vars)
    BY DEF Next, all, Request!vars, Request!respVars, Request!outVars, Request!bodyVars
  <2>. QED  BY <2>1, RequestStep, RequestAssumption
<1>3. I => RetriesRight
  BY RetriesSafe DEF RetriesRight
<1>. QED  BY <1>1, <1>2, <1>3, PTL DEF Spec

-----------------------------------------------------------------------------
(* Digest authentication: copies and counts.                               *)

\* The variables of Digest in the composition.
dmode    == v1
cache    == v2
dreq     == v3
issued   == v4
assigned == v5
USE DEF dmode, cache, dreq, issued, assigned

\* A 401 without a usable challenge is not among the answers.
AlwaysChallenged == dmode.answers \cap {"plain401", "bad401"} = {}

RightBody == IF dmode.body = "none" THEN "none" ELSE "whole"

CopyType == [cred : Nat \X Nat, body : {"none", "whole", "empty"}]
DreqType == [pc : {"start", "clone", "prepare", "send", "flight", "refused", "done"}, attempt : Nat,
             source : {"whole", "memory"}, body : {"none", "whole", "empty"}, chal : Nat,
             cred : Nat \X Nat, sent : Seq(CopyType), out : {"none", "ok", "err", "401"}]

DigestTyped ==
    /\ dmode \in DigestModes /\ cache \in [c : Nat, n : Nat] /\ issued \in Nat
    /\ dreq \in [DigestReqs -> DreqType] /\ assigned \in Seq(Nat \X Nat)

\* Where a request is says how many copies it sent; the copy in hand has the
\* right body and, if it is the second one, the credentials of a challenge c
\* of the cache.
CopiesCounted(s) ==
    /\ s.pc = "start" => s.attempt = 0 /\ Len(s.sent) = 0
    /\ s.pc = "clone" => s.attempt = Len(s.sent) /\ s.attempt <= 1
    /\ s.pc \in {"prepare", "send"} => s.attempt = Len(s.sent) + 1 /\ s.attempt <= 2
    /\ s.pc \in {"flight", "refused"} => s.attempt = Len(s.sent) /\ s.attempt <= 2
    /\ s.pc = "refused" => s.attempt = 1
CopyWhole(s) ==
    /\ s.pc \notin {"start", "done"} /\ dmode.body = "reader" => s.source = "memory"
    /\ s.source = "memory" => dmode.body = "reader"
    /\ s.pc \in {"prepare", "send", "flight"} => s.body = RightBody
CopyAnswers(s, c) ==
    AlwaysChallenged =>
       /\ s.pc = "refused" => s.chal # 0
       /\ s.pc = "clone" /\ s.attempt = 1 => c # 0
       /\ s.pc = "prepare" /\ s.attempt = 2 => c # 0
       /\ s.pc = "send" /\ s.attempt = 2 => s.cred # Digest!NoCred
SentRight(s) ==
    \A i \in 1 .. Len(s.sent) :
       /\ s.sent[i].body = RightBody
       /\ i = 2 /\ AlwaysChallenged => s.sent[i].cred # Digest!NoCred

CopiesRight ==
    \A r \in DigestReqs :
       CopiesCounted(dreq[r]) /\ CopyWhole(dreq[r]) /\ CopyAnswers(dreq[r], cache.c) /\ SentRight(dreq[r])

\* The credentials among the first k of a that have nonce c.
UsesOf(a, c, k) == {j \in 1 .. k : a[j][1] = c}

\* With fresh challenges: the cached count is the number of uses, and the
\* challenges on their way to the cache are new and different.
CountsKept ==
    dmode.fresh =>
       /\ cache.c \in 0 .. issued
       /\ cache.c # 0 => cache.n = Cardinality(UsesOf(assigned, cache.c, Len(assigned)))
       /\ \A i \in 1 .. Len(assigned) :
             /\ assigned[i][1] \in 1 .. issued
             /\ assigned[i][2] = 1 + Cardinality(UsesOf(assigned, assigned[i][1], i - 1))
ChallengesNew ==
    dmode.fresh =>
       /\ \A r \in DigestReqs :
             dreq[r].pc = "refused" /\ dreq[r].chal # 0 =>
                /\ dreq[r].chal \in 1 .. issued /\ dreq[r].chal # cache.c
                /\ \A j \in 1 .. Len(assigned) : assigned[j][1] # dreq[r].chal
       /\ \A q, r \in DigestReqs :
             q # r /\ dreq[q].pc = "refused" /\ dreq[r].pc = "refused" /\ dreq[q].chal # 0 =>
                dreq[q].chal # dreq[r].chal

DigestInv == DigestTyped /\ CopiesRight /\ CountsKept /\ ChallengesNew

LEMMA DACardinality == \A S : Digest!Cardinality(S) = Cardinality(S)
  BY DEF Digest!Cardinality, Cardinality

LEMMA DigestInit == Digest!Init => DigestInv
<1>. SUFFICES ASSUME Digest!Init PROVE DigestInv
  OBVIOUS
<1>. USE DEF Digest!Init, Digest!NoCred
<1>1. /\ cache \in [c : Nat, n : Nat] /\ cache.c = 0 /\ assigned \in Seq(Nat \X Nat) /\ Len(assigned) = 0
      /\ issued = 0
  OBVIOUS
<1>2. [pc |-> "start", attempt |-> 0, source |-> "whole", body |-> "none", chal |-> 0,
       cred |-> Digest!NoCred, sent |-> <<>>, out |-> "none"] \in DreqType
  <2>1. <<0, 0>> \in Nat \X Nat /\ <<>> \in Seq(CopyType)
    OBVIOUS
  <2>. QED  BY <2>1 DEF DreqType
<1>3. DigestTyped
  BY <1>1, <1>2 DEF DigestTyped
<1>4. CopiesRight
  BY DEF CopiesRight, CopiesCounted, CopyWhole, CopyAnswers, SentRight
<1>5. CountsKept /\ ChallengesNew
  BY <1>1 DEF CountsKept, ChallengesNew
<1>. QED  BY <1>3, <1>4, <1>5 DEF DigestInv

\* A step of request r that leaves the cached challenge in place.
LEMMA CopiesStep ==
  ASSUME DigestInv, NEW r \in DigestReqs, UNCHANGED dmode,
         \A q \in DigestReqs \ {r} : dreq'[q] = dreq[q],
         AlwaysChallenged /\ cache.c # 0 => cache'.c # 0,
         CopiesCounted(dreq'[r]), CopyWhole(dreq'[r]), CopyAnswers(dreq'[r], cache'.c), SentRight(dreq'[r])
  PROVE  CopiesRight'
<1>. SUFFICES ASSUME NEW q \in DigestReqs
              PROVE  (CopiesCounted(dreq[q]) /\ CopyWhole(dreq[q]) /\ CopyAnswers(dreq[q], cache.c) /\ SentRight(dreq[q]))'
  BY DEF CopiesRight
<1>0. CopiesCounted(dreq[q]) /\ CopyWhole(dreq[q]) /\ CopyAnswers(dreq[q], cache.c) /\ SentRight(dreq[q])
  BY DEF DigestInv, CopiesRight
<1>. USE DEF CopiesCounted, CopyWhole, CopyAnswers, SentRight, AlwaysChallenged, RightBody
<1>1. CASE q = r
  BY <1>1
<1>2. CASE q # r
  <2>1. dreq'[q] = dreq[q]
    BY <1>2
  <2>. QED  BY <1>0, <2>1
<1>. QED  BY <1>1, <1>2

\* A step of request r that leaves cache, counts and server alone.
LEMMA CountsStep ==
  ASSUME DigestInv, NEW r \in DigestReqs, UNCHANGED <<dmode, cache, issued, assigned>>,
         \A q \in DigestReqs \ {r} : dreq'[q] = dreq[q], dreq'[r].pc # "refused" \/ dreq'[r].chal = 0
  PROVE  (CountsKept /\ ChallengesNew)'
<1>1. CountsKept'
  BY DEF DigestInv, CountsKept, UsesOf
<1>2. ChallengesNew'
  <2>. SUFFICES ASSUME dmode.fresh PROVE ChallengesNew'
    BY DEF ChallengesNew
  <2>1. \A q \in DigestReqs : dreq'[q].pc = "refused" /\ dreq'[q].chal # 0 => dreq'[q] = dreq[q] /\ q # r
    OBVIOUS
  <2>2. \A q \in DigestReqs : q # r => dreq'[q] = dreq[q]
    OBVIOUS
  <2>3. ASSUME NEW q \in DigestReqs, NEW p \in DigestReqs, q # p, dreq'[q].pc = "refused", dreq'[p].pc = "refused",
               dreq'[q].chal # 0
        PROVE  dreq'[q].chal # dreq'[p].chal
    <3>1. CASE p = r
      BY <2>3, <3>1
    <3>2. CASE p # r
      BY <2>1, <2>2, <2>3, <3>2 DEF DigestInv, ChallengesNew
    <3>. QED  BY <3>1, <3>2
  <2>4. ASSUME NEW q \in DigestReqs, dreq'[q].pc = "refused", dreq'[q].chal # 0
        PROVE  /\ dreq'[q].chal \in 1 .. issued /\ dreq'[q].chal # cache.c
               /\ \A j \in 1 .. Len(assigned) : assigned[j][1] # dreq'[q].chal
    BY <2>1, <2>4 DEF DigestInv, ChallengesNew
  <2>. QED  BY <2>3, <2>4 DEF ChallengesNew
<1>. QED  BY <1>1, <1>2

\* The request ends.
LEMMA ReturnGives ==
  ASSUME DigestInv, NEW r \in DigestReqs, NEW res \in {"ok", "err", "401"}, Digest!Return(r, res)
  PROVE  /\ dreq' \in [DigestReqs -> DreqType] /\ \A q \in DigestReqs \ {r} : dreq'[q] = dreq[q]
         /\ dreq'[r].pc = "done" /\ dreq'[r].sent = dreq[r].sent /\ dreq'[r].source = dreq[r].source
<1>1. dreq \in [DigestReqs -> DreqType]
  BY DEF DigestInv, DigestTyped
<1>2. dreq[r] \in DreqType
  BY <1>1
<1>3. dreq' = [dreq EXCEPT ![r] = [dreq[r] EXCEPT !.pc = "done", !.out = res]]
  BY <1>1 DEF Digest!Return
<1>4. [dreq[r] EXCEPT !.pc = "done", !.out = res] \in DreqType
  BY <1>2 DEF DreqType
<1>. QED  BY <1>1, <1>2, <1>3, <1>4 DEF DreqType

LEMMA ReturnKeepsCopies ==
  ASSUME DigestInv, NEW r \in DigestReqs, NEW res \in {"ok", "err", "401"}, Digest!Return(r, res), UNCHANGED dmode,
         AlwaysChallenged /\ cache.c # 0 => cache'.c # 0
  PROVE  CopiesRight'
<1>1. /\ dreq' \in [DigestReqs -> DreqType] /\ \A q \in DigestReqs \ {r} : dreq'[q] = dreq[q]
      /\ dreq'[r].pc = "done" /\ dreq'[r].sent = dreq[r].sent /\ dreq'[r].source = dreq[r].source
  BY ReturnGives
<1>2. SentRight(dreq'[r]) /\ CopyWhole(dreq'[r])
  BY <1>1 DEF DigestInv, CopiesRight, SentRight, CopyWhole
<1>. QED  BY <1>1, <1>2, CopiesStep DEF CopiesCounted, CopyWhole, CopyAnswers

LEMMA ReturnKeeps ==
  ASSUME DigestInv, NEW r \in DigestReqs, NEW res \in {"ok", "err", "401"}, Digest!Return(r, res),
         UNCHANGED <<dmode, cache, issued, assigned>>
  PROVE  DigestInv'
<1>1. CopiesRight'
  BY ReturnKeepsCopies
<1>2. /\ dreq' \in [DigestReqs -> DreqType] /\ \A q \in DigestReqs \ {r} : dreq'[q] = dreq[q]
      /\ dreq'[r].pc = "done"
  BY ReturnGives
<1>3. (CountsKept /\ ChallengesNew)'
  BY <1>2, CountsStep
<1>4. DigestTyped'
  BY <1>2 DEF DigestInv, DigestTyped
<1>. QED  BY <1>1, <1>3, <1>4 DEF DigestInv

\* cloner, clone and RoundTrip: a step of one request alone.
LEMMA CopySteps ==
  ASSUME DigestConstants, DigestInv, NEW r \in DigestReqs, Digest!cloner(r) \/ Digest!clone(r) \/ Digest!RoundTrip(r)
  PROVE  DigestInv'
<1>. USE DEF Digest!NoCred
<1>0. /\ dreq \in [DigestReqs -> DreqType] /\ dreq[r] \in DreqType /\ dmode \in DigestModes
      /\ CopiesCounted(dreq[r]) /\ CopyWhole(dreq[r]) /\ CopyAnswers(dreq[r], cache.c) /\ SentRight(dreq[r])
  BY DEF DigestInv, DigestTyped, CopiesRight
<1>1. UNCHANGED <<dmode, cache, issued, assigned>>
  BY DEF Digest!cloner, Digest!clone, Digest!RoundTrip
<1>2. ASSUME NEW s \in DreqType, dreq' = [dreq EXCEPT ![r] = s], s.pc # "refused",
             CopiesCounted(s), CopyWhole(s), CopyAnswers(s, cache.c), SentRight(s)
      PROVE  DigestInv'
  <2>1. dreq' \in [DigestReqs -> DreqType] /\ dreq'[r] = s /\ \A q \in DigestReqs \ {r} : dreq'[q] = dreq[q]
    BY <1>0, <1>2
  <2>2. CopiesRight'
    BY <1>1, <1>2, <2>1, CopiesStep
  <2>3. (CountsKept /\ ChallengesNew)'
    BY <1>1, <1>2, <2>1, CountsStep
  <2>4. DigestTyped'
    BY <1>1, <2>1 DEF DigestInv, DigestTyped
  <2>. QED  BY <2>2, <2>3, <2>4 DEF DigestInv
<1>3. CASE Digest!cloner(r)
  <2>1. CASE Digest!Return(r, "err")
    BY <1>1, <2>1, ReturnKeeps
  <2>2. CASE dreq' = [dreq EXCEPT ![r].pc = "clone",
                                  ![r].source = IF dmode.body = "reader" THEN "memory" ELSE @]
    <3>. DEFINE s == [dreq[r] EXCEPT !.pc = "clone",
                                     !.source = IF dmode.body = "reader" THEN "memory" ELSE @]
    <3>1. dreq' = [dreq EXCEPT ![r] = s]
      BY <1>0, <2>2
    <3>2. s \in DreqType /\ s.pc = "clone" /\ s.attempt = dreq[r].attempt /\ s.sent = dreq[r].sent
          /\ (dmode.body = "reader" => s.source = "memory")
          /\ (dmode.body # "reader" => s.source = dreq[r].source)
      BY <1>0 DEF DreqType
    <3>3. dreq[r].pc = "start"
      BY <1>3 DEF Digest!cloner
    <3>. HIDE DEF s
    <3>4. CopiesCounted(s) /\ CopyWhole(s) /\ CopyAnswers(s, cache.c) /\ SentRight(s)
      BY <1>0, <3>2, <3>3 DEF CopiesCounted, CopyWhole, CopyAnswers, SentRight
    <3>. QED  BY <1>2, <3>1, <3>2, <3>4
  <2>. QED  BY <1>3, <2>1, <2>2 DEF Digest!cloner
<1>4. CASE Digest!clone(r)
  <2>1. CASE Digest!Return(r, "err")
    BY <1>1, <2>1, ReturnKeeps
  <2>2. CASE dreq' = [dreq EXCEPT ![r].pc = "prepare", ![r].body = Digest!copied(dreq[r]), ![r].cred = Digest!NoCred,
                                  ![r].attempt = @ + 1]
    <3>. DEFINE s == [dreq[r] EXCEPT !.pc = "prepare", !.body = Digest!copied(dreq[r]), !.cred = Digest!NoCred,
                                     !.attempt = @ + 1]
    <3>1. dreq' = [dreq EXCEPT ![r] = s]
      BY <1>0, <2>2
    <3>2. dreq[r].pc = "clone"
      BY <1>4 DEF Digest!clone
    <3>3. Digest!copied(dreq[r]) = RightBody /\ RightBody \in {"none", "whole", "empty"}
      <4>1. dmode.body \in {"none", "getBody", "reader"}
        BY <1>0 DEF DigestConstants
      <4>2. dmode.body = "reader" => dreq[r].source = "memory"
        BY <1>0, <3>2 DEF CopyWhole
      <4>3. CASE dmode.body = "none"
        <5>1. dreq[r].source = "whole"
          BY <1>0, <4>3 DEF CopyWhole, DreqType
        <5>. QED  BY <4>3, <5>1 DEF Digest!copied, RightBody
      <4>4. CASE dmode.body = "getBody"
        BY <4>4 DEF Digest!copied, RightBody
      <4>5. CASE dmode.body = "reader"
        <5>1. dmode.body # "none" /\ dreq[r].source = "memory"
          BY <4>2, <4>5
        <5>. QED  BY <5>1 DEF Digest!copied, RightBody
      <4>. QED  BY <4>1, <4>3, <4>4, <4>5
    <3>4. dreq[r].attempt \in Nat /\ dreq[r].attempt + 1 \in Nat /\ <<0, 0>> \in Nat \X Nat /\ Len(dreq[r].sent) \in Nat
      BY <1>0 DEF DreqType
    <3>5. /\ s \in DreqType /\ s.pc = "prepare" /\ s.attempt = dreq[r].attempt + 1 /\ s.sent = dreq[r].sent
          /\ s.body = RightBody /\ s.source = dreq[r].source
      BY <1>0, <3>3, <3>4 DEF DreqType
    <3>. HIDE DEF s
    <3>6. CopiesCounted(s) /\ CopyWhole(s) /\ CopyAnswers(s, cache.c) /\ SentRight(s)
      BY <1>0, <3>2, <3>4, <3>5 DEF CopiesCounted, CopyWhole, CopyAnswers, SentRight
    <3>. QED  BY <1>2, <3>1, <3>5, <3>6
  <2>. QED  BY <1>4, <2>1, <2>2 DEF Digest!clone
<1>5. CASE Digest!RoundTrip(r)
  <2>. DEFINE cp == [cred |-> dreq[r].cred, body |-> dreq[r].body]
              s == [dreq[r] EXCEPT !.pc = "flight", !.sent = Append(@, cp)]
  <2>1. dreq' = [dreq EXCEPT ![r] = s] /\ dreq[r].pc = "send"
    BY <1>0, <1>5 DEF Digest!RoundTrip
  <2>2. cp \in CopyType /\ dreq[r].sent \in Seq(CopyType)
    BY <1>0 DEF DreqType, CopyType
  <2>3. cp.body = dreq[r].body /\ cp.cred = dreq[r].cred
    OBVIOUS
  <2>. HIDE DEF cp
  <2>4. Append(dreq[r].sent, cp) \in Seq(CopyType)
    BY <2>2
  <2>5. /\ s \in DreqType /\ s.pc = "flight" /\ s.attempt = dreq[r].attempt /\ s.sent = Append(dreq[r].sent, cp)
        /\ s.body = dreq[r].body /\ s.source = dreq[r].source
    BY <1>0, <2>4 DEF DreqType
  <2>. HIDE DEF s
  <2>6. Len(s.sent) = Len(dreq[r].sent) + 1 /\ Len(dreq[r].sent) \in Nat /\ dreq[r].attempt \in Nat
    BY <1>0, <2>2, <2>5 DEF DreqType
  <2>7. CopiesCounted(s) /\ CopyWhole(s) /\ CopyAnswers(s, cache.c)
    BY <1>0, <2>1, <2>5, <2>6 DEF CopiesCounted, CopyWhole, CopyAnswers
  <2>8. SentRight(s)
    <3>. SUFFICES ASSUME NEW i \in 1 .. Len(s.sent)
                  PROVE  /\ s.sent[i].body = RightBody
                         /\ i = 2 /\ AlwaysChallenged => s.sent[i].cred # Digest!NoCred
      BY DEF SentRight
    <3>1. CASE i = Len(dreq[r].sent) + 1
      <4>1. s.sent[i] = cp
        BY <2>2, <2>5, <3>1
      <4>2. cp.body = RightBody
        BY <1>0, <2>1, <2>3 DEF CopyWhole
      <4>3. i = dreq[r].attempt
        BY <1>0, <2>1, <3>1 DEF CopiesCounted
      <4>4. i = 2 /\ AlwaysChallenged => cp.cred # Digest!NoCred
        BY <1>0, <2>1, <2>3, <4>3 DEF CopyAnswers
      <4>. QED  BY <4>1, <4>2, <4>4
    <3>2. CASE i \in 1 .. Len(dreq[r].sent)
      <4>1. s.sent[i] = dreq[r].sent[i]
        BY <2>2, <2>5, <3>2
      <4>. QED  BY <1>0, <3>2, <4>1 DEF SentRight
    <3>. QED  BY <2>6, <3>1, <3>2
  <2>. QED  BY <1>2, <2>1, <2>5, <2>7, <2>8
<1>. QED  BY <1>3, <1>4, <1>5

\* The challenge counts one more use.
LEMMA UsesAppend ==
  ASSUME NEW a \in Seq(Nat \X Nat), NEW c \in Nat \X Nat, NEW n \in Nat
  PROVE  /\ \A k \in 0 .. Len(a) : UsesOf(Append(a, c), n, k) = UsesOf(a, n, k)
         /\ n = c[1] => Cardinality(UsesOf(Append(a, c), n, Len(a) + 1)) =
                           Cardinality(UsesOf(a, n, Len(a))) + 1
<1>. DEFINE b == Append(a, c)
<1>0. /\ Len(a) \in Nat /\ Len(b) = Len(a) + 1 /\ b[Len(a) + 1] = c
      /\ \A j \in 1 .. Len(a) : b[j] = a[j]
  OBVIOUS
<1>. HIDE DEF b
<1>1. ASSUME NEW k \in 0 .. Len(a) PROVE UsesOf(b, n, k) = UsesOf(a, n, k)
  <2>1. \A j \in 1 .. k : j \in 1 .. Len(a)
    BY <1>0
  <2>. QED  BY <1>0, <2>1 DEF UsesOf
<1>3. IsFiniteSet(UsesOf(a, n, Len(a)))
  <2>1. IsFiniteSet(1 .. Len(a))
    <3>1. 1 \in Int /\ Len(a) \in Int
      BY <1>0
    <3>. QED  BY <3>1, FS_Interval, Zenon
  <2>2. UsesOf(a, n, Len(a)) \subseteq 1 .. Len(a)
    BY DEF UsesOf
  <2>. QED  BY <2>1, <2>2, FS_Subset
<1>4. n = c[1] => Cardinality(UsesOf(b, n, Len(b))) = Cardinality(UsesOf(a, n, Len(a))) + 1
  <2>. SUFFICES ASSUME n = c[1] PROVE Cardinality(UsesOf(b, n, Len(b))) = Cardinality(UsesOf(a, n, Len(a))) + 1
    OBVIOUS
  <2>1. UsesOf(b, n, Len(b)) = UsesOf(a, n, Len(a)) \cup {Len(a) + 1}
    BY <1>0, SMTT(30) DEF UsesOf
  <2>2. Len(a) + 1 \notin UsesOf(a, n, Len(a))
    BY <1>0 DEF UsesOf
  <2>3. Cardinality(UsesOf(a, n, Len(a)) \cup {Len(a) + 1}) = Cardinality(UsesOf(a, n, Len(a))) + 1
    BY <1>3, <2>2, FS_AddElement
  <2>. HIDE DEF b
  <2>. QED  BY <2>1, <2>3
<1>. QED  BY <1>0, <1>1, <1>4 DEF b

\* prepare: a use of the cached challenge.
LEMMA CountsUsed ==
  ASSUME DigestInv, cache.c # 0, UNCHANGED <<dmode, issued>>,
         cache' = [cache EXCEPT !.n = @ + 1], assigned' = Append(assigned, <<cache.c, cache.n + 1>>)
  PROVE  /\ cache' \in [c : Nat, n : Nat] /\ cache'.c = cache.c /\ assigned' \in Seq(Nat \X Nat)
         /\ CountsKept'
         /\ \A n \in Nat : n # cache.c /\ (\A j \in 1 .. Len(assigned) : assigned[j][1] # n) =>
               \A j \in 1 .. Len(assigned') : assigned'[j][1] # n
<1>. DEFINE c == <<cache.c, cache.n + 1>>
<1>0. cache \in [c : Nat, n : Nat] /\ assigned \in Seq(Nat \X Nat) /\ issued \in Nat
  BY DEF DigestInv, DigestTyped
<1>1. c \in Nat \X Nat /\ c[1] = cache.c /\ c[2] = cache.n + 1
  BY <1>0
<1>2. cache' \in [c : Nat, n : Nat] /\ cache'.c = cache.c /\ cache'.n = cache.n + 1
  <2>1. cache.n + 1 \in Nat /\ cache.c \in Nat
    BY <1>0
  <2>2. cache' = [c |-> cache.c, n |-> cache.n + 1]
    BY <1>0
  <2>. QED  BY <2>1, <2>2
<1>. HIDE DEF c
<1>3. assigned' = Append(assigned, c)
  BY DEF c
<1>4. /\ assigned' \in Seq(Nat \X Nat) /\ Len(assigned') = Len(assigned) + 1 /\ Len(assigned) \in Nat
      /\ assigned'[Len(assigned) + 1] = c /\ \A j \in 1 .. Len(assigned) : assigned'[j] = assigned[j]
  BY <1>0, <1>1, <1>3
<1>7. ASSUME NEW n \in Nat
      PROVE  /\ \A k \in 0 .. Len(assigned) : UsesOf(assigned', n, k) = UsesOf(assigned, n, k)
             /\ n = c[1] => Cardinality(UsesOf(assigned', n, Len(assigned'))) =
                              Cardinality(UsesOf(assigned, n, Len(assigned))) + 1
  <2>1. assigned \in Seq(Nat \X Nat) /\ c \in Nat \X Nat /\ Len(assigned') = Len(assigned) + 1
    BY <1>0, <1>1, <1>4
  <2>2. /\ \A k \in 0 .. Len(assigned) : UsesOf(Append(assigned, c), n, k) = UsesOf(assigned, n, k)
        /\ n = c[1] => Cardinality(UsesOf(Append(assigned, c), n, Len(assigned) + 1)) =
                          Cardinality(UsesOf(assigned, n, Len(assigned))) + 1
    BY <2>1, UsesAppend
  <2>. QED  BY <1>3, <2>1, <2>2
<1>5. CountsKept'
  <2>. SUFFICES ASSUME dmode.fresh PROVE CountsKept'
    BY DEF CountsKept
  <2>1. /\ cache.c \in 0 .. issued
        /\ cache.n = Cardinality(UsesOf(assigned, cache.c, Len(assigned)))
        /\ \A i \in 1 .. Len(assigned) :
             /\ assigned[i][1] \in 1 .. issued
             /\ assigned[i][2] = 1 + Cardinality(UsesOf(assigned, assigned[i][1], i - 1))
    BY DEF DigestInv, CountsKept
  <2>2. cache'.n = Cardinality(UsesOf(assigned', cache'.c, Len(assigned')))
    <3>1. Cardinality(UsesOf(assigned', cache.c, Len(assigned'))) = Cardinality(UsesOf(assigned, cache.c, Len(assigned))) + 1
      BY <1>0, <1>1, <1>7
    <3>. QED  BY <1>2, <2>1, <3>1
  <2>3. ASSUME NEW i \in 1 .. Len(assigned')
        PROVE  /\ assigned'[i][1] \in 1 .. issued'
               /\ assigned'[i][2] = 1 + Cardinality(UsesOf(assigned', assigned'[i][1], i - 1))
    <3>1. CASE i = Len(assigned) + 1
      <4>1. assigned'[i] = c
        BY <1>4, <3>1
      <4>2. UsesOf(assigned', cache.c, i - 1) = UsesOf(assigned, cache.c, Len(assigned))
        <5>1. i - 1 = Len(assigned) /\ i - 1 \in 0 .. Len(assigned)
          BY <1>4, <3>1
        <5>2. UsesOf(assigned', cache.c, Len(assigned)) = UsesOf(assigned, cache.c, Len(assigned))
          BY <1>0, <1>7, <5>1
        <5>. QED  BY <5>1, <5>2
      <4>3. cache.c \in 1 .. issued
        BY <1>0, <2>1
      <4>4. cache.n + 1 = 1 + Cardinality(UsesOf(assigned, cache.c, Len(assigned)))
        BY <1>0, <2>1
      <4>. QED  BY <1>1, <4>1, <4>2, <4>3, <4>4
    <3>2. CASE i \in 1 .. Len(assigned)
      <4>1. assigned'[i] = assigned[i] /\ assigned[i][1] \in Nat
        BY <1>0, <1>4, <3>2, SMTT(30)
      <4>2. i - 1 \in 0 .. Len(assigned)
        BY <1>4, <3>2
      <4>3. UsesOf(assigned', assigned[i][1], i - 1) = UsesOf(assigned, assigned[i][1], i - 1)
        <5>1. \A k \in 0 .. Len(assigned) :
                UsesOf(assigned', assigned[i][1], k) = UsesOf(assigned, assigned[i][1], k)
          BY <1>7, <4>1
        <5>. QED  BY <4>2, <5>1
      <4>. QED  BY <2>1, <3>2, <4>1, <4>3
    <3>. QED  BY <1>4, <3>1, <3>2
  <2>. QED  BY <1>2, <2>1, <2>2, <2>3 DEF CountsKept
<1>6. ASSUME NEW n \in Nat, n # cache.c, \A j \in 1 .. Len(assigned) : assigned[j][1] # n,
             NEW j \in 1 .. Len(assigned')
      PROVE  assigned'[j][1] # n
  <2>0. Len(assigned') = Len(assigned) + 1 /\ Len(assigned) \in Nat
    BY <1>4
  <2>1. j \in 1 .. Len(assigned) \/ j = Len(assigned) + 1
    BY <2>0
  <2>. QED  BY <1>1, <1>4, <1>6, <2>1
<1>. QED  BY <1>2, <1>4, <1>5, <1>6

\* A step of request r that uses the cached challenge.
LEMMA ChallengesStep ==
  ASSUME DigestInv, NEW r \in DigestReqs, UNCHANGED <<dmode, issued>>,
         \A q \in DigestReqs \ {r} : dreq'[q] = dreq[q], dreq'[r].pc # "refused", cache'.c = cache.c,
         \A n \in Nat : n # cache.c /\ (\A j \in 1 .. Len(assigned) : assigned[j][1] # n) =>
            \A j \in 1 .. Len(assigned') : assigned'[j][1] # n
  PROVE  ChallengesNew'
<1>. SUFFICES ASSUME dmode.fresh PROVE ChallengesNew'
  BY DEF ChallengesNew
<1>1. \A q \in DigestReqs : dreq'[q].pc = "refused" => dreq'[q] = dreq[q]
  OBVIOUS
<1>2. ASSUME NEW q \in DigestReqs, NEW p \in DigestReqs, q # p, dreq'[q].pc = "refused", dreq'[p].pc = "refused",
             dreq'[q].chal # 0
      PROVE  dreq'[q].chal # dreq'[p].chal
  BY <1>1, <1>2 DEF DigestInv, ChallengesNew
<1>3. ASSUME NEW q \in DigestReqs, dreq'[q].pc = "refused", dreq'[q].chal # 0
      PROVE  /\ dreq'[q].chal \in 1 .. issued' /\ dreq'[q].chal # cache'.c
             /\ \A j \in 1 .. Len(assigned') : assigned'[j][1] # dreq'[q].chal
  <2>1. /\ dreq[q].chal \in 1 .. issued /\ dreq[q].chal # cache.c /\ dreq'[q] = dreq[q]
        /\ \A j \in 1 .. Len(assigned) : assigned[j][1] # dreq[q].chal
    BY <1>1, <1>3 DEF DigestInv, ChallengesNew
  <2>2. dreq[q].chal \in Nat
    BY <2>1 DEF DigestInv, DigestTyped
  <2>. QED  BY <2>1, <2>2
<1>. QED  BY <1>2, <1>3 DEF ChallengesNew

LEMMA PrepareKeeps ==
  ASSUME DigestInv, NEW r \in DigestReqs, Digest!prepare(r)
  PROVE  DigestInv'
<1>. USE DEF Digest!NoCred
<1>0. /\ dreq \in [DigestReqs -> DreqType] /\ dreq[r] \in DreqType /\ cache \in [c : Nat, n : Nat]
      /\ CopiesCounted(dreq[r]) /\ CopyWhole(dreq[r]) /\ CopyAnswers(dreq[r], cache.c) /\ SentRight(dreq[r])
  BY DEF DigestInv, DigestTyped, CopiesRight
<1>1. UNCHANGED <<dmode, issued>> /\ dreq[r].pc = "prepare"
  BY DEF Digest!prepare
<1>2. CASE cache.c = 0
  <2>. DEFINE s == [dreq[r] EXCEPT !.pc = "send"]
  <2>1. dreq' = [dreq EXCEPT ![r] = s] /\ UNCHANGED <<cache, assigned>>
    BY <1>0, <1>2 DEF Digest!prepare
  <2>2. /\ s \in DreqType /\ s.pc = "send" /\ s.attempt = dreq[r].attempt /\ s.sent = dreq[r].sent
        /\ s.body = dreq[r].body /\ s.source = dreq[r].source
    BY <1>0 DEF DreqType
  <2>. HIDE DEF s
  <2>3. dreq' \in [DigestReqs -> DreqType] /\ dreq'[r] = s /\ \A q \in DigestReqs \ {r} : dreq'[q] = dreq[q]
    BY <1>0, <2>1, <2>2
  <2>4. CopiesCounted(s) /\ CopyWhole(s) /\ CopyAnswers(s, cache.c) /\ SentRight(s)
    BY <1>0, <1>1, <1>2, <2>2 DEF CopiesCounted, CopyWhole, CopyAnswers, SentRight
  <2>5. CopiesRight'
    BY <1>1, <2>1, <2>3, <2>4, CopiesStep
  <2>6. (CountsKept /\ ChallengesNew)'
    BY <1>1, <2>1, <2>2, <2>3, CountsStep
  <2>7. DigestTyped'
    BY <1>1, <2>1, <2>3 DEF DigestInv, DigestTyped
  <2>. QED  BY <2>5, <2>6, <2>7 DEF DigestInv
<1>3. CASE cache.c # 0
  <2>. DEFINE cred == <<cache.c, cache.n + 1>>
              s == [dreq[r] EXCEPT !.pc = "send", !.cred = cred]
  <2>1. /\ cache' = [cache EXCEPT !.n = @ + 1] /\ assigned' = Append(assigned, cred)
        /\ dreq' = [dreq EXCEPT ![r] = s] \/ Digest!Return(r, "err")
    BY <1>0, <1>3 DEF Digest!prepare
  <2>2. /\ cache' \in [c : Nat, n : Nat] /\ cache'.c = cache.c /\ assigned' \in Seq(Nat \X Nat)
        /\ CountsKept'
        /\ \A n \in Nat : n # cache.c /\ (\A j \in 1 .. Len(assigned) : assigned[j][1] # n) =>
              \A j \in 1 .. Len(assigned') : assigned'[j][1] # n
    BY <1>1, <1>3, <2>1, CountsUsed
  <2>3. cred \in Nat \X Nat /\ cred # Digest!NoCred
    BY <1>0, <1>3
  <2>. HIDE DEF cred
  <2>4. ASSUME dreq' \in [DigestReqs -> DreqType], \A q \in DigestReqs \ {r} : dreq'[q] = dreq[q],
               dreq'[r].pc # "refused", CopiesRight'
        PROVE  DigestInv'
    <3>1. ChallengesNew'
      BY <1>1, <2>2, <2>4, ChallengesStep
    <3>2. DigestTyped'
      BY <1>1, <2>2, <2>4 DEF DigestInv, DigestTyped
    <3>. QED  BY <2>2, <2>4, <3>1, <3>2 DEF DigestInv
  <2>5. CASE dreq' = [dreq EXCEPT ![r] = s]
    <3>1. /\ s \in DreqType /\ s.pc = "send" /\ s.attempt = dreq[r].attempt /\ s.sent = dreq[r].sent
          /\ s.body = dreq[r].body /\ s.source = dreq[r].source /\ s.cred = cred
      BY <1>0, <2>3 DEF DreqType
    <3>. HIDE DEF s
    <3>2. dreq' \in [DigestReqs -> DreqType] /\ dreq'[r] = s /\ \A q \in DigestReqs \ {r} : dreq'[q] = dreq[q]
      BY <1>0, <2>5, <3>1
    <3>3. CopiesCounted(s) /\ CopyWhole(s) /\ CopyAnswers(s, cache'.c) /\ SentRight(s)
      BY <1>0, <1>1, <2>3, <3>1 DEF CopiesCounted, CopyWhole, CopyAnswers, SentRight
    <3>4. CopiesRight'
      BY <1>1, <2>2, <3>2, <3>3, CopiesStep
    <3>. QED  BY <2>4, <3>1, <3>2, <3>4
  <2>6. CASE Digest!Return(r, "err")
    <3>1. CopiesRight'
      BY <1>1, <2>2, <2>6, ReturnKeepsCopies
    <3>2. /\ dreq' \in [DigestReqs -> DreqType] /\ \A q \in DigestReqs \ {r} : dreq'[q] = dreq[q]
          /\ dreq'[r].pc = "done"
      BY <2>6, ReturnGives
    <3>. QED  BY <2>4, <3>1, <3>2
  <2>. QED  BY <2>1, <2>5, <2>6
<1>. QED  BY <1>2, <1>3

\* The server's answer: a challenge it has not sent before, if it is fresh.
LEMMA AnsweredKeeps ==
  ASSUME DigestConstants, DigestInv, NEW r \in DigestReqs, Digest!answered(r)
  PROVE  DigestInv'
<1>0. /\ dreq \in [DigestReqs -> DreqType] /\ dreq[r] \in DreqType /\ issued \in Nat /\ dmode \in DigestModes
      /\ CopiesCounted(dreq[r]) /\ CopyWhole(dreq[r]) /\ CopyAnswers(dreq[r], cache.c) /\ SentRight(dreq[r])
  BY DEF DigestInv, DigestTyped, CopiesRight
<1>1. UNCHANGED <<dmode, cache, assigned>> /\ dreq[r].pc = "flight" /\ dmode.fresh \in BOOLEAN
  BY <1>0 DEF Digest!answered, DigestConstants
<1>2. ASSUME NEW n \in Nat, dreq' = [dreq EXCEPT ![r].pc = "refused", ![r].chal = n], dreq[r].attempt = 1,
             AlwaysChallenged => n # 0
      PROVE  /\ dreq' \in [DigestReqs -> DreqType] /\ \A q \in DigestReqs \ {r} : dreq'[q] = dreq[q]
             /\ dreq'[r].chal = n /\ dreq'[r].pc = "refused" /\ CopiesRight'
  <2>. DEFINE s == [dreq[r] EXCEPT !.pc = "refused", !.chal = n]
  <2>1. dreq' = [dreq EXCEPT ![r] = s]
    BY <1>0, <1>2
  <2>2. /\ s \in DreqType /\ s.pc = "refused" /\ s.attempt = dreq[r].attempt /\ s.sent = dreq[r].sent
        /\ s.body = dreq[r].body /\ s.source = dreq[r].source /\ s.chal = n
    BY <1>0 DEF DreqType
  <2>. HIDE DEF s
  <2>3. dreq' \in [DigestReqs -> DreqType] /\ dreq'[r] = s /\ \A q \in DigestReqs \ {r} : dreq'[q] = dreq[q]
    BY <1>0, <2>1, <2>2
  <2>4. CopiesCounted(s) /\ CopyWhole(s) /\ CopyAnswers(s, cache.c) /\ SentRight(s)
    BY <1>0, <1>1, <1>2, <2>2 DEF CopiesCounted, CopyWhole, CopyAnswers, SentRight
  <2>5. CopiesRight'
    BY <1>1, <2>3, <2>4, CopiesStep
  <2>. QED  BY <2>2, <2>3, <2>5
<1>3. CASE UNCHANGED issued /\ \E res \in {"ok", "err", "401"} : Digest!Return(r, res)
  BY <1>1, <1>3, ReturnKeeps
<1>4. CASE /\ dmode.answers \cap {"plain401", "bad401"} # {} /\ UNCHANGED issued /\ dreq[r].attempt = 1
           /\ dreq' = [dreq EXCEPT ![r].pc = "refused", ![r].chal = 0]
  <2>1. 0 \in Nat /\ ~AlwaysChallenged
    BY <1>4 DEF AlwaysChallenged
  <2>2. /\ dreq' \in [DigestReqs -> DreqType] /\ \A q \in DigestReqs \ {r} : dreq'[q] = dreq[q]
        /\ dreq'[r].chal = 0 /\ dreq'[r].pc = "refused" /\ CopiesRight'
    BY <1>2, <1>4, <2>1
  <2>3. (CountsKept /\ ChallengesNew)'
    BY <1>1, <1>4, <2>2, CountsStep
  <2>4. DigestTyped'
    BY <1>1, <1>4, <2>2 DEF DigestInv, DigestTyped
  <2>. QED  BY <2>2, <2>3, <2>4 DEF DigestInv
<1>5. CASE /\ issued' = (IF dmode.fresh \/ issued = 0 THEN issued + 1 ELSE issued)
           /\ IF dreq[r].attempt = 1 THEN dreq' = [dreq EXCEPT ![r].pc = "refused", ![r].chal = issued']
                                     ELSE Digest!Return(r, "401")
  <2>1. issued' \in Nat \ {0} /\ issued <= issued' /\ (dmode.fresh => issued' = issued + 1)
    BY <1>0, <1>1, <1>5
  <2>2. CountsKept'
    <3>. SUFFICES ASSUME dmode.fresh PROVE CountsKept'
      BY <1>1 DEF CountsKept
    <3>1. /\ cache.c \in 0 .. issued
          /\ cache.c # 0 => cache.n = Cardinality(UsesOf(assigned, cache.c, Len(assigned)))
          /\ \A i \in 1 .. Len(assigned) :
                /\ assigned[i][1] \in 1 .. issued
                /\ assigned[i][2] = 1 + Cardinality(UsesOf(assigned, assigned[i][1], i - 1))
      BY DEF DigestInv, CountsKept
    <3>2. \A x \in 0 .. issued : x \in 0 .. issued'
      BY <1>0, <2>1
    <3>3. \A x \in 1 .. issued : x \in 1 .. issued'
      BY <1>0, <2>1
    <3>. QED  BY <1>1, <3>1, <3>2, <3>3 DEF CountsKept
  <2>3. ASSUME NEW q \in DigestReqs, q # r, dreq'[q] = dreq[q], dmode.fresh, dreq'[q].pc = "refused", dreq'[q].chal # 0
        PROVE  /\ dreq'[q].chal \in 1 .. issued /\ dreq'[q].chal # cache.c
               /\ \A j \in 1 .. Len(assigned) : assigned[j][1] # dreq'[q].chal
    BY <2>3 DEF DigestInv, ChallengesNew
  <2>31. dmode.fresh => cache.c \in 0 .. issued /\ \A j \in 1 .. Len(assigned) : assigned[j][1] \in 1 .. issued
    BY DEF DigestInv, CountsKept
  <2>4. CASE dreq[r].attempt = 1
    <3>1. /\ dreq' \in [DigestReqs -> DreqType] /\ \A q \in DigestReqs \ {r} : dreq'[q] = dreq[q]
          /\ dreq'[r].chal = issued' /\ dreq'[r].pc = "refused" /\ CopiesRight'
      BY <1>2, <1>5, <2>1, <2>4
    <3>2. ChallengesNew'
      <4>. SUFFICES ASSUME dmode.fresh PROVE ChallengesNew'
        BY <1>1 DEF ChallengesNew
      <4>0. issued' = issued + 1
        BY <2>1
      <4>1. ASSUME NEW q \in DigestReqs, dreq'[q].pc = "refused", dreq'[q].chal # 0
            PROVE  /\ dreq'[q].chal \in 1 .. issued' /\ dreq'[q].chal # cache'.c
                   /\ \A j \in 1 .. Len(assigned') : assigned'[j][1] # dreq'[q].chal
        <5>1. CASE q = r
          BY <1>0, <1>1, <2>31, <3>1, <4>0, <5>1
        <5>2. CASE q # r
          <6>1. /\ dreq'[q].chal \in 1 .. issued /\ dreq'[q].chal # cache.c
                /\ \A j \in 1 .. Len(assigned) : assigned[j][1] # dreq'[q].chal
            BY <2>3, <3>1, <4>1, <5>2
          <6>. QED  BY <1>0, <1>1, <4>0, <6>1
        <5>. QED  BY <5>1, <5>2
      <4>2. ASSUME NEW q \in DigestReqs, NEW p \in DigestReqs, q # p, dreq'[q].pc = "refused", dreq'[p].pc = "refused",
                   dreq'[q].chal # 0
            PROVE  dreq'[q].chal # dreq'[p].chal
        <5>0. \A x \in DigestReqs : x # r /\ dreq'[x].pc = "refused" /\ dreq'[x].chal # 0 => dreq'[x].chal \in 1 .. issued
          BY <2>3, <3>1
        <5>1. CASE q = r
          BY <1>0, <3>1, <4>0, <4>2, <5>0, <5>1
        <5>2. CASE p = r
          BY <1>0, <3>1, <4>0, <4>2, <5>0, <5>2
        <5>3. CASE q # r /\ p # r
          BY <3>1, <4>2, <5>3 DEF DigestInv, ChallengesNew
        <5>. QED  BY <5>1, <5>2, <5>3
      <4>. QED  BY <4>1, <4>2 DEF ChallengesNew
    <3>3. DigestTyped'
      BY <1>1, <2>1, <3>1 DEF DigestInv, DigestTyped
    <3>. QED  BY <2>2, <3>1, <3>2, <3>3 DEF DigestInv
  <2>5. CASE dreq[r].attempt # 1
    <3>0. Digest!Return(r, "401")
      BY <1>5, <2>5
    <3>1. /\ dreq' \in [DigestReqs -> DreqType] /\ \A q \in DigestReqs \ {r} : dreq'[q] = dreq[q]
          /\ dreq'[r].pc = "done"
      BY <3>0, ReturnGives
    <3>2. CopiesRight'
      BY <1>1, <3>0, ReturnKeepsCopies
    <3>3. ChallengesNew'
      <4>. SUFFICES ASSUME dmode.fresh PROVE ChallengesNew'
        BY <1>1 DEF ChallengesNew
      <4>1. ASSUME NEW q \in DigestReqs, dreq'[q].pc = "refused", dreq'[q].chal # 0
            PROVE  /\ dreq'[q].chal \in 1 .. issued' /\ dreq'[q].chal # cache'.c
                   /\ \A j \in 1 .. Len(assigned') : assigned'[j][1] # dreq'[q].chal
        <5>1. /\ dreq'[q].chal \in 1 .. issued /\ dreq'[q].chal # cache.c
              /\ \A j \in 1 .. Len(assigned) : assigned[j][1] # dreq'[q].chal
          BY <2>3, <3>1, <4>1
        <5>. QED  BY <1>0, <1>1, <2>1, <5>1
      <4>2. ASSUME NEW q \in DigestReqs, NEW p \in DigestReqs, q # p, dreq'[q].pc = "refused", dreq'[p].pc = "refused",
                   dreq'[q].chal # 0
            PROVE  dreq'[q].chal # dreq'[p].chal
        BY <3>1, <4>2 DEF DigestInv, ChallengesNew
      <4>. QED  BY <4>1, <4>2 DEF ChallengesNew
    <3>4. DigestTyped'
      BY <1>1, <2>1, <3>1 DEF DigestInv, DigestTyped
    <3>. QED  BY <2>2, <3>2, <3>3, <3>4 DEF DigestInv
  <2>. QED  BY <2>4, <2>5
<1>. QED  BY <1>3, <1>4, <1>5 DEF Digest!answered

\* findDigestChallenge's verdict reaches the cache.
LEMMA CacheKeeps ==
  ASSUME DigestInv, NEW r \in DigestReqs, Digest!cacheChallenge(r) \/ Digest!dropChallenge(r)
  PROVE  DigestInv'
<1>0. /\ dreq \in [DigestReqs -> DreqType] /\ dreq[r] \in DreqType /\ issued \in Nat
      /\ CopiesCounted(dreq[r]) /\ CopyWhole(dreq[r]) /\ CopyAnswers(dreq[r], cache.c) /\ SentRight(dreq[r])
      /\ assigned \in Seq(Nat \X Nat)
  BY DEF DigestInv, DigestTyped, CopiesRight
<1>1. UNCHANGED <<dmode, issued, assigned>> /\ dreq[r].pc = "refused"
  BY DEF Digest!cacheChallenge, Digest!dropChallenge
<1>2. dreq[r].chal \in Nat
  BY <1>0 DEF DreqType
<1>3. CASE Digest!cacheChallenge(r)
  <2>1. cache' = [c |-> dreq[r].chal, n |-> 0] /\ dreq[r].chal # 0
    BY <1>3 DEF Digest!cacheChallenge
  <2>2. cache' \in [c : Nat, n : Nat] /\ cache'.c = dreq[r].chal /\ cache'.n = 0
    BY <1>2, <2>1
  <2>. DEFINE s == [dreq[r] EXCEPT !.pc = "clone"]
  <2>3. dreq' = [dreq EXCEPT ![r] = s]
    BY <1>0, <1>3 DEF Digest!cacheChallenge
  <2>4. /\ s \in DreqType /\ s.pc = "clone" /\ s.attempt = dreq[r].attempt /\ s.sent = dreq[r].sent
        /\ s.body = dreq[r].body /\ s.source = dreq[r].source
    BY <1>0 DEF DreqType
  <2>. HIDE DEF s
  <2>5. dreq' \in [DigestReqs -> DreqType] /\ dreq'[r] = s /\ \A q \in DigestReqs \ {r} : dreq'[q] = dreq[q]
    BY <1>0, <2>3, <2>4
  <2>6. CopiesCounted(s) /\ CopyWhole(s) /\ CopyAnswers(s, cache'.c) /\ SentRight(s)
    BY <1>0, <1>1, <2>1, <2>2, <2>4 DEF CopiesCounted, CopyWhole, CopyAnswers, SentRight
  <2>7. CopiesRight'
    BY <1>1, <2>1, <2>2, <2>5, <2>6, CopiesStep
  <2>8. CountsKept'
    <3>. SUFFICES ASSUME dmode.fresh PROVE CountsKept'
      BY <1>1 DEF CountsKept
    <3>1. dreq[r].chal \in 1 .. issued /\ \A j \in 1 .. Len(assigned) : assigned[j][1] # dreq[r].chal
      BY <1>1, <2>1 DEF DigestInv, ChallengesNew
    <3>2. UsesOf(assigned, dreq[r].chal, Len(assigned)) = {}
      BY <3>1 DEF UsesOf
    <3>3. cache'.n = Cardinality(UsesOf(assigned', cache'.c, Len(assigned')))
      BY <1>1, <2>2, <3>2, FS_EmptySet
    <3>4. cache'.c \in 0 .. issued'
      BY <1>0, <1>1, <2>2, <3>1
    <3>5. \A i \in 1 .. Len(assigned) :
             /\ assigned[i][1] \in 1 .. issued
             /\ assigned[i][2] = 1 + Cardinality(UsesOf(assigned, assigned[i][1], i - 1))
      BY DEF DigestInv, CountsKept
    <3>. QED  BY <1>1, <3>3, <3>4, <3>5 DEF CountsKept
  <2>9. ChallengesNew'
    <3>. SUFFICES ASSUME dmode.fresh PROVE ChallengesNew'
      BY <1>1 DEF ChallengesNew
    <3>1. \A q \in DigestReqs : dreq'[q].pc = "refused" => dreq'[q] = dreq[q] /\ q # r
      BY <2>4, <2>5
    <3>2. ASSUME NEW q \in DigestReqs, dreq'[q].pc = "refused", dreq'[q].chal # 0
          PROVE  /\ dreq'[q].chal \in 1 .. issued' /\ dreq'[q].chal # cache'.c
                 /\ \A j \in 1 .. Len(assigned') : assigned'[j][1] # dreq'[q].chal
      <4>1. /\ dreq[q].chal \in 1 .. issued /\ dreq'[q] = dreq[q] /\ dreq[q].chal # dreq[r].chal
            /\ \A j \in 1 .. Len(assigned) : assigned[j][1] # dreq[q].chal
        BY <1>1, <3>1, <3>2 DEF DigestInv, ChallengesNew
      <4>. QED  BY <1>1, <2>2, <4>1
    <3>3. ASSUME NEW q \in DigestReqs, NEW p \in DigestReqs, q # p, dreq'[q].pc = "refused", dreq'[p].pc = "refused",
                 dreq'[q].chal # 0
          PROVE  dreq'[q].chal # dreq'[p].chal
      BY <3>1, <3>3 DEF DigestInv, ChallengesNew
    <3>. QED  BY <3>2, <3>3 DEF ChallengesNew
  <2>10. DigestTyped'
    BY <1>1, <2>2, <2>5 DEF DigestInv, DigestTyped
  <2>. QED  BY <2>7, <2>8, <2>9, <2>10 DEF DigestInv
<1>4. CASE Digest!dropChallenge(r)
  <2>1. cache' = [c |-> 0, n |-> 0] /\ dreq[r].chal = 0 /\ ~AlwaysChallenged
        /\ \E res \in {"ok", "err", "401"} : Digest!Return(r, res)
    BY <1>4 DEF Digest!dropChallenge, AlwaysChallenged
  <2>2. cache' \in [c : Nat, n : Nat] /\ cache'.c = 0
    BY <2>1
  <2>3. /\ dreq' \in [DigestReqs -> DreqType] /\ \A q \in DigestReqs \ {r} : dreq'[q] = dreq[q]
        /\ dreq'[r].pc = "done"
    BY <2>1, ReturnGives
  <2>4. CopiesRight'
    BY <1>1, <2>1, ReturnKeepsCopies
  <2>5. CountsKept'
    BY <1>0, <1>1, <2>2 DEF DigestInv, CountsKept
  <2>6. ChallengesNew'
    <3>. SUFFICES ASSUME dmode.fresh PROVE ChallengesNew'
      BY <1>1 DEF ChallengesNew
    <3>1. \A q \in DigestReqs : dreq'[q].pc = "refused" => dreq'[q] = dreq[q] /\ q # r
      BY <2>3
    <3>2. ASSUME NEW q \in DigestReqs, dreq'[q].pc = "refused", dreq'[q].chal # 0
          PROVE  /\ dreq'[q].chal \in 1 .. issued' /\ dreq'[q].chal # cache'.c
                 /\ \A j \in 1 .. Len(assigned') : assigned'[j][1] # dreq'[q].chal
      BY <1>1, <2>2, <3>1, <3>2 DEF DigestInv, ChallengesNew
    <3>3. ASSUME NEW q \in DigestReqs, NEW p \in DigestReqs, q # p, dreq'[q].pc = "refused", dreq'[p].pc = "refused",
                 dreq'[q].chal # 0
          PROVE  dreq'[q].chal # dreq'[p].chal
      BY <3>1, <3>3 DEF DigestInv, ChallengesNew
    <3>. QED  BY <3>2, <3>3 DEF ChallengesNew
  <2>7. DigestTyped'
    BY <1>1, <2>2, <2>3 DEF DigestInv, DigestTyped
  <2>. QED  BY <2>4, <2>5, <2>6, <2>7 DEF DigestInv
<1>. QED  BY <1>3, <1>4

LEMMA DigestStep == ASSUME DigestConstants, DigestInv, [Digest!Next]_Digest!digestVars PROVE DigestInv'
<1>1. CASE Digest!Next
  <2>1. PICK r \in dmode.reqs : \/ Digest!cloner(r) \/ Digest!clone(r) \/ Digest!prepare(r) \/ Digest!RoundTrip(r)
                                \/ Digest!answered(r) \/ Digest!cacheChallenge(r) \/ Digest!dropChallenge(r)
    BY <1>1 DEF Digest!Next
  <2>2. r \in DigestReqs
    BY DEF DigestConstants, DigestInv, DigestTyped
  <2>. QED  BY <2>1, <2>2, CopySteps, PrepareKeeps, AnsweredKeeps, CacheKeeps
<1>2. CASE UNCHANGED Digest!digestVars
  <2>0. UNCHANGED <<dmode, cache, dreq, issued, assigned>>
    BY <1>2 DEF Digest!digestVars
  <2>1. DigestTyped' /\ CountsKept' /\ ChallengesNew'
    BY <2>0 DEF DigestInv, DigestTyped, CountsKept, ChallengesNew, UsesOf
  <2>2. CopiesRight'
    BY <2>0 DEF DigestInv, CopiesRight, CopiesCounted, CopyWhole, CopyAnswers, SentRight, AlwaysChallenged, RightBody
  <2>. QED  BY <2>1, <2>2 DEF DigestInv
<1>. QED  BY <1>1, <1>2

LEMMA DigestSafe == DigestInv => Digest!ReplayComplete /\ Digest!CountsFresh
<1>. SUFFICES ASSUME DigestInv PROVE Digest!ReplayComplete /\ Digest!CountsFresh
  OBVIOUS
<1>1. Digest!ReplayComplete
  BY DEF DigestInv, CopiesRight, SentRight, RightBody, AlwaysChallenged, Digest!ReplayComplete
<1>2. Digest!CountsFresh
  <2>. SUFFICES ASSUME dmode.fresh, NEW i \in 1 .. Len(assigned)
                PROVE  /\ assigned[i][1] \in 1 .. issued
                       /\ assigned[i][2] = 1 + Cardinality({j \in 1 .. i - 1 : assigned[j][1] = assigned[i][1]})
    BY DACardinality DEF Digest!CountsFresh
  <2>. QED  BY DEF DigestInv, CountsKept, UsesOf
<1>. QED  BY <1>1, <1>2

-----------------------------------------------------------------------------
(* The dump of a request: what is in r.dumpBuffer.                         *)

\* The variables of RequestDump in the composition.
plan   == v1
ropts  == v2
rctx   == v3
closer == v4
rpc    == v5
tries  == v6
loop   == v7
early  == v8
rbuf   == v9
rfile  == v10
USE DEF plan, ropts, rctx, closer, rpc, tries, loop, early, rbuf, rfile

LoopType == {<<>>, <<"reqBody">>, <<"reqHeader", "reqBody">>}

RequestDumpTyped ==
    /\ plan \in Seq(DumpCallType) /\ ropts \in DumpOptionsType
    /\ rpc \in {"setup", "send", "answered", "read", "return"}
    /\ tries \in RequestDump!Tries /\ loop \in [RequestDump!Tries -> LoopType]
    /\ rbuf \in Seq(RequestDump!Tries \X RequestDump!AllParts)

\* Before Do nothing was sent and nothing dumped.
NothingSent ==
    rpc = "setup" => rbuf = <<>> /\ tries = 1 /\ \A a \in RequestDump!Tries : loop[a] = <<>>

\* The write loop of an attempt that was answered has at most the body to send,
\* and only if the answer came early; later attempts have not begun.
LoopsLate ==
    \A a \in RequestDump!Tries :
       /\ a > tries => loop[a] = <<>>
       /\ a < tries \/ rpc \in {"answered", "read", "return"} =>
             loop[a] = <<>> \/ (loop[a] = <<"reqBody">> /\ a \in early)

\* What the buffer holds of an earlier attempt is a late request body.
PieceOK(b, t, ea, parts) == (b[1] # t => b[1] \in ea /\ b[2] = "reqBody") /\ b[2] \in parts
BufferOK == \A i \in 1 .. Len(rbuf) : PieceOK(rbuf[i], tries, early, ropts.parts)

RequestDumpInv == RequestDumpTyped /\ NothingSent /\ LoopsLate /\ BufferOK

LEMMA RequestDumpInit == ASSUME RequestDumpConstants PROVE RequestDump!Init => RequestDumpInv
<1>. SUFFICES ASSUME RequestDump!Init PROVE RequestDumpInv
  OBVIOUS
<1>1. 1 \in RequestDump!Tries
  BY DEF RequestDumpConstants, RequestDump!Tries
<1>2. ropts \in DumpOptionsType
  BY DEF RequestDump!Init, DumpOptionsType
<1>3. loop = [a \in RequestDump!Tries |-> <<>>] /\ rbuf = <<>> /\ plan \in DumpPlans /\ rpc = "setup" /\ tries = 1
  BY DEF RequestDump!Init
<1>4. RequestDumpTyped
  BY <1>1, <1>2, <1>3 DEF RequestDumpConstants, RequestDumpTyped, LoopType
<1>5. NothingSent /\ LoopsLate /\ BufferOK
  BY <1>3 DEF NothingSent, LoopsLate, BufferOK, RequestDump!Tries
<1>. QED  BY <1>4, <1>5 DEF RequestDumpInv

\* The calls on the Request keep its options a DumpOptions object.
LEMMA RequestSetup == ASSUME RequestDumpInv, RequestDump!Setup PROVE RequestDumpInv'
<1>. DEFINE c == Head(plan)
<1>1. /\ rpc = "setup" /\ plan # <<>> /\ plan' = Tail(plan)
      /\ UNCHANGED <<rpc, tries, loop, early, rbuf, rfile>>
  BY DEF RequestDump!Setup
<1>2. c \in DumpCallType /\ plan' \in Seq(DumpCallType)
  BY <1>1 DEF RequestDumpInv, RequestDumpTyped
<1>3. RequestDump!getDumpOptions \in DumpOptionsType
  BY DEF RequestDumpInv, RequestDumpTyped, RequestDump!getDumpOptions, DumpOptionsType
<1>4. ropts' \in DumpOptionsType
  <2>1. CASE c[1] = "enable" /\ RequestDump!EnableDumpWithout(c[2])
    BY <2>1, <1>3 DEF RequestDump!EnableDumpWithout, DumpOptionsType
  <2>2. CASE RequestDump!EnableDumpTo
    BY <2>2, <1>3 DEF RequestDump!EnableDumpTo, DumpOptionsType
  <2>3. CASE RequestDump!EnableDumpToFile
    BY <2>3, <1>3 DEF RequestDump!EnableDumpToFile, DumpOptionsType
  <2>4. CASE c[1] = "options" /\ RequestDump!SetDumpOptions(c[2])
    <3>1. c[2] \in DumpOptionsType
      BY <1>2, <2>4 DEF DumpCallType
    <3>. QED  BY <3>1, <2>4 DEF RequestDump!SetDumpOptions, DumpOptionsType
  <2>. QED  BY <2>1, <2>2, <2>3, <2>4 DEF RequestDump!Setup
<1>5. RequestDumpTyped'
  BY <1>1, <1>2, <1>4 DEF RequestDumpInv, RequestDumpTyped
<1>6. NothingSent' /\ LoopsLate' /\ BufferOK'
  BY <1>1 DEF RequestDumpInv, NothingSent, LoopsLate, BufferOK
<1>. QED  BY <1>5, <1>6 DEF RequestDumpInv

\* DumpTo keeps the buffer right if the piece is one it may hold.
LEMMA DumpedKeeps ==
  ASSUME RequestDumpInv, NEW a \in RequestDump!Tries, NEW p \in RequestDump!AllParts, RequestDump!Dumped(a, p),
         a # tries => a \in early /\ p = "reqBody",
         tries' = tries, ropts' = ropts, early \subseteq early'
  PROVE  rbuf' \in Seq(RequestDump!Tries \X RequestDump!AllParts) /\ BufferOK'
<1>. DEFINE b == <<a, p>>
<1>1. rbuf \in Seq(RequestDump!Tries \X RequestDump!AllParts) /\ BufferOK
  BY DEF RequestDumpInv, RequestDumpTyped
<1>2. CASE rbuf' = rbuf
  BY <1>1, <1>2 DEF BufferOK, PieceOK
<1>3. CASE rbuf' = Append(rbuf, b) /\ p \in ropts.parts
  <2>1. b \in RequestDump!Tries \X RequestDump!AllParts /\ b[1] = a /\ b[2] = p
    OBVIOUS
  <2>2. PieceOK(b, tries', early', ropts'.parts)
    BY <2>1, <1>3 DEF PieceOK
  <2>. HIDE DEF b
  <2>3. \A i \in 1 .. Len(rbuf) : PieceOK(rbuf[i], tries', early', ropts'.parts)
    BY <1>1 DEF BufferOK, PieceOK
  <2>4. \A i \in 1 .. Len(rbuf') : rbuf'[i] = (IF i = Len(rbuf) + 1 THEN b ELSE rbuf[i])
    BY <1>1, <1>3, <2>1
  <2>5. Len(rbuf') = Len(rbuf) + 1 /\ rbuf' \in Seq(RequestDump!Tries \X RequestDump!AllParts)
    BY <1>1, <1>3, <2>1
  <2>6. ASSUME NEW i \in 1 .. Len(rbuf') PROVE PieceOK(rbuf'[i], tries', early', ropts'.parts)
    <3>1. CASE i = Len(rbuf) + 1
      BY <3>1, <2>2, <2>4
    <3>2. CASE i # Len(rbuf) + 1
      <4>1. i \in 1 .. Len(rbuf) /\ rbuf'[i] = rbuf[i]
        BY <3>2, <2>4, <2>5, <1>1
      <4>. QED  BY <4>1, <2>3
    <3>. QED  BY <3>1, <3>2
  <2>. QED  BY <2>5, <2>6 DEF BufferOK
<1>. QED  BY <1>2, <1>3 DEF RequestDump!Dumped

LEMMA RequestLoop ==
  ASSUME RequestDumpInv, NEW a \in RequestDump!Tries, RequestDump!WriteLoop(a) PROVE RequestDumpInv'
<1>. USE DEF RequestDump!WriteLoop
<1>1. UNCHANGED <<plan, ropts, rctx, closer, rpc, tries, early>> /\ loop[a] # <<>>
  OBVIOUS
<1>2. loop[a] \in {<<"reqBody">>, <<"reqHeader", "reqBody">>} /\ rpc # "setup"
  BY <1>1 DEF RequestDumpInv, RequestDumpTyped, NothingSent, LoopType
<1>3. /\ loop' = [loop EXCEPT ![a] = loop'[a]] /\ loop'[a] \in {<<>>, <<"reqBody">>}
      /\ loop[a] = <<"reqBody">> => loop'[a] = <<>>
  <2>1. Tail(<<"reqBody">>) = <<>> /\ Tail(<<"reqHeader", "reqBody">>) = <<"reqBody">>
    OBVIOUS
  <2>. QED  BY <1>2, <2>1 DEF RequestDumpInv, RequestDumpTyped
<1>4. rbuf' \in Seq(RequestDump!Tries \X RequestDump!AllParts) /\ BufferOK'
  <2>1. CASE RequestDump!Dumped(a, Head(loop[a]))
    <3>1. Head(loop[a]) \in RequestDump!AllParts
      BY <1>2 DEF RequestDump!AllParts
    <3>2. a # tries => a \in early /\ Head(loop[a]) = "reqBody"
      BY <1>1 DEF RequestDumpInv, RequestDumpTyped, LoopsLate, RequestDump!Tries
    <3>. QED  BY <3>1, <3>2, <2>1, <1>1, DumpedKeeps
  <2>2. CASE rbuf' = rbuf
    BY <2>2, <1>1 DEF RequestDumpInv, RequestDumpTyped, BufferOK, PieceOK
  <2>. QED  BY <2>1, <2>2
<1>5. loop' \in [RequestDump!Tries -> LoopType]
  BY <1>3 DEF RequestDumpInv, RequestDumpTyped, LoopType
<1>6. LoopsLate'
  BY <1>1, <1>3 DEF RequestDumpInv, RequestDumpTyped, LoopsLate
<1>. QED  BY <1>1, <1>2, <1>4, <1>5, <1>6 DEF RequestDumpInv, RequestDumpTyped, NothingSent

LEMMA RequestDumpStep ==
  ASSUME RequestDumpConstants PROVE RequestDumpInv /\ [RequestDump!Next]_(RequestDump!rdumpVars) => RequestDumpInv'
<1>. SUFFICES ASSUME RequestDumpInv, [RequestDump!Next]_(RequestDump!rdumpVars) PROVE RequestDumpInv'
  OBVIOUS
<1>. USE DEF RequestDumpInv, RequestDumpTyped
<1>0. 1 \in RequestDump!Tries /\ RequestDump!Tries \subseteq Int /\ tries \in RequestDump!Tries
  BY DEF RequestDumpConstants, RequestDump!Tries
<1>1. CASE RequestDump!Setup
  BY <1>1, RequestSetup
<1>2. CASE RequestDump!Do
  BY <1>2, <1>0 DEF RequestDump!Do, NothingSent, LoopsLate, BufferOK, PieceOK, LoopType
<1>3. CASE RequestDump!Answer
  <2>. USE DEF RequestDump!Answer
  <2>1. UNCHANGED <<plan, ropts, tries, loop>> /\ early \subseteq early' /\ rpc' = "answered" /\ rpc = "send"
    BY <1>3
  <2>2. "respHeader" \in RequestDump!AllParts
    BY DEF RequestDump!AllParts
  <2>3. rbuf' \in Seq(RequestDump!Tries \X RequestDump!AllParts) /\ BufferOK'
    BY <1>3, <1>0, <2>1, <2>2, DumpedKeeps
  <2>4. loop[tries] = <<>> \/ (loop[tries] = <<"reqBody">> /\ tries \in early')
    <3>1. loop[tries] \in LoopType /\ Len(<<"reqHeader", "reqBody">>) = 2
      BY <1>0
    <3>2. loop[tries] # <<>> => early' = early \cup {tries} /\ Len(loop[tries]) = 1
      BY <1>3
    <3>3. loop[tries] # <<"reqHeader", "reqBody">>
      <4>. SUFFICES ASSUME loop[tries] = <<"reqHeader", "reqBody">> PROVE FALSE
        OBVIOUS
      <4>1. loop[tries] # <<>>
        OBVIOUS
      <4>. QED  BY <4>1, <3>1, <3>2
    <3>. QED  BY <3>1, <3>2, <3>3 DEF LoopType
  <2>5. LoopsLate'
    BY <2>1, <2>4, <1>0 DEF LoopsLate
  <2>. QED  BY <2>1, <2>3, <2>5 DEF NothingSent
<1>4. CASE RequestDump!ReadBody
  <2>. USE DEF RequestDump!ReadBody
  <2>1. UNCHANGED <<plan, ropts, tries, loop, early>> /\ rpc' = "read" /\ rpc = "answered"
    BY <1>4
  <2>2. "respBody" \in RequestDump!AllParts
    BY DEF RequestDump!AllParts
  <2>3. rbuf' \in Seq(RequestDump!Tries \X RequestDump!AllParts) /\ BufferOK'
    BY <1>4, <1>0, <2>1, <2>2, DumpedKeeps
  <2>4. LoopsLate'
    BY <2>1, <1>0 DEF LoopsLate
  <2>. QED  BY <2>1, <2>3, <2>4 DEF NothingSent
<1>5. CASE RequestDump!prepareRetry
  <2>. USE DEF RequestDump!prepareRetry
  <2>1. /\ rpc = "read" /\ rpc' = "send" /\ tries' = tries + 1 /\ tries' \in RequestDump!Tries
        /\ loop' = [loop EXCEPT ![tries + 1] = <<"reqHeader", "reqBody">>]
        /\ UNCHANGED <<plan, ropts, early>>
    BY <1>5, <1>0 DEF RequestDump!Tries, RequestDumpConstants
  <2>2. rbuf' = <<>>
    BY <1>5 DEF RequestDump!resetBuffer
  <2>3. LoopsLate'
    BY <2>1, <1>0 DEF LoopsLate
  <2>. QED  BY <2>1, <2>2, <2>3 DEF NothingSent, BufferOK, LoopType
<1>6. CASE RequestDump!Return
  <2>. USE DEF RequestDump!Return
  <2>1. /\ rpc = "read" /\ rpc' = "return"
        /\ UNCHANGED <<plan, tries, loop, early, rbuf>>
    BY <1>6
  <2>2. ropts' \in DumpOptionsType /\ ropts'.parts = ropts.parts
    BY <1>6 DEF RequestDump!closeDumpOutput, DumpOptionsType
  <2>. QED  BY <2>1, <2>2 DEF NothingSent, LoopsLate, BufferOK, PieceOK
<1>7. CASE \E a \in RequestDump!Tries : RequestDump!WriteLoop(a)
  BY <1>7, RequestLoop
<1>8. CASE UNCHANGED RequestDump!rdumpVars
  BY <1>8 DEF RequestDump!rdumpVars, NothingSent, LoopsLate, BufferOK, PieceOK
<1>. QED  BY <1>1, <1>2, <1>3, <1>4, <1>5, <1>6, <1>7, <1>8 DEF RequestDump!Next

LEMMA RequestDumpFinal == RequestDumpInv => RequestDump!DumpIsFinalAttempt
BY DEF RequestDumpInv, BufferOK, PieceOK, RequestDump!DumpIsFinalAttempt

-----------------------------------------------------------------------------
(* The dump of clients.  ow: the client that may dump to a file.           *)

\* The variables of Dump in the composition.
setup  == v1
heap   == v2
dumper == v3
client == v4
file   == v5
admin  == v6
prod   == v7
sink   == v8
USE DEF setup, heap, dumper, client, file, admin, prod, sink

Owners == [ClientDump!Files -> ClientDump!Clients]
OptType == [out : ClientDump!Outs, parts : SUBSET Kinds, async : BOOLEAN]
TaskType == [out : ClientDump!Outs, late : BOOLEAN, piece : DumpProducers \X Nat]
DumperType == [opt : Nat, queue : Seq(TaskType), hand : Seq(TaskType), stop : BOOLEAN,
               run : {"on", "drain", "done"}]
DumpClientType == [dump : Nat, opts : Nat, closer : ClientDump!Files \cup {"none"}]
DumpStateType ==
    [heap : Seq(OptType), dumper : Seq(DumperType), client : [ClientDump!Clients -> DumpClientType],
     file : [ClientDump!Files -> {"none", "open", "flushed", "cut"}]]

\* The options object the Dumper of c works with, 0 if it has none.
InUse(s, c) == IF s.client[c].dump = 0 THEN 0 ELSE s.dumper[s.client[c].dump].opt

\* Pointers point to something.
Pointers(s) ==
    /\ \A c \in ClientDump!Clients : /\ s.client[c].opts \in 0 .. Len(s.heap)
                                     /\ s.client[c].dump \in 0 .. Len(s.dumper)
                                     /\ s.client[c].dump # 0 => s.client[c].opts # 0
    /\ \A d \in 1 .. Len(s.dumper) : s.dumper[d].opt \in 1 .. Len(s.heap)

\* A client and its copy share neither Dumper nor options.
Apart(s) ==
    \A c, e \in ClientDump!Clients : c # e =>
       /\ s.client[c].dump # 0 => s.client[c].dump # s.client[e].dump
       /\ s.client[c].opts # 0 => s.client[c].opts # s.client[e].opts /\ s.client[c].opts # InUse(s, e)
       /\ InUse(s, c) # 0 => InUse(s, c) # InUse(s, e)

\* Who has a file open has a Dumper that works with the client's options, and
\* no other client's options name that file.
FilesOpen(s, ow) ==
    \A c \in ClientDump!Clients :
       /\ s.client[c].closer # "none" =>
             /\ InUse(s, c) # 0 /\ InUse(s, c) = s.client[c].opts
             /\ ow[s.client[c].closer] = c /\ s.file[s.client[c].closer] = "open"
       /\ \A h \in {s.client[c].opts, InUse(s, c)} \ {0} :
             s.heap[h].out \in ClientDump!Files => s.client[c].closer = s.heap[h].out

\* A Dumper that no client has any more has finished.
Finished(s) ==
    \A d \in 1 .. Len(s.dumper) :
       (\A c \in ClientDump!Clients : s.client[c].dump # d) => s.dumper[d].run = "done"

DumpStateOK(s, ow) ==
    /\ s \in DumpStateType /\ Pointers(s) /\ Apart(s) /\ FilesOpen(s, ow) /\ Finished(s)
    /\ InUse(s, "c1") # 0 => InUse(s, "c1") = s.client["c1"].opts

Tasks(x) == {x.queue[i] : i \in 1 .. Len(x.queue)} \cup {x.hand[i] : i \in 1 .. Len(x.hand)}

\* What a Dumper holds for a file was meant for the file of its client, or
\* came after the Dumper was stopped.
TasksOwned(s, ow) ==
    \A d \in 1 .. Len(s.dumper) : \A t \in Tasks(s.dumper[d]) :
       /\ s.dumper[d].run = "done" => t.late
       /\ t.out \in ClientDump!Files /\ ~t.late =>
             /\ s.file[t.out] # "flushed"
             /\ \A c \in ClientDump!Clients : s.client[c].dump = d => ow[t.out] = c
StopsSeen(s) == \A d \in 1 .. Len(s.dumper) : s.dumper[d].run = "done" => s.dumper[d].stop

ProdType ==
    [pc : {"new"}] \cup [pc : {"run"}, c : ClientDump!Clients, dump : Nat, kind : Kinds, k : Nat]
    \cup [pc : {"send", "write"}, c : ClientDump!Clients, dump : Nat, kind : Kinds, k : Nat, task : TaskType]

\* The same for what a request (x) is about to hand over.
HandsOver(s, ow, x) ==
    /\ x.pc # "new" => x.dump \in 1 .. Len(s.dumper)
    /\ x.pc \in {"send", "write"} /\ x.task.out \in ClientDump!Files =>
          /\ \A c \in ClientDump!Clients : s.client[c].dump = x.dump => ow[x.task.out] = c
          /\ ~s.dumper[x.dump].stop => s.file[x.task.out] # "flushed"
ProducersOwned(s, ow, pr) == \A p \in DumpProducers : HandsOver(s, ow, pr[p])

PiecesOK(s, ow, pr) == TasksOwned(s, ow) /\ StopsSeen(s) /\ ProducersOwned(s, ow, pr)

AdminType ==
    {ClientDump!Free} \cup [pc : {"stopping"}, c : ClientDump!Clients, dump : Nat, next : ClientDump!Files \cup {"none"}]
AdminOK(ow) ==
    /\ admin \in AdminType
    /\ admin # ClientDump!Free =>
          /\ client[admin.c].dump = admin.dump
          /\ admin.next # "none" => ow[admin.next] = admin.c

\* Before the client is cloned it has no file, and its copy is unused.
CloneToCome ==
    (\E j \in 1 .. Len(setup) : setup[j][1] = "clone") =>
       /\ client["c2"] = [dump |-> 0, opts |-> 0, closer |-> "none"] /\ client["c1"].closer = "none"
       /\ admin # ClientDump!Free => admin.c = "c1" /\ admin.next = "none"

DumpInvOf(ow) ==
    /\ setup \in Seq(DumpOpType) /\ SetupOK(setup, ow) /\ CloneToCome
    /\ DumpStateOK(ClientDump!Now, ow) /\ AdminOK(ow)
    /\ prod \in [DumpProducers -> ProdType] /\ PiecesOK(ClientDump!Now, ow, prod)

DumpInv == \E ow \in Owners : DumpInvOf(ow)

\* What an operation that stops no Dumper leaves alone: the Dumpers there are
\* keep their pieces, new ones are empty, and no file is closed behind them.
Kept(s, t) ==
    /\ Len(s.dumper) <= Len(t.dumper)
    /\ \A d \in 1 .. Len(s.dumper) : /\ t.dumper[d].queue = s.dumper[d].queue
                                     /\ t.dumper[d].hand = s.dumper[d].hand
                                     /\ t.dumper[d].stop = s.dumper[d].stop
                                     /\ t.dumper[d].run = s.dumper[d].run
    /\ \A d \in 1 .. Len(t.dumper) : d > Len(s.dumper) =>
          t.dumper[d].queue = <<>> /\ t.dumper[d].hand = <<>> /\ t.dumper[d].run = "on"
    /\ \A c \in ClientDump!Clients :
          t.client[c].dump = s.client[c].dump \/ (s.client[c].dump = 0 /\ t.client[c].dump > Len(s.dumper))
    /\ \A f \in ClientDump!Files : t.file[f] = "flushed" => s.file[f] = "flushed"

LEMMA KeptTrans ==
  ASSUME NEW s \in DumpStateType, NEW t \in DumpStateType, NEW u \in DumpStateType, Kept(s, t), Kept(t, u)
  PROVE  Kept(s, u)
<1>1. Len(s.dumper) \in Nat /\ Len(t.dumper) \in Nat /\ Len(u.dumper) \in Nat
  BY DEF DumpStateType
<1>2. \A c \in ClientDump!Clients : s.client[c].dump \in Nat /\ t.client[c].dump \in Nat /\ u.client[c].dump \in Nat
  BY DEF DumpStateType, DumpClientType
<1>3. Len(s.dumper) <= Len(u.dumper)
  BY <1>1 DEF Kept
<1>4. \A d \in 1 .. Len(s.dumper) : /\ u.dumper[d].queue = s.dumper[d].queue
                                    /\ u.dumper[d].hand = s.dumper[d].hand
                                    /\ u.dumper[d].stop = s.dumper[d].stop
                                    /\ u.dumper[d].run = s.dumper[d].run
  BY <1>1 DEF Kept
<1>5. ASSUME NEW d \in 1 .. Len(u.dumper), d > Len(s.dumper)
      PROVE  u.dumper[d].queue = <<>> /\ u.dumper[d].hand = <<>> /\ u.dumper[d].run = "on"
  <2>1. CASE d > Len(t.dumper)
    BY <2>1 DEF Kept
  <2>2. CASE d <= Len(t.dumper)
    <3>1. d \in 1 .. Len(t.dumper)
      BY <2>2, <1>1
    <3>2. t.dumper[d].queue = <<>> /\ t.dumper[d].hand = <<>> /\ t.dumper[d].run = "on"
      BY <3>1, <1>5 DEF Kept
    <3>3. /\ u.dumper[d].queue = t.dumper[d].queue /\ u.dumper[d].hand = t.dumper[d].hand
          /\ u.dumper[d].run = t.dumper[d].run
      BY <3>1 DEF Kept
    <3>. QED  BY <3>2, <3>3
  <2>. QED  BY <2>1, <2>2, <1>1
<1>6. \A c \in ClientDump!Clients :
         u.client[c].dump = s.client[c].dump \/ (s.client[c].dump = 0 /\ u.client[c].dump > Len(s.dumper))
  BY <1>1, <1>2 DEF Kept
<1>7. \A f \in ClientDump!Files : u.file[f] = "flushed" => s.file[f] = "flushed"
  BY DEF Kept
<1>. QED  BY <1>3, <1>4, <1>5, <1>6, <1>7 DEF Kept

LEMMA KeptPieces ==
  ASSUME NEW ow \in Owners, NEW s, NEW t, DumpStateOK(s, ow), t \in DumpStateType, Kept(s, t),
         NEW pr \in [DumpProducers -> ProdType], PiecesOK(s, ow, pr)
  PROVE  PiecesOK(t, ow, pr)
<1>1. Len(s.dumper) \in Nat /\ Len(t.dumper) \in Nat /\ Len(s.dumper) <= Len(t.dumper)
  BY DEF DumpStateOK, DumpStateType, Kept
<1>2. \A d \in 1 .. Len(s.dumper), c \in ClientDump!Clients : t.client[c].dump = d => s.client[c].dump = d
  BY <1>1 DEF Kept
<1>3. ASSUME NEW d \in 1 .. Len(t.dumper), d > Len(s.dumper) PROVE Tasks(t.dumper[d]) = {} /\ t.dumper[d].run # "done"
  BY <1>3 DEF Kept, Tasks
<1>4. ASSUME NEW d \in 1 .. Len(s.dumper)
      PROVE  Tasks(t.dumper[d]) = Tasks(s.dumper[d]) /\ t.dumper[d].run = s.dumper[d].run /\ t.dumper[d].stop = s.dumper[d].stop
  BY SMTT(30) DEF Kept, Tasks
<1>5. StopsSeen(t)
  BY <1>1, <1>3, <1>4 DEF PiecesOK, StopsSeen
<1>6. TasksOwned(t, ow)
  <2>. SUFFICES ASSUME NEW d \in 1 .. Len(t.dumper), NEW x \in Tasks(t.dumper[d])
                PROVE  /\ t.dumper[d].run = "done" => x.late
                       /\ x.out \in ClientDump!Files /\ ~x.late =>
                             /\ t.file[x.out] # "flushed"
                             /\ \A c \in ClientDump!Clients : t.client[c].dump = d => ow[x.out] = c
    BY DEF TasksOwned
  <2>0. ~(d > Len(s.dumper))
    BY <1>3
  <2>1. d \in 1 .. Len(s.dumper)
    BY <2>0, <1>1
  <2>2. x \in Tasks(s.dumper[d]) /\ (t.dumper[d].run = "done" => s.dumper[d].run = "done")
    BY <2>1, <1>4
  <2>3. x.out \in ClientDump!Files /\ t.file[x.out] = "flushed" => s.file[x.out] = "flushed"
    BY DEF Kept
  <2>. QED  BY <2>1, <2>2, <2>3, <1>2 DEF PiecesOK, TasksOwned
<1>7. ProducersOwned(t, ow, pr)
  <2>. SUFFICES ASSUME NEW p \in DumpProducers PROVE HandsOver(t, ow, pr[p])
    BY DEF ProducersOwned
  <2>1. HandsOver(s, ow, pr[p])
    BY DEF PiecesOK, ProducersOwned
  <2>2. CASE pr[p].pc = "new"
    BY <2>2 DEF HandsOver
  <2>3. CASE pr[p].pc # "new"
    <3>1. pr[p].dump \in 1 .. Len(s.dumper) /\ pr[p].dump \in 1 .. Len(t.dumper)
      BY <2>1, <2>3, <1>1 DEF HandsOver
    <3>2. t.dumper[pr[p].dump].stop = s.dumper[pr[p].dump].stop
      BY <3>1, <1>4
    <3>3. pr[p].pc \in {"send", "write"} /\ pr[p].task.out \in ClientDump!Files /\ t.file[pr[p].task.out] = "flushed"
             => s.file[pr[p].task.out] = "flushed"
      BY DEF Kept
    <3>. QED  BY <2>1, <3>1, <3>2, <3>3, <1>2 DEF HandsOver
  <2>. QED  BY <2>2, <2>3
<1>. QED  BY <1>5, <1>6, <1>7 DEF PiecesOK

\* Only client c is changed, and it is given no file.
Mine(s, t, c) ==
    /\ \A e \in ClientDump!Clients : e # c => t.client[e] = s.client[e]
    /\ t.client[c].closer = s.client[c].closer \/ t.client[c].closer = "none"

\* The step from s to t is the business of client c alone.
OwnBusiness(s, t, c) ==
    /\ Len(s.heap) <= Len(t.heap) /\ Len(s.dumper) <= Len(t.dumper)
    /\ \A e \in ClientDump!Clients : e # c => t.client[e] = s.client[e]
    /\ \A h \in 1 .. Len(s.heap) : h # s.client[c].opts /\ h # InUse(s, c) => t.heap[h] = s.heap[h]
    /\ \A d \in 1 .. Len(s.dumper) : d # s.client[c].dump => t.dumper[d].opt = s.dumper[d].opt
    /\ \A d \in 1 .. Len(s.dumper) : t.dumper[d].run = s.dumper[d].run
    /\ \A d \in 1 .. Len(t.dumper) : d > Len(s.dumper) => d = t.client[c].dump
    /\ \/ t.client[c].dump = s.client[c].dump
       \/ /\ t.client[c].dump = 0 \/ t.client[c].dump > Len(s.dumper)
          /\ s.client[c].dump # 0 => s.dumper[s.client[c].dump].run = "done"
    /\ \A h \in {t.client[c].opts, InUse(t, c)} \ {0} :
          h = s.client[c].opts \/ h = InUse(s, c) \/ h > Len(s.heap)

\* What FilesOpen says of one client.
FilesOf(s, ow, c) ==
    /\ s.client[c].closer # "none" =>
          /\ InUse(s, c) # 0 /\ InUse(s, c) = s.client[c].opts
          /\ ow[s.client[c].closer] = c /\ s.file[s.client[c].closer] = "open"
    /\ \A h \in {s.client[c].opts, InUse(s, c)} \ {0} :
          s.heap[h].out \in ClientDump!Files => s.client[c].closer = s.heap[h].out

\* The options object a Dumper works with is there.
LEMMA InUseKnown ==
  ASSUME NEW s \in DumpStateType, Pointers(s), NEW e \in ClientDump!Clients
  PROVE  InUse(s, e) \in 0 .. Len(s.heap)
<1>1. Len(s.heap) \in Nat /\ Len(s.dumper) \in Nat
  BY DEF DumpStateType
<1>2. s.client[e].dump \in 0 .. Len(s.dumper)
  BY DEF Pointers
<1>3. s.client[e].dump # 0 => s.client[e].dump \in 1 .. Len(s.dumper)
  BY <1>1, <1>2
<1>4. s.client[e].dump # 0 => s.dumper[s.client[e].dump].opt \in 1 .. Len(s.heap)
  BY <1>3 DEF Pointers
<1>. QED  BY <1>1, <1>4 DEF InUse

LEMMA FilesOfOne ==
  ASSUME NEW s, NEW ow, FilesOpen(s, ow), NEW c \in ClientDump!Clients
  PROVE  FilesOf(s, ow, c)
BY DEF FilesOpen, FilesOf

LEMMA OwnBusinessKeeps ==
  ASSUME NEW ow \in Owners, NEW s, NEW t, NEW c \in ClientDump!Clients, DumpStateOK(s, ow),
         t \in DumpStateType, Pointers(t), OwnBusiness(s, t, c), FilesOf(t, ow, c),
         \A f \in ClientDump!Files : ow[f] # c => t.file[f] = s.file[f],
         c = "c1" /\ InUse(t, c) # 0 => InUse(t, c) = t.client[c].opts
  PROVE  DumpStateOK(t, ow)
<1>1. Len(s.heap) \in Nat /\ Len(s.dumper) \in Nat /\ Len(t.heap) \in Nat /\ Len(t.dumper) \in Nat
  BY DEF DumpStateOK, DumpStateType
<1>2. ASSUME NEW e \in ClientDump!Clients
      PROVE  /\ s.client[e].opts \in 0 .. Len(s.heap) /\ s.client[e].dump \in 0 .. Len(s.dumper)
             /\ t.client[e].opts \in 0 .. Len(t.heap) /\ t.client[e].dump \in 0 .. Len(t.dumper)
             /\ InUse(s, e) \in 0 .. Len(s.heap) /\ InUse(t, e) \in 0 .. Len(t.heap)
  <2>1. Pointers(s)
    BY DEF DumpStateOK
  <2>2. /\ s.client[e].opts \in 0 .. Len(s.heap) /\ s.client[e].dump \in 0 .. Len(s.dumper)
        /\ t.client[e].opts \in 0 .. Len(t.heap) /\ t.client[e].dump \in 0 .. Len(t.dumper)
    BY <2>1 DEF Pointers
  <2>3. InUse(s, e) \in 0 .. Len(s.heap)
    BY <2>1, InUseKnown DEF DumpStateOK
  <2>4. InUse(t, e) \in 0 .. Len(t.heap)
    BY InUseKnown
  <2>. QED  BY <2>2, <2>3, <2>4
<1>3. ASSUME NEW e \in ClientDump!Clients, e # c
      PROVE  /\ t.client[e] = s.client[e] /\ InUse(t, e) = InUse(s, e)
             /\ \A h \in {s.client[e].opts, InUse(s, e)} \ {0} : t.heap[h] = s.heap[h]
  <2>1. t.client[e] = s.client[e]
    BY <1>3 DEF OwnBusiness
  <2>2. s.client[e].dump # 0 => s.client[e].dump # s.client[c].dump
    BY <1>3 DEF DumpStateOK, Apart
  <2>3. s.client[e].dump # 0 => t.dumper[s.client[e].dump].opt = s.dumper[s.client[e].dump].opt
    <3>1. s.client[e].dump # 0 => s.client[e].dump \in 1 .. Len(s.dumper)
      BY <1>1, <1>2
    <3>2. \A d \in 1 .. Len(s.dumper) : d # s.client[c].dump => t.dumper[d].opt = s.dumper[d].opt
      BY DEF OwnBusiness
    <3>. QED  BY <2>2, <3>1, <3>2
  <2>4. InUse(t, e) = InUse(s, e)
    BY <2>1, <2>3 DEF InUse
  <2>5. s.client[e].opts # 0 => s.client[e].opts # s.client[c].opts /\ s.client[e].opts # InUse(s, c)
    BY <1>3 DEF DumpStateOK, Apart
  <2>6. InUse(s, e) # 0 => InUse(s, e) # InUse(s, c) /\ InUse(s, e) # s.client[c].opts
    BY <1>3 DEF DumpStateOK, Apart
  <2>7. \A h \in {s.client[e].opts, InUse(s, e)} \ {0} : h \in 1 .. Len(s.heap)
    BY <1>1, <1>2
  <2>. QED  BY <2>1, <2>4, <2>5, <2>6, <2>7 DEF OwnBusiness
<1>4. ASSUME NEW e \in ClientDump!Clients, e # c
      PROVE  /\ t.client[c].dump # 0 => t.client[c].dump # t.client[e].dump
             /\ t.client[e].dump # 0 => t.client[c].dump # t.client[e].dump
             /\ \A h \in {t.client[c].opts, InUse(t, c)} \ {0} : h # t.client[e].opts /\ h # InUse(t, e)
  <2>1. /\ s.client[c].dump # 0 => s.client[c].dump # s.client[e].dump
        /\ s.client[e].dump # 0 => s.client[c].dump # s.client[e].dump
        /\ \A h \in {s.client[c].opts, InUse(s, c)} \ {0} : h # s.client[e].opts /\ h # InUse(s, e)
    BY <1>4 DEF DumpStateOK, Apart
  <2>2. t.client[c].dump = s.client[c].dump \/ t.client[c].dump = 0 \/ t.client[c].dump > Len(s.dumper)
    BY DEF OwnBusiness
  <2>3. /\ t.client[c].dump # 0 => t.client[c].dump # t.client[e].dump
        /\ t.client[e].dump # 0 => t.client[c].dump # t.client[e].dump
    BY <2>1, <2>2, <1>4, <1>3, <1>1, <1>2, SMTT(30)
  <2>4. ASSUME NEW h \in {t.client[c].opts, InUse(t, c)} \ {0} PROVE h # t.client[e].opts /\ h # InUse(t, e)
    <3>1. h = s.client[c].opts \/ h = InUse(s, c) \/ h > Len(s.heap)
      BY DEF OwnBusiness
    <3>2. /\ t.client[e].opts = s.client[e].opts /\ InUse(t, e) = InUse(s, e)
          /\ s.client[e].opts \in 0 .. Len(s.heap) /\ InUse(s, e) \in 0 .. Len(s.heap)
      BY <1>4, <1>3, <1>2
    <3>3. CASE h > Len(s.heap)
      BY <3>2, <3>3, <1>1
    <3>4. CASE h = s.client[c].opts \/ h = InUse(s, c)
      BY <3>2, <3>4, <2>1
    <3>. QED  BY <3>1, <3>3, <3>4
  <2>. QED  BY <2>3, <2>4
<1>5. Apart(t)
  <2>. SUFFICES ASSUME NEW a \in ClientDump!Clients, NEW b \in ClientDump!Clients, a # b
                PROVE  /\ t.client[a].dump # 0 => t.client[a].dump # t.client[b].dump
                       /\ \A h \in {t.client[a].opts, InUse(t, a)} \ {0} : h # t.client[b].opts /\ h # InUse(t, b)
    BY DEF Apart
  <2>1. CASE a = c
    BY <2>1, <1>4
  <2>2. CASE b = c
    BY <2>2, <1>4
  <2>3. CASE a # c /\ b # c
    BY <2>3 DEF ClientDump!Clients
  <2>. QED  BY <2>1, <2>2, <2>3
<1>6. FilesOpen(t, ow)
  <2>. SUFFICES ASSUME NEW e \in ClientDump!Clients PROVE FilesOf(t, ow, e)
    BY DEF FilesOpen, FilesOf
  <2>1. CASE e # c
    <3>1. FilesOf(s, ow, e)
      BY DEF DumpStateOK, FilesOpen, FilesOf
    <3>2. s.client[e].closer # "none" => t.file[s.client[e].closer] = s.file[s.client[e].closer]
      <4>1. s.client[e].closer # "none" => s.client[e].closer \in ClientDump!Files
        BY DEF DumpStateOK, DumpStateType, DumpClientType
      <4>. QED  BY <4>1, <3>1, <2>1 DEF FilesOf
    <3>. QED  BY <2>1, <3>1, <3>2, <1>3 DEF FilesOf
  <2>. QED  BY <2>1
<1>7. Finished(t)
  <2>. SUFFICES ASSUME NEW d \in 1 .. Len(t.dumper), \A e \in ClientDump!Clients : t.client[e].dump # d
                PROVE  t.dumper[d].run = "done"
    BY DEF Finished
  <2>1. d <= Len(s.dumper)
    BY <1>1 DEF OwnBusiness
  <2>2. d \in 1 .. Len(s.dumper) /\ t.dumper[d].run = s.dumper[d].run
    BY <2>1, <1>1 DEF OwnBusiness
  <2>3. CASE s.client[c].dump = d
    BY <2>2, <2>3 DEF OwnBusiness
  <2>4. CASE s.client[c].dump # d
    BY <2>2, <2>4, <1>3 DEF DumpStateOK, Finished
  <2>. QED  BY <2>3, <2>4
<1>8. InUse(t, "c1") # 0 => InUse(t, "c1") = t.client["c1"].opts
  <2>1. "c1" \in ClientDump!Clients
    BY DEF ClientDump!Clients
  <2>. QED  BY <2>1, <1>3 DEF DumpStateOK
<1>. QED  BY <1>5, <1>6, <1>7, <1>8 DEF DumpStateOK

\* A client without options gets the default ones.
LEMMA OptionsGiven ==
  ASSUME NEW ow \in Owners, NEW s, DumpStateOK(s, ow), NEW c \in ClientDump!Clients,
         NEW t, t = ClientDump!getDumpOptions(s, c)
  PROVE  DumpStateOK(t, ow) /\ Kept(s, t) /\ t.client[c].opts # 0 /\ t.client[c].dump = s.client[c].dump
         /\ t.client[c].closer = s.client[c].closer /\ t.file = s.file /\ Mine(s, t, c)
<1>. USE DEF ClientDump!getDumpOptions
<1>0. s \in DumpStateType /\ Len(s.heap) \in Nat /\ Len(s.dumper) \in Nat
  BY DEF DumpStateOK, DumpStateType
<1>1. CASE s.client[c].opts # 0
  BY <1>1, <1>0 DEF Kept, Mine
<1>2. CASE s.client[c].opts = 0
  <2>1. s.client[c].dump = 0 /\ s.client[c].closer = "none"
    BY <1>2 DEF DumpStateOK, Pointers, FilesOpen, InUse
  <2>2. ClientDump!newDefaultDumpOptions \in OptType
    BY DEF ClientDump!newDefaultDumpOptions, OptType, ClientDump!Outs
  <2>3. /\ t.heap = Append(s.heap, ClientDump!newDefaultDumpOptions) /\ t.dumper = s.dumper /\ t.file = s.file
        /\ t.client = [s.client EXCEPT ![c].opts = Len(s.heap) + 1]
    BY <1>2, <1>0 DEF DumpStateType
  <2>4. s.client[c] \in DumpClientType /\ s.client \in [ClientDump!Clients -> DumpClientType]
    BY <1>0 DEF DumpStateType
  <2>5. /\ t.client[c] = [dump |-> 0, opts |-> Len(s.heap) + 1, closer |-> "none"]
        /\ \A e \in ClientDump!Clients : e # c => t.client[e] = s.client[e]
        /\ t.client \in [ClientDump!Clients -> DumpClientType]
    BY <2>1, <2>3, <2>4, <1>0 DEF DumpClientType
  <2>6. /\ Len(t.heap) = Len(s.heap) + 1 /\ t.heap \in Seq(OptType)
        /\ \A h \in 1 .. Len(s.heap) : t.heap[h] = s.heap[h]
        /\ t.heap[Len(s.heap) + 1].out = "std"
    BY <2>2, <2>3, <1>0 DEF DumpStateType, ClientDump!newDefaultDumpOptions
  <2>7. t \in DumpStateType
    BY <2>3, <2>5, <2>6, <1>0, <1>2 DEF DumpStateType
  <2>8. Pointers(t)
    BY <2>3, <2>5, <2>6, <1>0, SMTT(30) DEF DumpStateOK, Pointers
  <2>9. InUse(t, c) = 0 /\ InUse(s, c) = 0
    BY <2>1, <2>5 DEF InUse
  <2>10. OwnBusiness(s, t, c)
    BY <2>1, <2>3, <2>5, <2>6, <2>9, <1>0 DEF OwnBusiness
  <2>11. FilesOf(t, ow, c)
    BY <2>5, <2>6, <2>9 DEF FilesOf, ClientDump!Files
  <2>12. DumpStateOK(t, ow)
    BY <2>3, <2>7, <2>8, <2>9, <2>10, <2>11, OwnBusinessKeeps
  <2>13. Kept(s, t)
    BY <2>1, <2>3, <2>5, <1>0 DEF Kept
  <2>. QED  BY <2>1, <2>3, <2>5, <2>12, <2>13, <1>0 DEF Mine
<1>. QED  BY <1>1, <1>2

\* An option of the client is set.
LEMMA OptionSet ==
  ASSUME NEW ow \in Owners, NEW s, DumpStateOK(s, ow), NEW c \in ClientDump!Clients,
         s.client[c].opts # 0, NEW v \in OptType,
         v.out \in ClientDump!Files => v.out = s.client[c].closer,
         NEW t, t = [s EXCEPT !.heap = [s.heap EXCEPT ![s.client[c].opts] = v]]
  PROVE  DumpStateOK(t, ow) /\ Kept(s, t) /\ t.client = s.client /\ t.dumper = s.dumper
<1>0. s \in DumpStateType /\ Len(s.heap) \in Nat /\ Len(s.dumper) \in Nat
  BY DEF DumpStateOK, DumpStateType
<1>1. s.client[c].opts \in 1 .. Len(s.heap)
  BY <1>0 DEF DumpStateOK, Pointers
<1>2. /\ t.heap = [s.heap EXCEPT ![s.client[c].opts] = v] /\ t.dumper = s.dumper /\ t.file = s.file
      /\ t.client = s.client
  BY <1>0 DEF DumpStateType
<1>3. /\ Len(t.heap) = Len(s.heap) /\ t.heap \in Seq(OptType) /\ t.heap[s.client[c].opts] = v
      /\ \A h \in 1 .. Len(s.heap) : h # s.client[c].opts => t.heap[h] = s.heap[h]
  BY <1>0, <1>1, <1>2 DEF DumpStateType
<1>4. t \in DumpStateType
  BY <1>0, <1>2, <1>3 DEF DumpStateType
<1>5. Pointers(t)
  BY <1>2, <1>3 DEF DumpStateOK, Pointers
<1>6. \A e \in ClientDump!Clients : InUse(t, e) = InUse(s, e)
  BY <1>2 DEF InUse
<1>7. OwnBusiness(s, t, c)
  BY <1>0, <1>2, <1>3, <1>6 DEF OwnBusiness
<1>8. FilesOf(t, ow, c)
  <2>1. FilesOf(s, ow, c) /\ InUse(s, c) \in 0 .. Len(s.heap)
    BY FilesOfOne, InUseKnown DEF DumpStateOK
  <2>2. ASSUME NEW h \in {s.client[c].opts, InUse(s, c)} \ {0}, t.heap[h].out \in ClientDump!Files
        PROVE  s.client[c].closer = t.heap[h].out
    <3>1. CASE h = s.client[c].opts
      BY <3>1, <2>2, <1>3
    <3>2. CASE h # s.client[c].opts
      BY <3>2, <2>1, <2>2, <1>3, <1>0 DEF FilesOf
    <3>. QED  BY <3>1, <3>2
  <2>. QED  BY <2>1, <2>2, <1>2, <1>6 DEF FilesOf
<1>9. DumpStateOK(t, ow)
  <2>1. c = "c1" /\ InUse(t, c) # 0 => InUse(t, c) = t.client[c].opts
    BY <1>2, <1>6 DEF DumpStateOK
  <2>. QED  BY <2>1, <1>2, <1>4, <1>5, <1>7, <1>8, OwnBusinessKeeps
<1>10. Kept(s, t)
  BY <1>2, <1>0 DEF Kept
<1>. QED  BY <1>2, <1>9, <1>10

\* A Dumper is started for the client c, with options v: its file is f then.
Started(s, t, c, v, f) ==
    /\ Len(t.heap) = Len(s.heap) /\ t.heap[s.client[c].opts] = v
    /\ \A h \in 1 .. Len(s.heap) : h # s.client[c].opts => t.heap[h] = s.heap[h]
    /\ Len(t.dumper) = Len(s.dumper) + 1 /\ \A d \in 1 .. Len(s.dumper) : t.dumper[d] = s.dumper[d]
    /\ t.dumper[Len(s.dumper) + 1] = [opt |-> s.client[c].opts, queue |-> <<>>, hand |-> <<>>,
                                      stop |-> FALSE, run |-> "on"]
    /\ t.client[c] = [dump |-> Len(s.dumper) + 1, opts |-> s.client[c].opts, closer |-> f]
    /\ \A e \in ClientDump!Clients : e # c => t.client[e] = s.client[e]
    /\ \A g \in ClientDump!Files : t.file[g] = IF g = f THEN "open" ELSE s.file[g]

LEMMA DumperStarted ==
  ASSUME NEW ow \in Owners, NEW s, DumpStateOK(s, ow), NEW c \in ClientDump!Clients,
         s.client[c].opts # 0, s.client[c].dump = 0, NEW v \in OptType,
         NEW f \in ClientDump!Files \cup {"none"}, f # "none" => ow[f] = c,
         v.out \in ClientDump!Files => v.out = f,
         NEW t \in DumpStateType, Started(s, t, c, v, f)
  PROVE  DumpStateOK(t, ow) /\ Kept(s, t)
<1>0. s \in DumpStateType /\ Len(s.heap) \in Nat /\ Len(s.dumper) \in Nat
  BY DEF DumpStateOK, DumpStateType
<1>1. s.client[c].opts \in 1 .. Len(s.heap)
  BY <1>0 DEF DumpStateOK, Pointers
<1>2. /\ Len(t.heap) = Len(s.heap) /\ t.heap[s.client[c].opts] = v
      /\ \A h \in 1 .. Len(s.heap) : h # s.client[c].opts => t.heap[h] = s.heap[h]
  BY DEF Started
<1>3. /\ Len(t.dumper) = Len(s.dumper) + 1 /\ \A d \in 1 .. Len(s.dumper) : t.dumper[d] = s.dumper[d]
      /\ t.dumper[Len(s.dumper) + 1] = [opt |-> s.client[c].opts, queue |-> <<>>, hand |-> <<>>,
                                        stop |-> FALSE, run |-> "on"]
  BY DEF Started
<1>4. /\ t.client[c] = [dump |-> Len(s.dumper) + 1, opts |-> s.client[c].opts, closer |-> f]
      /\ \A e \in ClientDump!Clients : e # c => t.client[e] = s.client[e]
  BY DEF Started
<1>5. InUse(t, c) = s.client[c].opts /\ InUse(s, c) = 0
  BY <1>0, <1>3, <1>4 DEF InUse
<1>6. Pointers(t)
  <2>1. Pointers(s)
    BY DEF DumpStateOK
  <2>2. ASSUME NEW e \in ClientDump!Clients
        PROVE  /\ t.client[e].opts \in 0 .. Len(t.heap) /\ t.client[e].dump \in 0 .. Len(t.dumper)
               /\ t.client[e].dump # 0 => t.client[e].opts # 0
    <3>1. CASE e = c
      BY <3>1, <1>0, <1>1, <1>2, <1>3, <1>4
    <3>2. CASE e # c
      <4>1. t.client[e] = s.client[e]
        BY <3>2, <1>4
      <4>2. /\ s.client[e].opts \in 0 .. Len(s.heap) /\ s.client[e].dump \in 0 .. Len(s.dumper)
            /\ s.client[e].dump # 0 => s.client[e].opts # 0
        BY <2>1 DEF Pointers
      <4>. QED  BY <4>1, <4>2, <1>0, <1>2, <1>3
    <3>. QED  BY <3>1, <3>2
  <2>3. ASSUME NEW d \in 1 .. Len(t.dumper) PROVE t.dumper[d].opt \in 1 .. Len(t.heap)
    <3>1. CASE d = Len(s.dumper) + 1
      BY <3>1, <1>1, <1>2, <1>3
    <3>2. CASE d # Len(s.dumper) + 1
      <4>1. d \in 1 .. Len(s.dumper)
        BY <3>2, <1>0, <1>3
      <4>. QED  BY <4>1, <2>1, <1>2, <1>3 DEF Pointers
    <3>. QED  BY <3>1, <3>2
  <2>. QED  BY <2>2, <2>3 DEF Pointers
<1>7. OwnBusiness(s, t, c)
  <2>1. Len(s.heap) <= Len(t.heap) /\ Len(s.dumper) <= Len(t.dumper) /\ t.client[c].dump > Len(s.dumper)
    BY <1>0, <1>2, <1>3, <1>4
  <2>2. \A d \in 1 .. Len(t.dumper) : d > Len(s.dumper) => d = t.client[c].dump
    BY <1>0, <1>3, <1>4
  <2>3. \A d \in 1 .. Len(s.dumper) : t.dumper[d].opt = s.dumper[d].opt /\ t.dumper[d].run = s.dumper[d].run
    BY <1>3
  <2>4. \A h \in {t.client[c].opts, InUse(t, c)} \ {0} : h = s.client[c].opts
    BY <1>4, <1>5
  <2>. QED  BY <1>2, <1>4, <2>1, <2>2, <2>3, <2>4 DEF OwnBusiness
<1>8. FilesOf(t, ow, c)
  <2>1. InUse(t, c) # 0 /\ InUse(t, c) = t.client[c].opts /\ t.client[c].opts = s.client[c].opts /\ t.client[c].closer = f
    BY <1>4, <1>5
  <2>2. f # "none" => ow[f] = c /\ t.file[f] = "open"
    BY DEF Started
  <2>3. t.heap[s.client[c].opts].out \in ClientDump!Files => f = t.heap[s.client[c].opts].out
    BY <1>2
  <2>. QED  BY <2>1, <2>2, <2>3 DEF FilesOf
<1>9. \A g \in ClientDump!Files : ow[g] # c => t.file[g] = s.file[g]
  BY DEF ClientDump!Files, Started
<1>10. DumpStateOK(t, ow)
  BY <1>4, <1>5, <1>6, <1>7, <1>8, <1>9, OwnBusinessKeeps DEF DumpStateType
<1>11. Kept(s, t)
  <2>1. \A e \in ClientDump!Clients :
           t.client[e].dump = s.client[e].dump \/ (s.client[e].dump = 0 /\ t.client[e].dump > Len(s.dumper))
    BY <1>0, <1>4
  <2>2. \A d \in 1 .. Len(t.dumper) : d > Len(s.dumper) =>
           t.dumper[d].queue = <<>> /\ t.dumper[d].hand = <<>> /\ t.dumper[d].run = "on"
    BY <1>0, <1>3
  <2>3. \A g \in ClientDump!Files : t.file[g] = "flushed" => s.file[g] = "flushed"
    BY DEF Started
  <2>4. Len(s.dumper) <= Len(t.dumper)
    BY <1>0, <1>3
  <2>. QED  BY <1>3, <2>1, <2>2, <2>3, <2>4 DEF Kept
<1>. QED  BY <1>10, <1>11

LEMMA EnableDumpAllKeeps ==
  ASSUME NEW ow \in Owners, NEW s, DumpStateOK(s, ow), NEW c \in ClientDump!Clients,
         NEW t, t = ClientDump!EnableDumpAll(s, c)
  PROVE  DumpStateOK(t, ow) /\ Kept(s, t) /\ Mine(s, t, c)
<1>1. CASE s.client[c].dump # 0
  BY <1>1 DEF ClientDump!EnableDumpAll, Kept, Mine, DumpStateOK, DumpStateType
<1>2. CASE s.client[c].dump = 0
  <2>. DEFINE u == ClientDump!getDumpOptions(s, c)
  <2>1. /\ DumpStateOK(u, ow) /\ Kept(s, u) /\ u.client[c].opts # 0 /\ u.client[c].dump = 0
        /\ u.client[c].closer = s.client[c].closer /\ Mine(s, u, c)
    BY <1>2, OptionsGiven
  <2>2. t = ClientDump!EnableDump(u, c)
    BY <1>2 DEF ClientDump!EnableDumpAll
  <2>. HIDE DEF u
  <2>3. u \in DumpStateType /\ s \in DumpStateType /\ Len(u.heap) \in Nat /\ Len(u.dumper) \in Nat
    BY <2>1 DEF DumpStateOK, DumpStateType
  <2>4. u.client[c].closer = "none"
    BY <2>1 DEF DumpStateOK, FilesOpen, InUse
  <2>5. u.client[c].opts \in 1 .. Len(u.heap) /\ u.client[c] \in DumpClientType
    BY <2>1, <2>3 DEF DumpStateOK, Pointers, DumpStateType
  <2>. DEFINE v == [u.heap[u.client[c].opts] EXCEPT !.out = IF @ = "nil" THEN "std" ELSE @]
  <2>6. u.heap[u.client[c].opts] \in OptType
    BY <2>3, <2>5, SMTT(30) DEF DumpStateType
  <2>7. v \in OptType
    BY <2>6 DEF OptType, ClientDump!Outs
  <2>8. v.out \in ClientDump!Files => v.out = "none"
    <3>1. u.heap[u.client[c].opts].out \notin ClientDump!Files
      BY <2>1, <2>4 DEF DumpStateOK, FilesOpen, ClientDump!Files
    <3>. QED  BY <3>1, <2>6 DEF OptType, ClientDump!Files
  <2>9. /\ t.heap = [u.heap EXCEPT ![u.client[c].opts] = v]
        /\ t.dumper = Append(u.dumper, [opt |-> u.client[c].opts, queue |-> <<>>, hand |-> <<>>,
                                        stop |-> FALSE, run |-> "on"])
        /\ t.client = [u.client EXCEPT ![c].dump = Len(u.dumper) + 1]
        /\ t.file = u.file
        /\ t = [heap |-> t.heap, dumper |-> t.dumper, client |-> t.client, file |-> t.file]
    BY <2>2, <2>3, <2>5 DEF ClientDump!EnableDump, DumpStateType
  <2>10. t.client = [u.client EXCEPT ![c] = [dump |-> Len(u.dumper) + 1, opts |-> u.client[c].opts, closer |-> "none"]]
    <3>1. [u.client[c] EXCEPT !.dump = Len(u.dumper) + 1]
             = [dump |-> Len(u.dumper) + 1, opts |-> u.client[c].opts, closer |-> "none"]
      BY <2>4, <2>5 DEF DumpClientType
    <3>. QED  BY <2>9, <3>1
  <2>. HIDE DEF v
  <2>11. t \in DumpStateType
    <3>1. t.heap \in Seq(OptType)
      BY <2>3, <2>5, <2>7, <2>9 DEF DumpStateType
    <3>2. [opt |-> u.client[c].opts, queue |-> <<>>, hand |-> <<>>, stop |-> FALSE, run |-> "on"] \in DumperType
      BY <2>3, <2>5 DEF DumperType
    <3>3. t.dumper \in Seq(DumperType)
      BY <2>3, <2>9, <3>2 DEF DumpStateType
    <3>4. t.client \in [ClientDump!Clients -> DumpClientType]
      BY <2>3, <2>5, <2>10 DEF DumpStateType, DumpClientType
    <3>. QED  BY <3>1, <3>3, <3>4, <2>3, <2>9 DEF DumpStateType
  <2>12. \A g \in ClientDump!Files : t.file[g] = IF g = "none" THEN "open" ELSE u.file[g]
    BY <2>9 DEF ClientDump!Files
  <2>13. DumpStateOK(t, ow) /\ Kept(u, t)
    <3>. DEFINE f == "none"
    <3>1. f \in ClientDump!Files \cup {"none"} /\ (f # "none" => ow[f] = c) /\ (v.out \in ClientDump!Files => v.out = f)
      BY <2>8
    <3>2. /\ t.client[c] = [dump |-> Len(u.dumper) + 1, opts |-> u.client[c].opts, closer |-> f]
          /\ \A e \in ClientDump!Clients : e # c => t.client[e] = u.client[e]
          /\ \A g \in ClientDump!Files : t.file[g] = IF g = f THEN "open" ELSE u.file[g]
      BY <2>3, <2>10, <2>12 DEF DumpStateType
    <3>. HIDE DEF f
    <3>3. /\ Len(t.heap) = Len(u.heap) /\ t.heap[u.client[c].opts] = v
          /\ \A h \in 1 .. Len(u.heap) : h # u.client[c].opts => t.heap[h] = u.heap[h]
      BY <2>3, <2>5, <2>7, <2>9 DEF DumpStateType
    <3>4. /\ Len(t.dumper) = Len(u.dumper) + 1 /\ \A d \in 1 .. Len(u.dumper) : t.dumper[d] = u.dumper[d]
          /\ t.dumper[Len(u.dumper) + 1] = [opt |-> u.client[c].opts, queue |-> <<>>, hand |-> <<>>,
                                            stop |-> FALSE, run |-> "on"]
      BY <2>3, <2>9 DEF DumpStateType
    <3>5. Started(u, t, c, v, f)
      BY <3>2, <3>3, <3>4 DEF Started
    <3>. QED  BY <2>1, <2>7, <2>11, <3>1, <3>5, DumperStarted
  <2>14. Mine(s, t, c)
    BY <2>1, <2>3, <2>10 DEF Mine, DumpStateType
  <2>. QED  BY <2>1, <2>3, <2>11, <2>13, <2>14, KeptTrans
<1>. QED  BY <1>1, <1>2

\* The client's file is closed while its Dumper runs on.
LEMMA FileCut ==
  ASSUME NEW ow \in Owners, NEW s, DumpStateOK(s, ow), NEW c \in ClientDump!Clients,
         NEW t, t = ClientDump!closeDumpOutput(s, c, "cut")
  PROVE  /\ DumpStateOK(t, ow) /\ Kept(s, t) /\ Mine(s, t, c)
         /\ t.client[c].closer = "none" /\ t.client[c].dump = s.client[c].dump
<1>0. s \in DumpStateType /\ Len(s.heap) \in Nat /\ Len(s.dumper) \in Nat
  BY DEF DumpStateOK, DumpStateType
<1>1. CASE s.client[c].closer = "none"
  BY <1>0, <1>1 DEF Kept, Mine, ClientDump!closeDumpOutput
<1>2. CASE s.client[c].closer # "none"
  <2>. DEFINE f == s.client[c].closer  o == s.client[c].opts
  <2>1. f \in ClientDump!Files /\ ow[f] = c /\ InUse(s, c) = o /\ o # 0
    <3>1. f \in ClientDump!Files
      BY <1>0, <1>2 DEF DumpStateType, DumpClientType
    <3>. QED  BY <3>1, <1>2 DEF DumpStateOK, FilesOpen
  <2>2. o \in 1 .. Len(s.heap) /\ s.heap[o] \in OptType /\ s.client[c] \in DumpClientType
    BY <1>0, <2>1 DEF DumpStateOK, Pointers, DumpStateType
  <2>. DEFINE v == [s.heap[o] EXCEPT !.out = "nil"]
  <2>3. v \in OptType /\ v.out = "nil"
    BY <2>2 DEF OptType, ClientDump!Outs
  <2>4. /\ t.heap = [s.heap EXCEPT ![o] = v] /\ t.dumper = s.dumper
        /\ t.client = [s.client EXCEPT ![c].closer = "none"] /\ t.file = [s.file EXCEPT ![f] = "cut"]
        /\ t = [heap |-> t.heap, dumper |-> t.dumper, client |-> t.client, file |-> t.file]
    BY <1>0, <1>2, <2>1, <2>2 DEF DumpStateType, ClientDump!closeDumpOutput
  <2>. HIDE DEF v
  <2>. HIDE DEF o, f
  <2>5. /\ Len(t.heap) = Len(s.heap) /\ t.heap[o] = v /\ t.heap \in Seq(OptType)
        /\ \A h \in 1 .. Len(s.heap) : h # o => t.heap[h] = s.heap[h]
    <3>1. s.heap \in Seq(OptType) /\ v \in OptType /\ o \in 1 .. Len(s.heap) /\ t.heap = [s.heap EXCEPT ![o] = v]
      BY <1>0, <2>2, <2>3, <2>4 DEF DumpStateType
    <3>. QED  BY <3>1
  <2>6. /\ t.client[c].dump = s.client[c].dump /\ t.client[c].opts = o /\ t.client[c].closer = "none"
        /\ \A e \in ClientDump!Clients : e # c => t.client[e] = s.client[e]
        /\ t.client \in [ClientDump!Clients -> DumpClientType]
    <3>1. s.client \in [ClientDump!Clients -> DumpClientType] /\ t.client = [s.client EXCEPT ![c].closer = "none"]
      BY <1>0, <2>4 DEF DumpStateType
    <3>. QED  BY <3>1 DEF DumpClientType, o
  <2>7. t \in DumpStateType
    <3>1. s.file \in [ClientDump!Files -> {"none", "open", "flushed", "cut"}] /\ t.dumper \in Seq(DumperType)
      BY <1>0, <2>4 DEF DumpStateType
    <3>2. t.file \in [ClientDump!Files -> {"none", "open", "flushed", "cut"}]
      BY <3>1, <2>1, <2>4
    <3>. QED  BY <3>1, <3>2, <2>4, <2>5, <2>6 DEF DumpStateType
  <2>8. Pointers(t)
    <3>1. Pointers(s)
      BY DEF DumpStateOK
    <3>2. \A e \in ClientDump!Clients : t.client[e].dump = s.client[e].dump /\ t.client[e].opts = s.client[e].opts
      BY <2>6 DEF o
    <3>. QED  BY <3>1, <3>2, <2>4, <2>5 DEF Pointers
  <2>9. InUse(t, c) = o
    BY <2>1, <2>4, <2>6 DEF InUse
  <2>10. OwnBusiness(s, t, c)
    <3>1. \A h \in {t.client[c].opts, InUse(t, c)} \ {0} : h = s.client[c].opts
      BY <2>6, <2>9 DEF o
    <3>2. \A h \in 1 .. Len(s.heap) : h # s.client[c].opts /\ h # InUse(s, c) => t.heap[h] = s.heap[h]
      BY <2>5 DEF o
    <3>3. Len(s.heap) <= Len(t.heap) /\ Len(s.dumper) <= Len(t.dumper) /\ t.dumper = s.dumper
      BY <1>0, <2>4, <2>5
    <3>4. \A d \in 1 .. Len(t.dumper) : ~(d > Len(s.dumper))
      BY <1>0, <3>3
    <3>. QED  BY <2>6, <3>1, <3>2, <3>3, <3>4 DEF OwnBusiness
  <2>11. FilesOf(t, ow, c)
    BY <2>3, <2>5, <2>6, <2>9 DEF FilesOf, ClientDump!Files
  <2>12. \A g \in ClientDump!Files : ow[g] # c => t.file[g] = s.file[g]
    BY <1>0, <2>1, <2>4 DEF DumpStateType
  <2>13. DumpStateOK(t, ow)
    <3>1. c = "c1" /\ InUse(t, c) # 0 => InUse(t, c) = t.client[c].opts
      BY <2>6, <2>9
    <3>. QED  BY <3>1, <2>7, <2>8, <2>10, <2>11, <2>12, OwnBusinessKeeps
  <2>14. \A g \in ClientDump!Files : t.file[g] = "flushed" => s.file[g] = "flushed"
    BY <1>0, <2>1, <2>4 DEF DumpStateType
  <2>15. Kept(s, t)
    BY <1>0, <2>4, <2>6, <2>14 DEF Kept
  <2>. QED  BY <2>6, <2>13, <2>15 DEF Mine
<1>. QED  BY <1>1, <1>2

\* The client, which has neither Dumper nor file, dumps to the file f.
LEMMA FileOpened ==
  ASSUME NEW ow \in Owners, NEW s, DumpStateOK(s, ow), NEW c \in ClientDump!Clients,
         NEW f \in ClientDump!Files, ow[f] = c, s.client[c].dump = 0, s.client[c].closer = "none",
         NEW t, t = ClientDump!openDumpFile(s, c, f)
  PROVE  DumpStateOK(t, ow) /\ Kept(s, t)
<1>. DEFINE u == ClientDump!getDumpOptions(s, c)
<1>1. DumpStateOK(u, ow) /\ Kept(s, u) /\ u.client[c].opts # 0 /\ u.client[c].dump = 0
  BY OptionsGiven
<1>. DEFINE w == [u EXCEPT !.heap[u.client[c].opts].out = f, !.file[f] = "open", !.client[c].closer = f]
<1>2. /\ t = ClientDump!EnableDumpAll(w, c)
      /\ w = [u EXCEPT !.heap[u.client[c].opts].out = f, !.file[f] = "open", !.client[c].closer = f]
  BY DEF ClientDump!openDumpFile
<1>. HIDE DEF u, w
<1>3. u \in DumpStateType /\ s \in DumpStateType /\ Len(u.heap) \in Nat /\ Len(u.dumper) \in Nat
  BY <1>1 DEF DumpStateOK, DumpStateType
<1>4. u.client[c].opts \in 1 .. Len(u.heap) /\ u.client[c] \in DumpClientType /\ u.heap[u.client[c].opts] \in OptType
  BY <1>1, <1>3 DEF DumpStateOK, Pointers, DumpStateType
<1>. DEFINE v == [u.heap[u.client[c].opts] EXCEPT !.out = f]
<1>5. v \in OptType /\ v.out = f
  BY <1>4 DEF OptType, ClientDump!Outs
<1>6. /\ w.heap = [u.heap EXCEPT ![u.client[c].opts] = v] /\ w.dumper = u.dumper
      /\ w.client = [u.client EXCEPT ![c].closer = f] /\ w.file = [u.file EXCEPT ![f] = "open"]
      /\ w = [heap |-> w.heap, dumper |-> w.dumper, client |-> w.client, file |-> w.file]
  BY <1>2, <1>3, <1>4 DEF DumpStateType
<1>. HIDE DEF v
<1>7. w.client[c] = [dump |-> 0, opts |-> u.client[c].opts, closer |-> f]
  BY <1>1, <1>3, <1>4, <1>6 DEF DumpStateType, DumpClientType
<1>8. /\ Len(w.heap) = Len(u.heap) /\ w.heap[u.client[c].opts] = v /\ w.heap \in Seq(OptType)
  BY <1>3, <1>4, <1>5, <1>6 DEF DumpStateType
<1>. w \in DumpStateType
  <2>1. w.client \in [ClientDump!Clients -> DumpClientType]
    <3>1. [u.client[c] EXCEPT !.closer = f] \in DumpClientType
      BY <1>4 DEF DumpClientType
    <3>2. w.client = [u.client EXCEPT ![c] = [u.client[c] EXCEPT !.closer = f]]
      BY <1>6
    <3>. QED  BY <3>1, <3>2, <1>3 DEF DumpStateType
  <2>2. w.file \in [ClientDump!Files -> {"none", "open", "flushed", "cut"}]
    BY <1>3, <1>6 DEF DumpStateType
  <2>. QED  BY <2>1, <2>2, <1>3, <1>6, <1>8 DEF DumpStateType
<1>9. t = ClientDump!EnableDump(w, c)
  BY <1>1, <1>2, <1>7 DEF ClientDump!EnableDumpAll, ClientDump!getDumpOptions
<1>10. [v EXCEPT !.out = IF @ = "nil" THEN "std" ELSE @] = v
  BY <1>5 DEF OptType, ClientDump!Files
<1>11. /\ t.heap = [w.heap EXCEPT ![u.client[c].opts].out = IF @ = "nil" THEN "std" ELSE @]
       /\ t.dumper = Append(u.dumper, [opt |-> u.client[c].opts, queue |-> <<>>, hand |-> <<>>,
                                       stop |-> FALSE, run |-> "on"])
       /\ t.client = [w.client EXCEPT ![c].dump = Len(u.dumper) + 1]
       /\ t.file = w.file
       /\ t = [heap |-> t.heap, dumper |-> t.dumper, client |-> t.client, file |-> t.file]
  <2>1. /\ w.client[c].opts = u.client[c].opts /\ w.dumper = u.dumper
    BY <1>6, <1>7
  <2>2. /\ t.heap = [w.heap EXCEPT ![w.client[c].opts].out = IF @ = "nil" THEN "std" ELSE @]
        /\ t.dumper = Append(w.dumper, [opt |-> w.client[c].opts, queue |-> <<>>, hand |-> <<>>,
                                        stop |-> FALSE, run |-> "on"])
        /\ t.client = [w.client EXCEPT ![c].dump = Len(w.dumper) + 1]
        /\ t.file = w.file
        /\ t = [heap |-> t.heap, dumper |-> t.dumper, client |-> t.client, file |-> t.file]
    BY <1>9 DEF ClientDump!EnableDump, DumpStateType
  <2>. QED  BY <2>1, <2>2
<1>12. t.heap = [u.heap EXCEPT ![u.client[c].opts] = v]
  <2>1. t.heap = [w.heap EXCEPT ![u.client[c].opts] = v]
    BY <1>8, <1>10, <1>11
  <2>. QED  BY <2>1, <1>3, <1>4, <1>6 DEF DumpStateType
<1>13. t.client = [u.client EXCEPT ![c] = [dump |-> Len(u.dumper) + 1, opts |-> u.client[c].opts, closer |-> f]]
  <2>1. [w.client[c] EXCEPT !.dump = Len(u.dumper) + 1]
           = [dump |-> Len(u.dumper) + 1, opts |-> u.client[c].opts, closer |-> f]
    BY <1>7, SMTT(30)
  <2>2. t.client = [w.client EXCEPT ![c] = [dump |-> Len(u.dumper) + 1, opts |-> u.client[c].opts, closer |-> f]]
    BY <2>1, <1>11
  <2>3. u.client \in [ClientDump!Clients -> DumpClientType]
    BY <1>3 DEF DumpStateType
  <2>. QED  BY <2>2, <2>3, <1>6
<1>14. t \in DumpStateType
  <2>1. t.heap \in Seq(OptType)
    BY <1>3, <1>4, <1>5, <1>12 DEF DumpStateType
  <2>2. [opt |-> u.client[c].opts, queue |-> <<>>, hand |-> <<>>, stop |-> FALSE, run |-> "on"] \in DumperType
    BY <1>3, <1>4 DEF DumperType
  <2>3. t.dumper \in Seq(DumperType)
    BY <1>3, <1>11, <2>2 DEF DumpStateType
  <2>4. t.client \in [ClientDump!Clients -> DumpClientType]
    BY <1>3, <1>4, <1>13 DEF DumpStateType, DumpClientType
  <2>5. t.file \in [ClientDump!Files -> {"none", "open", "flushed", "cut"}]
    BY <1>3, <1>6, <1>11 DEF DumpStateType
  <2>. QED  BY <2>1, <2>3, <2>4, <2>5, <1>11 DEF DumpStateType
<1>15. \A g \in ClientDump!Files : t.file[g] = IF g = f THEN "open" ELSE u.file[g]
  BY <1>3, <1>6, <1>11 DEF DumpStateType
<1>16. DumpStateOK(t, ow) /\ Kept(u, t)
  <2>1. /\ t.client[c] = [dump |-> Len(u.dumper) + 1, opts |-> u.client[c].opts, closer |-> f]
        /\ \A e \in ClientDump!Clients : e # c => t.client[e] = u.client[e]
    BY <1>3, <1>13 DEF DumpStateType
  <2>2. /\ Len(t.heap) = Len(u.heap) /\ t.heap[u.client[c].opts] = v
        /\ \A h \in 1 .. Len(u.heap) : h # u.client[c].opts => t.heap[h] = u.heap[h]
    BY <1>3, <1>4, <1>5, <1>12 DEF DumpStateType
  <2>3. /\ Len(t.dumper) = Len(u.dumper) + 1 /\ \A d \in 1 .. Len(u.dumper) : t.dumper[d] = u.dumper[d]
        /\ t.dumper[Len(u.dumper) + 1] = [opt |-> u.client[c].opts, queue |-> <<>>, hand |-> <<>>,
                                          stop |-> FALSE, run |-> "on"]
    BY <1>3, <1>11 DEF DumpStateType
  <2>4. Started(u, t, c, v, f)
    BY <1>15, <2>1, <2>2, <2>3 DEF Started
  <2>5. f \in ClientDump!Files \cup {"none"} /\ (f # "none" => ow[f] = c) /\ (v.out \in ClientDump!Files => v.out = f)
    BY <1>5
  <2>. QED  BY <1>1, <1>5, <1>14, <2>4, <2>5, DumperStarted
<1>. QED  BY <1>1, <1>3, <1>14, <1>16, KeptTrans

\* The setters that change one option, and then start a Dumper.
LEMMA SettersKeep ==
  ASSUME NEW ow \in Owners, NEW s, DumpStateOK(s, ow), NEW c \in ClientDump!Clients, NEW t,
         \/ t = ClientDump!EnableDumpAllTo(s, c)
         \/ t = ClientDump!EnableDumpAllAsync(s, c)
         \/ \E ks \in SUBSET Kinds : t = ClientDump!EnableDumpAllWithout(s, c, ks)
  PROVE  DumpStateOK(t, ow) /\ Kept(s, t) /\ Mine(s, t, c)
<1>1. ASSUME NEW r, DumpStateOK(r, ow), Kept(s, r), Mine(s, r, c), NEW u, u = ClientDump!getDumpOptions(r, c),
             NEW v \in OptType, v.out = u.heap[u.client[c].opts].out \/ v.out \notin ClientDump!Files,
             t = ClientDump!EnableDumpAll([u EXCEPT !.heap = [u.heap EXCEPT ![u.client[c].opts] = v]], c)
      PROVE  DumpStateOK(t, ow) /\ Kept(s, t) /\ Mine(s, t, c)
  <2>1. DumpStateOK(u, ow) /\ Kept(r, u) /\ Mine(r, u, c) /\ u.client[c].opts # 0
    BY <1>1, OptionsGiven
  <2>2. v.out \in ClientDump!Files => v.out = u.client[c].closer
    BY <2>1, <1>1, SMTT(30) DEF DumpStateOK, FilesOpen
  <2>. DEFINE w == [u EXCEPT !.heap = [u.heap EXCEPT ![u.client[c].opts] = v]]
  <2>3. DumpStateOK(w, ow) /\ Kept(u, w) /\ w.client = u.client
    BY <2>1, <2>2, OptionSet
  <2>4. t = ClientDump!EnableDumpAll(w, c)
    BY <1>1
  <2>. HIDE DEF w
  <2>5. DumpStateOK(t, ow) /\ Kept(w, t) /\ Mine(w, t, c)
    BY <2>3, <2>4, EnableDumpAllKeeps
  <2>6. /\ s \in DumpStateType /\ r \in DumpStateType /\ u \in DumpStateType /\ w \in DumpStateType
        /\ t \in DumpStateType
    BY <1>1, <2>1, <2>3, <2>5 DEF DumpStateOK
  <2>7. Kept(s, u)
    BY <1>1, <2>1, <2>6, KeptTrans
  <2>8. Kept(s, w)
    BY <2>3, <2>6, <2>7, KeptTrans, SMTT(30)
  <2>9. Mine(s, t, c)
    BY <1>1, <2>1, <2>3, <2>5 DEF Mine
  <2>. QED  BY <2>5, <2>6, <2>8, <2>9, KeptTrans
<1>2. Kept(s, s) /\ Mine(s, s, c)
  BY DEF Kept, Mine, DumpStateOK, DumpStateType
<1>3. ASSUME NEW r, DumpStateOK(r, ow), NEW u, u = ClientDump!getDumpOptions(r, c)
      PROVE  /\ u \in DumpStateType /\ u.client[c].opts \in DOMAIN u.heap
             /\ u.heap[u.client[c].opts] \in OptType
  <2>1. DumpStateOK(u, ow) /\ u.client[c].opts # 0
    BY <1>3, OptionsGiven
  <2>2. u \in DumpStateType /\ u.client[c].opts \in 1 .. Len(u.heap)
    BY <2>1, SMTT(30) DEF DumpStateOK, Pointers, DumpStateType
  <2>. QED  BY <2>2 DEF DumpStateType
<1>4. CASE t = ClientDump!EnableDumpAllTo(s, c)
  <2>. DEFINE r == ClientDump!closeDumpOutput(s, c, "cut")
              u == ClientDump!getDumpOptions(r, c)
              v == [u.heap[u.client[c].opts] EXCEPT !.out = "w"]
  <2>1. DumpStateOK(r, ow) /\ Kept(s, r) /\ Mine(s, r, c)
    BY FileCut
  <2>2. t = ClientDump!EnableDumpAll([u EXCEPT !.heap[u.client[c].opts].out = "w"], c)
    BY <1>4 DEF ClientDump!EnableDumpAllTo
  <2>. HIDE DEF r
  <2>3. u.heap[u.client[c].opts] \in OptType
    BY <2>1, <1>3
  <2>. HIDE DEF u
  <2>4. v \in OptType /\ v.out \notin ClientDump!Files
    BY <2>3 DEF OptType, ClientDump!Outs, ClientDump!Files
  <2>5. t = ClientDump!EnableDumpAll([u EXCEPT !.heap = [u.heap EXCEPT ![u.client[c].opts] = v]], c)
    BY <2>2, SMTT(30)
  <2>. QED  BY <2>1, <2>4, <2>5, <1>1 DEF u
<1>5. CASE t = ClientDump!EnableDumpAllAsync(s, c)
  <2>. DEFINE u == ClientDump!getDumpOptions(s, c)
              v == [u.heap[u.client[c].opts] EXCEPT !.async = TRUE]
  <2>2. t = ClientDump!EnableDumpAll([u EXCEPT !.heap[u.client[c].opts].async = TRUE], c)
    BY <1>5 DEF ClientDump!EnableDumpAllAsync
  <2>3. u.heap[u.client[c].opts] \in OptType
    BY <1>3
  <2>. HIDE DEF u
  <2>4. v \in OptType /\ v.out = u.heap[u.client[c].opts].out
    BY <2>3 DEF OptType
  <2>5. t = ClientDump!EnableDumpAll([u EXCEPT !.heap = [u.heap EXCEPT ![u.client[c].opts] = v]], c)
    BY <2>2
  <2>. QED  BY <2>4, <2>5, <1>1, <1>2 DEF u
<1>6. ASSUME NEW ks \in SUBSET Kinds, t = ClientDump!EnableDumpAllWithout(s, c, ks)
      PROVE  DumpStateOK(t, ow) /\ Kept(s, t) /\ Mine(s, t, c)
  <2>. DEFINE u == ClientDump!getDumpOptions(s, c)
              v == [u.heap[u.client[c].opts] EXCEPT !.parts = @ \ ks]
  <2>2. t = ClientDump!EnableDumpAll([u EXCEPT !.heap[u.client[c].opts].parts = @ \ ks], c)
    BY <1>6 DEF ClientDump!EnableDumpAllWithout
  <2>3. u.heap[u.client[c].opts] \in OptType
    BY <1>3, SMTT(30)
  <2>. HIDE DEF u
  <2>4. v \in OptType /\ v.out = u.heap[u.client[c].opts].out
    BY <2>3 DEF OptType
  <2>5. t = ClientDump!EnableDumpAll([u EXCEPT !.heap = [u.heap EXCEPT ![u.client[c].opts] = v]], c)
    BY <2>2
  <2>. QED  BY <2>4, <2>5, <1>1, <1>2 DEF u
<1>. QED  BY <1>4, <1>5, <1>6

LEMMA SetCommonDumpOptionsKeeps ==
  ASSUME NEW ow \in Owners, NEW s, DumpStateOK(s, ow), NEW c \in ClientDump!Clients, NEW opt \in DumpArgType,
         NEW t, t = ClientDump!SetCommonDumpOptions(s, c, opt)
  PROVE  DumpStateOK(t, ow) /\ Kept(s, t) /\ Mine(s, t, c)
<1>. DEFINE r == IF opt.out # "nil" THEN ClientDump!closeDumpOutput(s, c, "cut") ELSE s
            o == r.client[c].opts
            dest == IF opt.out # "nil" THEN opt.out ELSE IF o # 0 THEN r.heap[o].out ELSE "std"
            v == [opt EXCEPT !.out = dest]
            d == r.client[c].dump
            n == Len(r.heap) + 1
<1>1. t = [r EXCEPT !.heap = Append(@, v), !.client[c].opts = n,
                    !.dumper = IF d # 0 THEN [@ EXCEPT ![d].opt = n] ELSE @]
  BY DEF ClientDump!SetCommonDumpOptions
<1>2. DumpStateOK(r, ow) /\ Kept(s, r) /\ Mine(s, r, c) /\ (opt.out # "nil" => r.client[c].closer = "none")
  <2>1. Kept(s, s) /\ Mine(s, s, c)
    BY DEF Kept, Mine, DumpStateOK, DumpStateType
  <2>. QED  BY <2>1, FileCut
<1>. HIDE DEF r
<1>3. r \in DumpStateType /\ s \in DumpStateType /\ Len(r.heap) \in Nat /\ Len(r.dumper) \in Nat
  BY <1>2 DEF DumpStateOK, DumpStateType
<1>4. /\ o \in 0 .. Len(r.heap) /\ d \in 0 .. Len(r.dumper) /\ r.client[c] \in DumpClientType
      /\ InUse(r, c) \in 0 .. Len(r.heap) /\ FilesOf(r, ow, c)
  <2>1. Pointers(r) /\ FilesOpen(r, ow)
    BY <1>2 DEF DumpStateOK
  <2>2. o \in 0 .. Len(r.heap) /\ d \in 0 .. Len(r.dumper)
    BY <2>1 DEF Pointers
  <2>3. r.client[c] \in DumpClientType
    BY <1>3 DEF DumpStateType
  <2>. QED  BY <1>3, <2>1, <2>2, <2>3, InUseKnown, FilesOfOne
<1>5. dest \in ClientDump!Outs
  <2>1. opt.out \in ClientDump!Outs /\ "std" \in ClientDump!Outs
    BY DEF DumpArgType, ClientDump!Outs
  <2>2. o # 0 => r.heap[o] \in OptType
    BY <1>3, <1>4 DEF DumpStateType
  <2>. QED  BY <2>1, <2>2 DEF OptType
<1>6. v \in OptType /\ v.out = dest
  BY <1>5 DEF OptType, DumpArgType
<1>7. dest \in ClientDump!Files => dest = r.client[c].closer
  <2>1. opt.out \notin ClientDump!Files /\ "std" \notin ClientDump!Files
    BY DEF DumpArgType, ClientDump!Files
  <2>. QED  BY <2>1, <1>4 DEF FilesOf
<1>8. /\ t.heap = Append(r.heap, v) /\ t.client = [r.client EXCEPT ![c].opts = n]
      /\ t.dumper = (IF d # 0 THEN [r.dumper EXCEPT ![d].opt = n] ELSE r.dumper) /\ t.file = r.file
      /\ t = [heap |-> t.heap, dumper |-> t.dumper, client |-> t.client, file |-> t.file]
  BY <1>1, <1>3 DEF DumpStateType
<1>. HIDE DEF v, dest, o, d, n
<1>. n = Len(r.heap) + 1 /\ r.client[c].opts = o /\ r.client[c].dump = d
  BY DEF n, o, d
<1>9. /\ Len(t.heap) = n /\ t.heap \in Seq(OptType) /\ t.heap[n] = v
      /\ \A h \in 1 .. Len(r.heap) : t.heap[h] = r.heap[h]
  BY <1>3, <1>6, <1>8 DEF DumpStateType
<1>10. /\ Len(t.dumper) = Len(r.dumper) /\ t.dumper \in Seq(DumperType)
       /\ \A k \in 1 .. Len(r.dumper) : k # d => t.dumper[k] = r.dumper[k]
       /\ d # 0 => t.dumper[d] = [r.dumper[d] EXCEPT !.opt = n]
  <2>1. ASSUME d # 0 PROVE r.dumper[d] \in DumperType /\ [r.dumper[d] EXCEPT !.opt = n] \in DumperType
    <3>1. r.dumper[d] \in DumperType /\ n \in Nat
      BY <2>1, <1>3, <1>4 DEF DumpStateType
    <3>. QED  BY <3>1 DEF DumperType
  <2>2. CASE d # 0
    <3>1. t.dumper = [r.dumper EXCEPT ![d] = [r.dumper[d] EXCEPT !.opt = n]]
      BY <1>8, <2>2
    <3>2. r.dumper \in Seq(DumperType) /\ d \in 1 .. Len(r.dumper)
      BY <2>2, <1>3, <1>4 DEF DumpStateType
    <3>. DEFINE y == [r.dumper[d] EXCEPT !.opt = n]
    <3>3. y \in DumperType /\ t.dumper = [r.dumper EXCEPT ![d] = y]
      BY <2>1, <2>2, <3>1
    <3>. HIDE DEF y
    <3>4. /\ Len(t.dumper) = Len(r.dumper) /\ t.dumper \in Seq(DumperType) /\ t.dumper[d] = y
          /\ \A k \in 1 .. Len(r.dumper) : k # d => t.dumper[k] = r.dumper[k]
      BY <3>2, <3>3
    <3>. QED  BY <3>4 DEF y
  <2>3. CASE d = 0
    BY <2>3, <1>3, <1>8 DEF DumpStateType
  <2>. QED  BY <2>2, <2>3
<1>11. \A k \in 1 .. Len(r.dumper) : /\ t.dumper[k].queue = r.dumper[k].queue /\ t.dumper[k].hand = r.dumper[k].hand
                                     /\ t.dumper[k].stop = r.dumper[k].stop /\ t.dumper[k].run = r.dumper[k].run
                                     /\ t.dumper[k].opt = IF k = d THEN n ELSE r.dumper[k].opt
  <2>1. \A k \in 1 .. Len(r.dumper) : r.dumper[k] \in DumperType
    BY <1>3 DEF DumpStateType
  <2>2. ASSUME d # 0, d \in 1 .. Len(r.dumper)
        PROVE  /\ t.dumper[d].queue = r.dumper[d].queue /\ t.dumper[d].hand = r.dumper[d].hand
               /\ t.dumper[d].stop = r.dumper[d].stop /\ t.dumper[d].run = r.dumper[d].run /\ t.dumper[d].opt = n
    BY <2>1, <2>2, <1>10 DEF DumperType
  <2>3. d \in 1 .. Len(r.dumper) => d # 0
    BY <1>3
  <2>. QED  BY <2>2, <2>3, <1>10
<1>12. /\ t.client[c].dump = d /\ t.client[c].opts = n /\ t.client[c].closer = r.client[c].closer
       /\ \A e \in ClientDump!Clients : e # c => t.client[e] = r.client[e]
       /\ t.client \in [ClientDump!Clients -> DumpClientType]
  <2>1. r.client \in [ClientDump!Clients -> DumpClientType] /\ n \in Nat /\ t.client = [r.client EXCEPT ![c].opts = n]
    BY <1>3, <1>8 DEF DumpStateType
  <2>2. /\ [r.client[c] EXCEPT !.opts = n] \in DumpClientType
        /\ [r.client[c] EXCEPT !.opts = n].dump = r.client[c].dump
        /\ [r.client[c] EXCEPT !.opts = n].opts = n
        /\ [r.client[c] EXCEPT !.opts = n].closer = r.client[c].closer
    BY <1>4, <2>1 DEF DumpClientType
  <2>3. t.client[c] = [r.client[c] EXCEPT !.opts = n] /\ \A e \in ClientDump!Clients : e # c => t.client[e] = r.client[e]
    BY <2>1
  <2>4. t.client \in [ClientDump!Clients -> DumpClientType]
    BY <2>1, <2>2
  <2>. QED  BY <2>2, <2>3, <2>4
<1>13. t \in DumpStateType
  BY <1>3, <1>8, <1>9, <1>10, <1>12 DEF DumpStateType
<1>14. Pointers(t)
  <2>1. Pointers(r)
    BY <1>2 DEF DumpStateOK
  <2>2. ASSUME NEW e \in ClientDump!Clients
        PROVE  /\ t.client[e].opts \in 0 .. Len(t.heap) /\ t.client[e].dump \in 0 .. Len(t.dumper)
               /\ t.client[e].dump # 0 => t.client[e].opts # 0
    <3>1. CASE e = c
      <4>1. t.client[c].opts = n /\ t.client[c].dump = d /\ d \in 0 .. Len(r.dumper)
        BY <1>4, <1>12
      <4>. QED  BY <3>1, <4>1, <1>3, <1>9, <1>10
    <3>2. CASE e # c
      <4>1. t.client[e] = r.client[e] /\ r.client[e].opts \in 0 .. Len(r.heap) /\ r.client[e].dump \in 0 .. Len(r.dumper)
            /\ (r.client[e].dump # 0 => r.client[e].opts # 0)
        BY <3>2, <2>1, <1>12 DEF Pointers
      <4>. QED  BY <4>1, <1>3, <1>9, <1>10
    <3>. QED  BY <3>1, <3>2
  <2>3. ASSUME NEW k \in 1 .. Len(t.dumper) PROVE t.dumper[k].opt \in 1 .. Len(t.heap)
    BY <2>1, <1>3, <1>9, <1>10, <1>11, SMTT(30) DEF Pointers
  <2>. QED  BY <2>2, <2>3 DEF Pointers
<1>15. InUse(t, c) = IF d = 0 THEN 0 ELSE n
  BY <1>4, <1>11, <1>12 DEF InUse
<1>16. OwnBusiness(r, t, c)
  <2>1. Len(r.heap) <= Len(t.heap) /\ Len(r.dumper) <= Len(t.dumper) /\ n > Len(r.heap)
    BY <1>3, <1>9, <1>10
  <2>2. \A k \in 1 .. Len(t.dumper) : ~(k > Len(r.dumper))
    BY <1>3, <1>10
  <2>3. \A h \in {t.client[c].opts, InUse(t, c)} \ {0} : h = n
    BY <1>12, <1>15
  <2>. QED  BY <1>9, <1>11, <1>12, <2>1, <2>2, <2>3 DEF OwnBusiness
<1>17. FilesOf(t, ow, c)
  <2>1. t.client[c].closer # "none" => d # 0 /\ ow[t.client[c].closer] = c /\ t.file[t.client[c].closer] = "open"
    BY <1>4, <1>8, <1>12 DEF FilesOf, InUse
  <2>. QED  BY <2>1, <1>3, <1>6, <1>7, <1>9, <1>12, <1>15 DEF FilesOf
<1>18. DumpStateOK(t, ow)
  <2>1. c = "c1" /\ InUse(t, c) # 0 => InUse(t, c) = t.client[c].opts
    BY <1>12, <1>15
  <2>2. \A f \in ClientDump!Files : ow[f] # c => t.file[f] = r.file[f]
    BY <1>8
  <2>. QED  BY <1>2, <1>13, <1>14, <1>16, <1>17, <2>1, <2>2, OwnBusinessKeeps
<1>19. Kept(r, t)
  <2>1. Len(r.dumper) <= Len(t.dumper) /\ \A k \in 1 .. Len(t.dumper) : ~(k > Len(r.dumper))
    BY <1>3, <1>10
  <2>2. \A e \in ClientDump!Clients : t.client[e].dump = r.client[e].dump
    BY <1>12
  <2>3. \A f \in ClientDump!Files : t.file[f] = r.file[f]
    BY <1>8
  <2>. QED  BY <1>11, <2>1, <2>2, <2>3 DEF Kept
<1>20. Mine(s, t, c)
  BY <1>2, <1>12 DEF Mine
<1>. QED  BY <1>2, <1>3, <1>13, <1>18, <1>19, <1>20, KeptTrans

LEMMA CloneKeeps ==
  ASSUME NEW ow \in Owners, NEW s, DumpStateOK(s, ow), s.client["c1"].closer = "none",
         s.client["c2"] = [dump |-> 0, opts |-> 0, closer |-> "none"],
         NEW t, t = ClientDump!Clone(s)
  PROVE  DumpStateOK(t, ow) /\ Kept(s, t)
<1>0. s \in DumpStateType /\ Len(s.heap) \in Nat /\ Len(s.dumper) \in Nat
  BY DEF DumpStateOK, DumpStateType
<1>. DEFINE d == s.client["c1"].dump  o == s.client["c1"].opts
<1>1. "c1" \in ClientDump!Clients /\ "c2" \in ClientDump!Clients /\ ClientDump!Clients = {"c1", "c2"}
  BY DEF ClientDump!Clients
<1>2. /\ d \in 0 .. Len(s.dumper) /\ o \in 0 .. Len(s.heap) /\ (d # 0 => o # 0)
      /\ d # 0 => s.dumper[d].opt \in 1 .. Len(s.heap) /\ s.dumper[d].opt = o
  BY <1>0, <1>1 DEF DumpStateOK, Pointers, InUse
<1>3. o # 0 => s.heap[o] \in OptType /\ s.heap[o].out \notin ClientDump!Files
  BY <1>0, <1>1, <1>2 DEF DumpStateOK, FilesOpen, DumpStateType, ClientDump!Files
<1>. HIDE DEF d, o
<1>. s.client["c1"].dump = d /\ s.client["c1"].opts = o
  BY DEF d, o
<1>. DEFINE fresh(i) == [opt |-> i, queue |-> <<>>, hand |-> <<>>, stop |-> FALSE, run |-> "on"]
<1>4. CASE d # 0
  <2>1. /\ t.heap = Append(Append(s.heap, s.heap[o]), s.heap[o])
        /\ t.dumper = Append(s.dumper, fresh(Len(s.heap) + 1)) /\ t.file = s.file
        /\ t.client = [s.client EXCEPT !["c2"] = [dump |-> Len(s.dumper) + 1, opts |-> Len(s.heap) + 2, closer |-> "none"]]
        /\ t = [heap |-> t.heap, dumper |-> t.dumper, client |-> t.client, file |-> t.file]
    <3>1. Append(s.heap, s.heap[o]) \in Seq(OptType) /\ Len(Append(s.heap, s.heap[o])) = Len(s.heap) + 1
      BY <1>0, <1>2, <1>3, <1>4 DEF DumpStateType
    <3>2. Len(Append(s.dumper, fresh(Len(s.heap) + 1))) = Len(s.dumper) + 1
      BY <1>0 DEF DumpStateType
    <3>3. s.dumper[d].opt = o /\ o # 0
      BY <1>2, <1>4
    <3>. DEFINE r == [s EXCEPT !.heap = Append(@, s.heap[o]), !.dumper = Append(@, fresh(Len(s.heap) + 1))]
    <3>4. t = [r EXCEPT !.heap = Append(@, s.heap[o]),
                        !.client["c2"] = [dump |-> Len(r.dumper), opts |-> Len(r.heap) + 1, closer |-> "none"]]
      BY <3>3, <1>4 DEF ClientDump!Clone
    <3>. r = [s EXCEPT !.heap = Append(s.heap, s.heap[o]), !.dumper = Append(s.dumper, fresh(Len(s.heap) + 1))]
      OBVIOUS
    <3>. HIDE DEF r, fresh
    <3>5. /\ r.heap = Append(s.heap, s.heap[o]) /\ r.dumper = Append(s.dumper, fresh(Len(s.heap) + 1))
          /\ r.client = s.client /\ r.file = s.file
          /\ r = [heap |-> r.heap, dumper |-> r.dumper, client |-> r.client, file |-> r.file]
      BY <1>0 DEF DumpStateType
    <3>6. /\ t.heap = Append(r.heap, s.heap[o]) /\ t.dumper = r.dumper /\ t.file = r.file
          /\ t.client = [r.client EXCEPT !["c2"] = [dump |-> Len(r.dumper), opts |-> Len(r.heap) + 1, closer |-> "none"]]
          /\ t = [heap |-> t.heap, dumper |-> t.dumper, client |-> t.client, file |-> t.file]
      BY <3>4, <3>5
    <3>7. Len(r.dumper) = Len(s.dumper) + 1 /\ Len(r.heap) + 1 = Len(s.heap) + 2
      BY <3>1, <3>2, <3>5, <1>0
    <3>. QED  BY <3>5, <3>6, <3>7
  <2>2. /\ Len(t.heap) = Len(s.heap) + 2 /\ t.heap \in Seq(OptType)
        /\ \A h \in 1 .. Len(s.heap) : t.heap[h] = s.heap[h]
        /\ t.heap[Len(s.heap) + 1] = s.heap[o] /\ t.heap[Len(s.heap) + 2] = s.heap[o]
    BY <1>0, <1>2, <1>3, <1>4, <2>1 DEF DumpStateType
  <2>3. fresh(Len(s.heap) + 1) \in DumperType
    BY <1>0 DEF DumperType
  <2>4. /\ Len(t.dumper) = Len(s.dumper) + 1 /\ t.dumper \in Seq(DumperType)
        /\ \A k \in 1 .. Len(s.dumper) : t.dumper[k] = s.dumper[k]
        /\ t.dumper[Len(s.dumper) + 1] = fresh(Len(s.heap) + 1)
    BY <1>0, <2>1, <2>3 DEF DumpStateType
  <2>5. /\ t.client["c2"] = [dump |-> Len(s.dumper) + 1, opts |-> Len(s.heap) + 2, closer |-> "none"]
        /\ t.client["c1"] = s.client["c1"]
        /\ t.client \in [ClientDump!Clients -> DumpClientType]
    BY <1>0, <1>1, <2>1 DEF DumpStateType, DumpClientType
  <2>6. t \in DumpStateType
    BY <1>0, <2>1, <2>2, <2>4, <2>5 DEF DumpStateType
  <2>7. Pointers(t)
    <3>1. Pointers(s)
      BY DEF DumpStateOK
    <3>2. ASSUME NEW e \in ClientDump!Clients
          PROVE  /\ t.client[e].opts \in 0 .. Len(t.heap) /\ t.client[e].dump \in 0 .. Len(t.dumper)
                 /\ t.client[e].dump # 0 => t.client[e].opts # 0
      <4>1. CASE e = "c1"
        BY <4>1, <3>1, <1>0, <1>1, <2>2, <2>4, <2>5 DEF Pointers
      <4>2. CASE e = "c2"
        BY <4>2, <1>0, <2>2, <2>4, <2>5
      <4>. QED  BY <4>1, <4>2, <1>1
    <3>3. ASSUME NEW k \in 1 .. Len(t.dumper) PROVE t.dumper[k].opt \in 1 .. Len(t.heap)
      <4>1. CASE k = Len(s.dumper) + 1
        BY <4>1, <1>0, <2>2, <2>4
      <4>2. CASE k # Len(s.dumper) + 1
        <5>1. k \in 1 .. Len(s.dumper)
          BY <4>2, <1>0, <2>4
        <5>2. t.dumper[k] = s.dumper[k] /\ s.dumper[k].opt \in 1 .. Len(s.heap)
          BY <5>1, <3>1, <2>4 DEF Pointers
        <5>. QED  BY <5>2, <1>0, <2>2
      <4>. QED  BY <4>1, <4>2
    <3>. QED  BY <3>2, <3>3 DEF Pointers
  <2>8. InUse(t, "c2") = Len(s.heap) + 1 /\ InUse(s, "c2") = 0
    BY <1>0, <2>4, <2>5 DEF InUse
  <2>9. OwnBusiness(s, t, "c2")
    <3>1. Len(s.heap) <= Len(t.heap) /\ Len(s.dumper) <= Len(t.dumper) /\ t.client["c2"].dump > Len(s.dumper)
      BY <1>0, <2>2, <2>4, <2>5
    <3>2. \A k \in 1 .. Len(t.dumper) : k > Len(s.dumper) => k = t.client["c2"].dump
      BY <1>0, <2>4, <2>5
    <3>3. \A e \in ClientDump!Clients : e # "c2" => t.client[e] = s.client[e]
      BY <1>1, <2>5
    <3>4. \A h \in {t.client["c2"].opts, InUse(t, "c2")} \ {0} : h > Len(s.heap)
      BY <1>0, <2>5, <2>8
    <3>5. \A h \in 1 .. Len(s.heap) : t.heap[h] = s.heap[h]
      BY <2>2
    <3>6. \A k \in 1 .. Len(s.dumper) : t.dumper[k].opt = s.dumper[k].opt /\ t.dumper[k].run = s.dumper[k].run
      BY <2>4
    <3>7. s.client["c2"].dump = 0
      BY <1>0
    <3>. QED  BY <3>1, <3>2, <3>3, <3>4, <3>5, <3>6, <3>7 DEF OwnBusiness
  <2>10. FilesOf(t, ow, "c2")
    BY <1>3, <1>2, <1>4, <1>0, <2>2, <2>5, <2>8 DEF FilesOf
  <2>11. DumpStateOK(t, ow)
    BY <1>1, <2>1, <2>6, <2>7, <2>9, <2>10, OwnBusinessKeeps
  <2>12. Kept(s, t)
    <3>1. Len(s.dumper) <= Len(t.dumper)
      BY <1>0, <2>4
    <3>2. \A k \in 1 .. Len(t.dumper) : k > Len(s.dumper) => k = Len(s.dumper) + 1
      BY <1>0, <2>4
    <3>3. \A e \in ClientDump!Clients : t.client[e].dump = s.client[e].dump
                                         \/ (s.client[e].dump = 0 /\ t.client[e].dump > Len(s.dumper))
      BY <1>0, <1>1, <2>5
    <3>4. /\ t.dumper[Len(s.dumper) + 1].queue = <<>> /\ t.dumper[Len(s.dumper) + 1].hand = <<>>
          /\ t.dumper[Len(s.dumper) + 1].run = "on"
      BY <2>4
    <3>5. \A k \in 1 .. Len(s.dumper) : t.dumper[k] = s.dumper[k]
      BY <2>4
    <3>6. t.file = s.file
      BY <2>1
    <3>. QED  BY <3>1, <3>2, <3>3, <3>4, <3>5, <3>6 DEF Kept
  <2>. QED  BY <2>11, <2>12
<1>5. CASE d = 0
  <2>1. /\ t.heap = (IF o = 0 THEN s.heap ELSE Append(s.heap, s.heap[o])) /\ t.dumper = s.dumper /\ t.file = s.file
        /\ t.client = [s.client EXCEPT !["c2"] = [dump |-> 0, opts |-> IF o = 0 THEN 0 ELSE Len(s.heap) + 1, closer |-> "none"]]
        /\ t = [heap |-> t.heap, dumper |-> t.dumper, client |-> t.client, file |-> t.file]
    BY <1>0, <1>5 DEF ClientDump!Clone, DumpStateType
  <2>2. /\ Len(t.heap) = (IF o = 0 THEN Len(s.heap) ELSE Len(s.heap) + 1) /\ t.heap \in Seq(OptType)
        /\ \A h \in 1 .. Len(s.heap) : t.heap[h] = s.heap[h]
        /\ o # 0 => t.heap[Len(s.heap) + 1] = s.heap[o]
    BY <1>0, <1>3, <2>1 DEF DumpStateType
  <2>5. /\ t.client["c2"] = [dump |-> 0, opts |-> IF o = 0 THEN 0 ELSE Len(s.heap) + 1, closer |-> "none"]
        /\ t.client["c1"] = s.client["c1"]
        /\ t.client \in [ClientDump!Clients -> DumpClientType]
    BY <1>0, <1>1, <2>1 DEF DumpStateType, DumpClientType
  <2>6. t \in DumpStateType
    BY <1>0, <2>1, <2>2, <2>5 DEF DumpStateType
  <2>7. Pointers(t)
    <3>1. Pointers(s)
      BY DEF DumpStateOK
    <3>2. Len(t.heap) \in Nat /\ Len(s.heap) <= Len(t.heap) /\ (o # 0 => Len(s.heap) + 1 <= Len(t.heap))
      BY <1>0, <2>2
    <3>3. \A k \in 1 .. Len(t.dumper) : t.dumper[k].opt \in 1 .. Len(t.heap)
      BY <1>0, <2>1, <3>1, <3>2 DEF Pointers
    <3>4. /\ t.client["c1"].opts \in 0 .. Len(t.heap) /\ t.client["c1"].dump \in 0 .. Len(t.dumper)
          /\ t.client["c1"].dump # 0 => t.client["c1"].opts # 0
      BY <1>0, <1>1, <2>1, <2>5, <3>1, <3>2 DEF Pointers
    <3>5. /\ t.client["c2"].opts \in 0 .. Len(t.heap) /\ t.client["c2"].dump \in 0 .. Len(t.dumper)
          /\ t.client["c2"].dump # 0 => t.client["c2"].opts # 0
      BY <1>0, <2>1, <2>5, <3>2
    <3>. QED  BY <1>1, <3>3, <3>4, <3>5 DEF Pointers
  <2>8. InUse(t, "c2") = 0 /\ InUse(s, "c2") = 0
    BY <2>5 DEF InUse
  <2>9. OwnBusiness(s, t, "c2")
    BY <1>0, <1>1, <2>1, <2>2, <2>5, <2>8 DEF OwnBusiness
  <2>10. FilesOf(t, ow, "c2")
    BY <1>3, <1>0, <2>2, <2>5, <2>8 DEF FilesOf
  <2>11. DumpStateOK(t, ow)
    BY <1>1, <2>1, <2>6, <2>7, <2>9, <2>10, OwnBusinessKeeps
  <2>12. Kept(s, t)
    BY <1>0, <1>1, <2>1, <2>5 DEF Kept
  <2>. QED  BY <2>11, <2>12
<1>. QED  BY <1>4, <1>5

\* Only the Dumpers' own fields change.
SameShape(s, t) ==
    /\ t.heap = s.heap /\ t.client = s.client /\ t.file = s.file /\ Len(t.dumper) = Len(s.dumper)
    /\ \A d \in 1 .. Len(s.dumper) : /\ t.dumper[d].opt = s.dumper[d].opt
                                     /\ s.dumper[d].run = "done" => t.dumper[d].run = "done"

LEMMA SameShapeOK ==
  ASSUME NEW ow \in Owners, NEW s, NEW t, DumpStateOK(s, ow), t \in DumpStateType, SameShape(s, t)
  PROVE  DumpStateOK(t, ow)
<1>1. \A c \in ClientDump!Clients : InUse(t, c) = InUse(s, c)
  <2>. SUFFICES ASSUME NEW c \in ClientDump!Clients PROVE InUse(t, c) = InUse(s, c)
    OBVIOUS
  <2>1. s.client[c].dump \in 0 .. Len(s.dumper)
    BY DEF DumpStateOK, Pointers
  <2>2. Len(s.dumper) \in Nat
    BY DEF DumpStateOK, DumpStateType
  <2>. QED  BY <2>1, <2>2 DEF SameShape, InUse
<1>2. Pointers(t)
  BY DEF DumpStateOK, Pointers, SameShape
<1>3. Apart(t)
  BY <1>1 DEF DumpStateOK, Apart, SameShape
<1>4. FilesOpen(t, ow)
  BY <1>1 DEF DumpStateOK, FilesOpen, SameShape
<1>5. Finished(t)
  BY DEF DumpStateOK, Finished, SameShape
<1>6. InUse(t, "c1") # 0 => InUse(t, "c1") = t.client["c1"].opts
  BY <1>1 DEF DumpStateOK, SameShape, ClientDump!Clients
<1>. QED  BY <1>2, <1>3, <1>4, <1>5, <1>6 DEF DumpStateOK

\* DisableDump after Stop has returned: the client has no Dumper and no file,
\* and nothing is left in a Dumper that was meant for the file.
Stopped(s, c) == ClientDump!closeDumpOutput([s EXCEPT !.client[c].dump = 0], c, "flushed")

LEMMA StoppedKeeps ==
  ASSUME NEW ow \in Owners, NEW s, DumpStateOK(s, ow), NEW c \in ClientDump!Clients,
         NEW pr \in [DumpProducers -> ProdType], PiecesOK(s, ow, pr),
         s.client[c].dump # 0 => s.dumper[s.client[c].dump].run = "done",
         NEW t, t = Stopped(s, c)
  PROVE  DumpStateOK(t, ow) /\ PiecesOK(t, ow, pr) /\ t.client[c].dump = 0 /\ t.client[c].closer = "none"
         /\ \A e \in ClientDump!Clients : e # c => t.client[e] = s.client[e]
<1>0. s \in DumpStateType /\ Len(s.heap) \in Nat /\ Len(s.dumper) \in Nat
  BY DEF DumpStateOK, DumpStateType
<1>. DEFINE f == s.client[c].closer  o == s.client[c].opts
            r == [s EXCEPT !.client[c].dump = 0]
<1>1. s.client[c] \in DumpClientType /\ f \in ClientDump!Files \cup {"none"} /\ o \in 0 .. Len(s.heap) /\ FilesOf(s, ow, c)
  BY <1>0 DEF DumpStateOK, DumpStateType, DumpClientType, Pointers, FilesOpen, FilesOf
<1>2. f # "none" => ow[f] = c /\ o # 0 /\ InUse(s, c) = o
  BY <1>1 DEF FilesOf
<1>3. /\ r.client[c] = [dump |-> 0, opts |-> o, closer |-> f] /\ r.heap = s.heap /\ r.dumper = s.dumper /\ r.file = s.file
      /\ \A e \in ClientDump!Clients : e # c => r.client[e] = s.client[e]
      /\ r \in DumpStateType
  BY <1>0, <1>1 DEF DumpStateType, DumpClientType
<1>. HIDE DEF r, f, o
<1>. s.client[c].closer = f /\ s.client[c].opts = o
  BY DEF f, o
<1>. DEFINE v == [s.heap[o] EXCEPT !.out = "nil"]
<1>4. o # 0 => v \in OptType /\ v.out = "nil"
  <2>1. o # 0 => s.heap[o] \in OptType
    BY <1>0, <1>1 DEF DumpStateType
  <2>. QED  BY <2>1 DEF OptType, ClientDump!Outs
<1>5. /\ t.heap = (IF f = "none" THEN s.heap ELSE [s.heap EXCEPT ![o] = v]) /\ t.dumper = s.dumper
      /\ t.client = (IF f = "none" THEN r.client ELSE [r.client EXCEPT ![c].closer = "none"])
      /\ t.file = (IF f = "none" THEN s.file ELSE [s.file EXCEPT ![f] = "flushed"])
      /\ t = [heap |-> t.heap, dumper |-> t.dumper, client |-> t.client, file |-> t.file]
  <2>1. t = ClientDump!closeDumpOutput(r, c, "flushed")
    BY DEF r, Stopped
  <2>0. r.client[c].closer = f /\ r.client[c].opts = o
    BY <1>3
  <2>2. CASE f = "none"
    <3>1. t = r
      BY <2>0, <2>1, <2>2 DEF ClientDump!closeDumpOutput
    <3>. QED  BY <3>1, <2>2, <1>3 DEF DumpStateType
  <2>3. CASE f # "none"
    <3>1. t = [r EXCEPT !.file[f] = "flushed", !.client[c].closer = "none", !.heap = [@ EXCEPT ![o].out = "nil"]]
      BY <2>0, <2>1, <2>3, <1>2 DEF ClientDump!closeDumpOutput
    <3>2. /\ t.heap = [r.heap EXCEPT ![o].out = "nil"] /\ t.dumper = r.dumper
          /\ t.client = [r.client EXCEPT ![c].closer = "none"] /\ t.file = [r.file EXCEPT ![f] = "flushed"]
          /\ t = [heap |-> t.heap, dumper |-> t.dumper, client |-> t.client, file |-> t.file]
      BY <3>1, <1>3 DEF DumpStateType
    <3>3. t.heap = [s.heap EXCEPT ![o] = v]
      BY <3>2, <1>3
    <3>. QED  BY <3>2, <3>3, <2>3, <1>3
  <2>. QED  BY <2>2, <2>3
<1>. HIDE DEF v
<1>6. /\ Len(t.heap) = Len(s.heap) /\ t.heap \in Seq(OptType)
      /\ \A h \in 1 .. Len(s.heap) : t.heap[h] = IF f # "none" /\ h = o THEN v ELSE s.heap[h]
  <2>1. s.heap \in Seq(OptType)
    BY <1>0 DEF DumpStateType
  <2>2. CASE f = "none"
    BY <2>1, <2>2, <1>5
  <2>3. CASE f # "none"
    <3>1. o \in 1 .. Len(s.heap) /\ v \in OptType /\ t.heap = [s.heap EXCEPT ![o] = v]
      BY <2>3, <1>0, <1>1, <1>2, <1>4, <1>5
    <3>2. /\ Len(t.heap) = Len(s.heap) /\ t.heap \in Seq(OptType) /\ t.heap[o] = v
          /\ \A h \in 1 .. Len(s.heap) : h # o => t.heap[h] = s.heap[h]
      BY <2>1, <3>1
    <3>. QED  BY <2>3, <3>2
  <2>. QED  BY <2>2, <2>3
<1>7. /\ t.client[c] = [dump |-> 0, opts |-> o, closer |-> "none"]
      /\ \A e \in ClientDump!Clients : e # c => t.client[e] = s.client[e]
      /\ t.client \in [ClientDump!Clients -> DumpClientType]
  <2>1. r.client \in [ClientDump!Clients -> DumpClientType]
    BY <1>3 DEF DumpStateType
  <2>2. CASE f = "none"
    BY <2>1, <2>2, <1>3, <1>5
  <2>3. CASE f # "none"
    <3>1. [r.client[c] EXCEPT !.closer = "none"] = [dump |-> 0, opts |-> o, closer |-> "none"]
      BY <1>3
    <3>2. [r.client[c] EXCEPT !.closer = "none"] \in DumpClientType
      BY <2>1 DEF DumpClientType
    <3>3. t.client = [r.client EXCEPT ![c] = [r.client[c] EXCEPT !.closer = "none"]]
      BY <2>3, <1>5
    <3>. QED  BY <3>1, <3>2, <3>3, <2>1, <1>3
  <2>. QED  BY <2>2, <2>3
<1>8. /\ t.file \in [ClientDump!Files -> {"none", "open", "flushed", "cut"}]
      /\ \A g \in ClientDump!Files : g # f => t.file[g] = s.file[g]
  BY <1>0, <1>1, <1>5 DEF DumpStateType
<1>9. t \in DumpStateType
  BY <1>0, <1>5, <1>6, <1>7, <1>8 DEF DumpStateType
<1>10. Pointers(t)
  <2>1. Pointers(s)
    BY DEF DumpStateOK
  <2>2. ASSUME NEW e \in ClientDump!Clients
        PROVE  /\ t.client[e].opts \in 0 .. Len(t.heap) /\ t.client[e].dump \in 0 .. Len(t.dumper)
               /\ t.client[e].dump # 0 => t.client[e].opts # 0
    <3>1. CASE e = c
      <4>1. t.client[c].dump = 0 /\ t.client[c].opts = o /\ t.dumper = s.dumper /\ Len(t.heap) = Len(s.heap)
        BY <1>5, <1>6, <1>7
      <4>2. o \in 0 .. Len(s.heap)
        BY <1>1
      <4>. QED  BY <3>1, <4>1, <4>2, <1>0
    <3>2. CASE e # c
      BY <3>2, <2>1, <1>5, <1>6, <1>7 DEF Pointers
    <3>. QED  BY <3>1, <3>2
  <2>. QED  BY <2>1, <2>2, <1>5, <1>6 DEF Pointers
<1>11. InUse(t, c) = 0
  BY <1>7 DEF InUse
<1>12. OwnBusiness(s, t, c)
  <2>1. Len(s.heap) <= Len(t.heap) /\ Len(s.dumper) <= Len(t.dumper) /\ t.dumper = s.dumper /\ t.client[c].dump = 0
    <3>1. t.dumper = s.dumper
      BY <1>5
    <3>2. t.client[c].dump = 0 /\ Len(t.heap) = Len(s.heap)
      BY <1>6, <1>7
    <3>. QED  BY <3>1, <3>2, <1>0
  <2>2. \A d \in 1 .. Len(t.dumper) : ~(d > Len(s.dumper))
    BY <1>0, <2>1
  <2>3. \A h \in 1 .. Len(s.heap) : h # s.client[c].opts /\ h # InUse(s, c) => t.heap[h] = s.heap[h]
    BY <1>6
  <2>4. \A h \in {t.client[c].opts, InUse(t, c)} \ {0} : h = s.client[c].opts
    BY <1>7, <1>11
  <2>. QED  BY <1>7, <2>1, <2>2, <2>3, <2>4 DEF OwnBusiness
<1>13. FilesOf(t, ow, c)
  <2>1. ASSUME o # 0, t.heap[o].out \in ClientDump!Files PROVE FALSE
    <3>1. CASE f # "none"
      BY <2>1, <3>1, <1>1, <1>4, <1>6 DEF ClientDump!Files
    <3>2. CASE f = "none"
      <4>1. o \in 1 .. Len(s.heap) /\ t.heap[o] = s.heap[o]
        BY <2>1, <3>2, <1>0, <1>1, <1>6
      <4>2. s.heap[o].out \in ClientDump!Files => f = s.heap[o].out
        BY <2>1, <1>1 DEF FilesOf
      <4>. QED  BY <4>1, <4>2, <2>1, <3>2 DEF ClientDump!Files
    <3>. QED  BY <3>1, <3>2
  <2>. QED  BY <2>1, <1>7, <1>11 DEF FilesOf
<1>14. DumpStateOK(t, ow)
  <2>1. \A g \in ClientDump!Files : ow[g] # c => t.file[g] = s.file[g]
    BY <1>2, <1>8 DEF ClientDump!Files
  <2>. QED  BY <2>1, <1>9, <1>10, <1>11, <1>12, <1>13, OwnBusinessKeeps
<1>15. \A d \in 1 .. Len(s.dumper) : \A e \in ClientDump!Clients : t.client[e].dump = d => s.client[e].dump = d
  BY <1>7
\* A Dumper of another client is not meant for the file, one of nobody is done.
<1>16. ASSUME NEW d \in 1 .. Len(s.dumper), f # "none", s.dumper[d].run # "done",
              \A e \in ClientDump!Clients : s.client[e].dump = d => ow[f] = e
       PROVE  FALSE
  <2>1. PICK e \in ClientDump!Clients : s.client[e].dump = d
    BY <1>16 DEF DumpStateOK, Finished
  <2>2. e = c
    BY <2>1, <1>2, <1>16
  <2>. QED  BY <2>1, <2>2, <1>16
<1>17. TasksOwned(t, ow)
  <2>. SUFFICES ASSUME NEW d \in 1 .. Len(s.dumper), NEW x \in Tasks(s.dumper[d]), x.out \in ClientDump!Files, ~x.late
                PROVE  /\ t.file[x.out] # "flushed"
                       /\ \A e \in ClientDump!Clients : t.client[e].dump = d => ow[x.out] = e
    BY <1>5 DEF PiecesOK, TasksOwned
  <2>1. /\ s.dumper[d].run # "done" /\ s.file[x.out] # "flushed"
        /\ \A e \in ClientDump!Clients : s.client[e].dump = d => ow[x.out] = e
    BY DEF PiecesOK, TasksOwned
  <2>2. x.out # f
    BY <2>1, <1>16 DEF ClientDump!Files
  <2>. QED  BY <2>1, <2>2, <1>8, <1>15
<1>18. StopsSeen(t)
  BY <1>5 DEF PiecesOK, StopsSeen
<1>19. ProducersOwned(t, ow, pr)
  <2>. SUFFICES ASSUME NEW p \in DumpProducers PROVE HandsOver(t, ow, pr[p])
    BY DEF ProducersOwned
  <2>1. HandsOver(s, ow, pr[p])
    BY DEF PiecesOK, ProducersOwned
  <2>2. CASE pr[p].pc \in {"send", "write"} /\ pr[p].task.out \in ClientDump!Files
    <3>1. /\ pr[p].dump \in 1 .. Len(s.dumper)
          /\ \A e \in ClientDump!Clients : s.client[e].dump = pr[p].dump => ow[pr[p].task.out] = e
          /\ ~s.dumper[pr[p].dump].stop => s.file[pr[p].task.out] # "flushed"
      BY <2>1, <2>2 DEF HandsOver
    <3>2. ASSUME ~s.dumper[pr[p].dump].stop PROVE pr[p].task.out # f
      <4>1. s.dumper[pr[p].dump].run # "done"
        BY <3>1, <3>2 DEF PiecesOK, StopsSeen
      <4>. QED  BY <4>1, <3>1, <2>2, <1>16 DEF ClientDump!Files
    <3>. QED  BY <2>2, <3>1, <3>2, <1>5, <1>8, <1>15 DEF HandsOver
  <2>3. CASE ~(pr[p].pc \in {"send", "write"} /\ pr[p].task.out \in ClientDump!Files)
    BY <2>1, <2>3, <1>5 DEF HandsOver
  <2>. QED  BY <2>2, <2>3
<1>. QED  BY <1>7, <1>14, <1>17, <1>18, <1>19 DEF PiecesOK

-----------------------------------------------------------------------------
(* The steps of the application's goroutine.                               *)

LEMMA OpShape ==
  ASSUME NEW x \in DumpOpType
  PROVE  /\ x[2] \in ClientDump!Clients
         /\ x[1] = "clone" => x[2] = "c1"
         /\ x[1] = "without" => x[3] \in SUBSET Kinds
         /\ x[1] = "options" => x[3] \in DumpArgType
         /\ x[1] = "file" => x[3] \in ClientDump!Files
<1>1. CASE x \in {"all", "to", "async", "disable"} \X ClientDump!Clients
  BY <1>1
<1>2. CASE x = <<"clone", "c1">>
  BY <1>2 DEF ClientDump!Clients
<1>3. CASE x \in {"without"} \X ClientDump!Clients \X SUBSET Kinds
  BY <1>3
<1>4. CASE x \in {"options"} \X ClientDump!Clients \X DumpArgType
  BY <1>4
<1>5. CASE x \in {"file"} \X ClientDump!Clients \X ClientDump!Files
  BY <1>5
<1>. QED  BY <1>1, <1>2, <1>3, <1>4, <1>5 DEF DumpOpType

LEMMA SetupRest ==
  ASSUME NEW ow \in Owners, setup \in Seq(DumpOpType), setup # <<>>, SetupOK(setup, ow)
  PROVE  /\ Head(setup) \in DumpOpType /\ Tail(setup) \in Seq(DumpOpType) /\ SetupOK(Tail(setup), ow)
         /\ Head(setup)[1] = "file" => ow[Head(setup)[3]] = Head(setup)[2]
         /\ (\E j \in 1 .. Len(Tail(setup)) : Tail(setup)[j][1] = "clone") =>
              /\ \E j \in 1 .. Len(setup) : setup[j][1] = "clone"
              /\ Head(setup)[1] \notin {"clone", "file"} /\ Head(setup)[2] = "c1"
<1>1. /\ Len(setup) \in Nat /\ Len(setup) > 0 /\ Head(setup) = setup[1]
      /\ Len(Tail(setup)) = Len(setup) - 1 /\ Tail(setup) \in Seq(DumpOpType)
      /\ \A j \in 1 .. Len(Tail(setup)) : Tail(setup)[j] = setup[j + 1]
  OBVIOUS
<1>2. \A j \in 1 .. Len(Tail(setup)) : j + 1 \in 1 .. Len(setup) /\ 1 < j + 1
  BY <1>1
<1>3. SetupOK(Tail(setup), ow)
  BY <1>1, <1>2 DEF SetupOK
<1>4. 1 \in 1 .. Len(setup)
  BY <1>1
<1>. QED  BY <1>1, <1>2, <1>3, <1>4 DEF SetupOK

LEMMA BecomeNow ==
  ASSUME NEW t \in DumpStateType, ClientDump!Become(t)
  PROVE  ClientDump!Now' = t
BY DEF ClientDump!Become, ClientDump!Now, DumpStateType

LEMMA NowFields ==
  /\ ClientDump!Now.heap = heap /\ ClientDump!Now.dumper = dumper
  /\ ClientDump!Now.client = client /\ ClientDump!Now.file = file
BY DEF ClientDump!Now

LEMMA ConfigureKeeps ==
  ASSUME NEW ow \in Owners, DumpInvOf(ow), ClientDump!Configure
  PROVE  DumpInvOf(ow)'
<1>. DEFINE s == ClientDump!Now  x == Head(setup)
<1>1. /\ setup \in Seq(DumpOpType) /\ SetupOK(setup, ow) /\ CloneToCome /\ DumpStateOK(s, ow) /\ AdminOK(ow)
      /\ prod \in [DumpProducers -> ProdType] /\ PiecesOK(s, ow, prod)
  BY DEF DumpInvOf
<1>2. /\ admin = ClientDump!Free /\ setup # <<>> /\ setup' = Tail(setup) /\ UNCHANGED <<admin, prod, sink>>
  BY DEF ClientDump!Configure
<1>3. /\ x \in DumpOpType /\ setup' \in Seq(DumpOpType) /\ SetupOK(setup', ow)
      /\ x[1] = "file" => ow[x[3]] = x[2]
      /\ (\E j \in 1 .. Len(setup') : setup'[j][1] = "clone") =>
           /\ \E j \in 1 .. Len(setup) : setup[j][1] = "clone"
           /\ x[1] \notin {"clone", "file"} /\ x[2] = "c1"
  BY <1>1, <1>2, SetupRest
<1>4. x[2] \in ClientDump!Clients
  BY <1>3, OpShape
<1>5. \E t : /\ ClientDump!Become(t) /\ DumpStateOK(t, ow) /\ Kept(s, t)
             /\ x[1] \notin {"clone", "file"} => Mine(s, t, x[2])
  <2>. USE DEF ClientDump!op
  <2>1. CASE x[1] = "all" /\ ClientDump!Become(ClientDump!EnableDumpAll(s, x[2]))
    BY <2>1, <1>1, <1>4, EnableDumpAllKeeps
  <2>2. CASE x[1] = "to" /\ ClientDump!Become(ClientDump!EnableDumpAllTo(s, x[2]))
    BY <2>2, <1>1, <1>4, SettersKeep
  <2>3. CASE x[1] = "async" /\ ClientDump!Become(ClientDump!EnableDumpAllAsync(s, x[2]))
    BY <2>3, <1>1, <1>4, SettersKeep
  <2>4. CASE x[1] = "without" /\ ClientDump!Become(ClientDump!EnableDumpAllWithout(s, x[2], x[3]))
    <3>1. x[3] \in SUBSET Kinds
      BY <2>4, <1>3, OpShape
    <3>. QED  BY <3>1, <2>4, <1>1, <1>4, SettersKeep
  <2>5. CASE x[1] = "options" /\ ClientDump!Become(ClientDump!SetCommonDumpOptions(s, x[2], x[3]))
    <3>1. x[3] \in DumpArgType
      BY <2>5, <1>3, OpShape
    <3>. QED  BY <3>1, <2>5, <1>1, <1>4, SetCommonDumpOptionsKeeps
  <2>6. CASE x[1] = "clone" /\ ClientDump!Become(ClientDump!Clone(s))
    <3>1. 1 \in 1 .. Len(setup) /\ setup[1][1] = "clone"
      BY <2>6, <1>1, <1>2
    <3>2. s.client["c2"] = [dump |-> 0, opts |-> 0, closer |-> "none"] /\ s.client["c1"].closer = "none"
      BY <3>1, <1>1, NowFields DEF CloneToCome
    <3>. QED  BY <3>2, <2>6, <1>1, CloneKeeps
  <2>7. CASE /\ x[1] = "file" /\ client[x[2]].dump = 0
             /\ ClientDump!Become(ClientDump!openDumpFile(ClientDump!closeDumpOutput(s, x[2], "cut"), x[2], x[3]))
    <3>. DEFINE r == ClientDump!closeDumpOutput(s, x[2], "cut")
    <3>1. x[3] \in ClientDump!Files
      BY <2>7, <1>3, OpShape
    <3>2. /\ DumpStateOK(r, ow) /\ Kept(s, r) /\ r.client[x[2]].closer = "none"
          /\ r.client[x[2]].dump = s.client[x[2]].dump
      BY <1>1, <1>4, FileCut
    <3>. HIDE DEF r
    <3>3. r.client[x[2]].dump = 0
      BY <3>2, <2>7, NowFields
    <3>. DEFINE t == ClientDump!openDumpFile(r, x[2], x[3])
    <3>4. DumpStateOK(t, ow) /\ Kept(r, t)
      BY <3>1, <3>2, <3>3, <2>7, <1>3, <1>4, FileOpened
    <3>5. ClientDump!Become(t)
      BY <2>7 DEF r
    <3>. HIDE DEF t
    <3>6. Kept(s, t)
      BY <3>2, <3>4, <1>1, KeptTrans DEF DumpStateOK
    <3>. QED  BY <3>4, <3>5, <3>6, <2>7
  <2>. QED  BY <2>1, <2>2, <2>3, <2>4, <2>5, <2>6, <2>7 DEF ClientDump!Configure
<1>6. PICK t : /\ ClientDump!Become(t) /\ DumpStateOK(t, ow) /\ Kept(s, t)
               /\ x[1] \notin {"clone", "file"} => Mine(s, t, x[2])
  BY <1>5
<1>7. t \in DumpStateType /\ ClientDump!Now' = t /\ client' = t.client
  BY <1>6, BecomeNow DEF DumpStateOK, ClientDump!Become
<1>8. PiecesOK(t, ow, prod)
  BY <1>1, <1>6, <1>7, KeptPieces
<1>9. CloneToCome'
  <2>. SUFFICES ASSUME \E j \in 1 .. Len(setup') : setup'[j][1] = "clone"
                PROVE  /\ client'["c2"] = [dump |-> 0, opts |-> 0, closer |-> "none"] /\ client'["c1"].closer = "none"
                       /\ admin' # ClientDump!Free => admin'.c = "c1" /\ admin'.next = "none"
    BY DEF CloneToCome
  <2>1. /\ client["c2"] = [dump |-> 0, opts |-> 0, closer |-> "none"] /\ client["c1"].closer = "none"
        /\ Mine(s, t, "c1")
    BY <1>1, <1>3, <1>6 DEF CloneToCome
  <2>. QED  BY <2>1, <1>2, <1>7, NowFields DEF Mine, ClientDump!Clients
<1>10. AdminOK(ow)'
  BY <1>1, <1>2 DEF AdminOK
<1>. QED  BY <1>1, <1>2, <1>3, <1>6, <1>7, <1>8, <1>9, <1>10 DEF DumpInvOf

LEMMA DisableDumpKeeps ==
  ASSUME NEW ow \in Owners, DumpInvOf(ow), ClientDump!DisableDump
  PROVE  DumpInvOf(ow)'
<1>. DEFINE s == ClientDump!Now  t == ClientDump!Now'  x == Head(setup)  d == client[x[2]].dump
<1>1. /\ setup \in Seq(DumpOpType) /\ SetupOK(setup, ow) /\ CloneToCome /\ DumpStateOK(s, ow) /\ AdminOK(ow)
      /\ prod \in [DumpProducers -> ProdType] /\ PiecesOK(s, ow, prod)
  BY DEF DumpInvOf
<1>2. /\ setup # <<>> /\ setup' = Tail(setup) /\ UNCHANGED <<heap, client, file, prod, sink>>
      /\ x[1] \in {"disable", "file"}
      /\ admin' = [pc |-> "stopping", c |-> x[2], dump |-> d, next |-> IF x[1] = "file" THEN x[3] ELSE "none"]
      /\ dumper' = IF d = 0 THEN dumper ELSE [dumper EXCEPT ![d].stop = TRUE]
  BY DEF ClientDump!DisableDump, ClientDump!op
<1>3. /\ x \in DumpOpType /\ setup' \in Seq(DumpOpType) /\ SetupOK(setup', ow)
      /\ x[1] = "file" => ow[x[3]] = x[2]
      /\ (\E j \in 1 .. Len(setup') : setup'[j][1] = "clone") =>
           /\ \E j \in 1 .. Len(setup) : setup[j][1] = "clone"
           /\ x[1] \notin {"clone", "file"} /\ x[2] = "c1"
  BY <1>1, <1>2, SetupRest
<1>4. x[2] \in ClientDump!Clients /\ (x[1] = "file" => x[3] \in ClientDump!Files)
  BY <1>3, OpShape
<1>5. /\ s \in DumpStateType /\ dumper \in Seq(DumperType) /\ Len(dumper) \in Nat /\ d \in 0 .. Len(dumper) /\ d \in Nat
  <2>1. s \in DumpStateType
    BY <1>1 DEF DumpStateOK
  <2>2. dumper \in Seq(DumperType)
    BY <2>1, NowFields DEF DumpStateType
  <2>3. d \in 0 .. Len(dumper)
    BY <1>1, <1>4, NowFields DEF DumpStateOK, Pointers
  <2>. QED  BY <2>1, <2>2, <2>3
<1>6. /\ Len(dumper') = Len(dumper) /\ dumper' \in Seq(DumperType)
      /\ \A k \in 1 .. Len(dumper) : /\ dumper'[k].opt = dumper[k].opt /\ dumper'[k].run = dumper[k].run
                                     /\ dumper'[k].queue = dumper[k].queue /\ dumper'[k].hand = dumper[k].hand
                                     /\ dumper[k].stop => dumper'[k].stop
  <2>. DEFINE y == [dumper[d] EXCEPT !.stop = TRUE]
  <2>1. ASSUME d # 0 PROVE y \in DumperType /\ dumper[d] \in DumperType
    <3>1. dumper[d] \in DumperType
      BY <2>1, <1>5
    <3>. QED  BY <3>1 DEF DumperType
  <2>2. CASE d # 0
    <3>1. dumper' = [dumper EXCEPT ![d] = y] /\ d \in 1 .. Len(dumper)
      BY <1>2, <1>5, <2>2
    <3>. HIDE DEF y, d
    <3>2. Len(dumper') = Len(dumper) /\ dumper' \in Seq(DumperType)
      BY <3>1, <2>1, <2>2, <1>5
    <3>3. \A k \in 1 .. Len(dumper) : k # d => dumper'[k] = dumper[k]
      BY <3>1, <1>5
    <3>4. dumper'[d] = y
      BY <3>1, <1>5
    <3>5. /\ y.opt = dumper[d].opt /\ y.run = dumper[d].run /\ y.queue = dumper[d].queue /\ y.hand = dumper[d].hand
          /\ y.stop
      BY <2>1, <2>2 DEF DumperType, y
    <3>. QED  BY <3>2, <3>3, <3>4, <3>5
  <2>3. CASE d = 0
    BY <2>3, <1>2, <1>5
  <2>. QED  BY <2>2, <2>3
<1>7. t.heap = heap /\ t.dumper = dumper' /\ t.client = client /\ t.file = file /\ t \in DumpStateType
  <2>1. t.heap = heap /\ t.dumper = dumper' /\ t.client = client /\ t.file = file
        /\ t = [heap |-> heap, dumper |-> dumper', client |-> client, file |-> file]
    BY <1>2 DEF ClientDump!Now
  <2>. QED  BY <2>1, <1>5, <1>6, NowFields DEF DumpStateType
<1>8. SameShape(s, t)
  BY <1>5, <1>6, <1>7, NowFields DEF SameShape
<1>9. DumpStateOK(t, ow)
  BY <1>1, <1>7, <1>8, SameShapeOK
<1>10. PiecesOK(t, ow, prod)
  <2>1. \A k \in 1 .. Len(dumper) : Tasks(dumper'[k]) = Tasks(dumper[k])
    BY <1>6, SMTT(30) DEF Tasks
  <2>2. TasksOwned(t, ow)
    BY <2>1, <1>1, <1>6, <1>7, NowFields DEF PiecesOK, TasksOwned
  <2>3. StopsSeen(t)
    BY <1>1, <1>6, <1>7, NowFields DEF PiecesOK, StopsSeen
  <2>4. ProducersOwned(t, ow, prod)
    BY <1>1, <1>6, <1>7, NowFields DEF PiecesOK, ProducersOwned, HandsOver
  <2>. QED  BY <2>2, <2>3, <2>4 DEF PiecesOK
<1>11. CloneToCome'
  BY <1>1, <1>2, <1>3 DEF CloneToCome
<1>12. AdminOK(ow)'
  <2>1. admin' \in AdminType
    BY <1>2, <1>4, <1>5 DEF AdminType
  <2>2. client'[admin'.c].dump = admin'.dump
    BY <1>2
  <2>3. admin'.next # "none" => ow[admin'.next] = admin'.c
    BY <1>2, <1>3
  <2>. QED  BY <2>1, <2>2, <2>3 DEF AdminOK
<1>. QED  BY <1>1, <1>2, <1>3, <1>9, <1>10, <1>11, <1>12 DEF DumpInvOf

LEMMA DisableDumpEndKeeps ==
  ASSUME NEW ow \in Owners, DumpInvOf(ow), ClientDump!DisableDumpEnd
  PROVE  DumpInvOf(ow)'
<1>. DEFINE s == ClientDump!Now  c == admin.c  r == Stopped(s, c)
<1>1. /\ setup \in Seq(DumpOpType) /\ SetupOK(setup, ow) /\ CloneToCome /\ DumpStateOK(s, ow) /\ AdminOK(ow)
      /\ prod \in [DumpProducers -> ProdType] /\ PiecesOK(s, ow, prod)
  BY DEF DumpInvOf
<1>2. /\ admin.pc = "stopping" /\ admin' = ClientDump!Free /\ UNCHANGED <<setup, prod, sink>>
      /\ admin.dump # 0 => dumper[admin.dump].run = "done"
      /\ ClientDump!Become(IF admin.next = "none" THEN r ELSE ClientDump!openDumpFile(r, c, admin.next))
  BY DEF ClientDump!DisableDumpEnd, ClientDump!stopDone, Stopped
<1>3. /\ admin # ClientDump!Free /\ c \in ClientDump!Clients /\ admin.next \in ClientDump!Files \cup {"none"}
      /\ client[c].dump = admin.dump /\ (admin.next # "none" => ow[admin.next] = c)
  BY <1>1, <1>2 DEF AdminOK, AdminType, ClientDump!Free
<1>4. /\ DumpStateOK(r, ow) /\ PiecesOK(r, ow, prod) /\ r.client[c].dump = 0 /\ r.client[c].closer = "none"
      /\ \A e \in ClientDump!Clients : e # c => r.client[e] = s.client[e]
  <2>1. s.client[c].dump # 0 => s.dumper[s.client[c].dump].run = "done"
    BY <1>2, <1>3, NowFields
  <2>. HIDE DEF s
  <2>. QED  BY <2>1, <1>1, <1>3, StoppedKeeps
<1>. HIDE DEF r
<1>5. \E t : /\ ClientDump!Become(t) /\ DumpStateOK(t, ow) /\ PiecesOK(t, ow, prod)
             /\ admin.next = "none" => t = r
  <2>1. CASE admin.next = "none"
    BY <2>1, <1>2, <1>4
  <2>2. CASE admin.next # "none"
    <3>. DEFINE t == ClientDump!openDumpFile(r, c, admin.next)
    <3>1. DumpStateOK(t, ow) /\ Kept(r, t)
      BY <2>2, <1>3, <1>4, FileOpened
    <3>2. ClientDump!Become(t)
      BY <1>2, <2>2
    <3>. HIDE DEF t
    <3>3. PiecesOK(t, ow, prod)
      BY <3>1, <1>1, <1>4, KeptPieces DEF DumpStateOK
    <3>. QED  BY <3>1, <3>2, <3>3, <2>2
  <2>. QED  BY <2>1, <2>2
<1>6. PICK t : /\ ClientDump!Become(t) /\ DumpStateOK(t, ow) /\ PiecesOK(t, ow, prod)
               /\ admin.next = "none" => t = r
  BY <1>5
<1>7. t \in DumpStateType /\ ClientDump!Now' = t /\ client' = t.client
  BY <1>6, BecomeNow DEF DumpStateOK, ClientDump!Become
<1>8. CloneToCome'
  <2>. SUFFICES ASSUME \E j \in 1 .. Len(setup) : setup[j][1] = "clone"
                PROVE  client'["c2"] = [dump |-> 0, opts |-> 0, closer |-> "none"] /\ client'["c1"].closer = "none"
    BY <1>2 DEF CloneToCome
  <2>1. c = "c1" /\ t = r /\ client["c2"] = [dump |-> 0, opts |-> 0, closer |-> "none"]
    BY <1>1, <1>3, <1>6 DEF CloneToCome
  <2>. QED  BY <2>1, <1>4, <1>7, NowFields DEF ClientDump!Clients
<1>9. AdminOK(ow)'
  BY <1>2 DEF AdminOK, AdminType
<1>. QED  BY <1>1, <1>2, <1>6, <1>7, <1>8, <1>9 DEF DumpInvOf

-----------------------------------------------------------------------------
(* The steps of a Dumper's goroutine and of the requests.                  *)

\* What TasksOwned says of one piece of the Dumper d.
TaskOwned(s, ow, d, run, x) ==
    /\ run = "done" => x.late
    /\ x.out \in ClientDump!Files /\ ~x.late =>
          /\ s.file[x.out] # "flushed"
          /\ \A c \in ClientDump!Clients : s.client[c].dump = d => ow[x.out] = c

LEMMA DumperStep ==
  ASSUME NEW ow \in Owners, DumpInvOf(ow), NEW d \in 1 .. Len(dumper), NEW y \in DumperType,
         dumper' = [dumper EXCEPT ![d] = y], y.opt = dumper[d].opt, y.stop = dumper[d].stop,
         dumper[d].run = "done" => y.run = "done", y.run = "done" => y.stop,
         \A x \in Tasks(y) : TaskOwned(ClientDump!Now, ow, d, y.run, x),
         UNCHANGED <<setup, heap, client, file, admin>>,
         prod' \in [DumpProducers -> ProdType], ProducersOwned(ClientDump!Now, ow, prod')
  PROVE  DumpInvOf(ow)'
<1>. DEFINE s == ClientDump!Now  t == ClientDump!Now'
<1>1. /\ setup \in Seq(DumpOpType) /\ SetupOK(setup, ow) /\ CloneToCome /\ DumpStateOK(s, ow) /\ AdminOK(ow)
      /\ PiecesOK(s, ow, prod)
  BY DEF DumpInvOf
<1>2. s \in DumpStateType /\ dumper \in Seq(DumperType) /\ Len(dumper) \in Nat
  <2>1. s \in DumpStateType
    BY <1>1 DEF DumpStateOK
  <2>2. dumper \in Seq(DumperType)
    BY <2>1, NowFields DEF DumpStateType
  <2>. QED  BY <2>1, <2>2
<1>3. /\ Len(dumper') = Len(dumper) /\ dumper' \in Seq(DumperType) /\ dumper'[d] = y
      /\ \A k \in 1 .. Len(dumper) : k # d => dumper'[k] = dumper[k]
  BY <1>2
<1>4. t.heap = heap /\ t.dumper = dumper' /\ t.client = client /\ t.file = file /\ t \in DumpStateType
  <2>1. t.heap = heap /\ t.dumper = dumper' /\ t.client = client /\ t.file = file
        /\ t = [heap |-> heap, dumper |-> dumper', client |-> client, file |-> file]
    BY DEF ClientDump!Now
  <2>. QED  BY <2>1, <1>2, <1>3, NowFields DEF DumpStateType
<1>5. SameShape(s, t)
  BY <1>3, <1>4, NowFields DEF SameShape
<1>6. DumpStateOK(t, ow)
  BY <1>1, <1>4, <1>5, SameShapeOK
<1>7. TasksOwned(t, ow)
  <2>. SUFFICES ASSUME NEW k \in 1 .. Len(dumper), NEW x \in Tasks(dumper'[k])
                PROVE  TaskOwned(s, ow, k, dumper'[k].run, x)
    BY <1>3, <1>4, NowFields DEF TasksOwned, TaskOwned
  <2>1. CASE k = d
    BY <2>1, <1>3
  <2>2. CASE k # d
    BY <2>2, <1>1, <1>3, NowFields DEF PiecesOK, TasksOwned, TaskOwned
  <2>. QED  BY <2>1, <2>2
<1>8. StopsSeen(t)
  BY <1>1, <1>3, <1>4, NowFields DEF PiecesOK, StopsSeen
<1>9. \A k \in 1 .. Len(dumper) : dumper'[k].stop = dumper[k].stop
  BY <1>3
<1>10. ProducersOwned(t, ow, prod')
  BY <1>3, <1>4, <1>9, NowFields DEF ProducersOwned, HandsOver
<1>11. CloneToCome' /\ AdminOK(ow)'
  BY <1>1 DEF CloneToCome, AdminOK
<1>. QED  BY <1>1, <1>6, <1>7, <1>8, <1>10, <1>11 DEF DumpInvOf, PiecesOK

LEMMA DumperGoroutineKeeps ==
  ASSUME NEW ow \in Owners, DumpInvOf(ow), NEW d \in 1 .. Len(dumper),
         ClientDump!Receive(d) \/ ClientDump!Write(d) \/ ClientDump!SeeStop(d)
  PROVE  DumpInvOf(ow)'
<1>. DEFINE s == ClientDump!Now  q == dumper[d].queue
<1>1. /\ DumpStateOK(s, ow) /\ prod \in [DumpProducers -> ProdType] /\ PiecesOK(s, ow, prod)
      /\ ProducersOwned(s, ow, prod)
  BY DEF DumpInvOf, PiecesOK
<1>2. dumper \in Seq(DumperType) /\ dumper[d] \in DumperType
  BY <1>1, NowFields DEF DumpStateOK, DumpStateType
<1>3. q \in Seq(TaskType) /\ dumper[d].hand \in Seq(TaskType)
  BY <1>2 DEF DumperType
<1>4. \A x \in Tasks(dumper[d]) : TaskOwned(s, ow, d, dumper[d].run, x)
  BY <1>1, NowFields DEF PiecesOK, TasksOwned, TaskOwned
<1>5. dumper[d].run = "done" => dumper[d].stop
  BY <1>1, NowFields DEF PiecesOK, StopsSeen
<1>6. CASE ClientDump!Receive(d)
  <2>. DEFINE y == [dumper[d] EXCEPT !.queue = Tail(q), !.hand = <<Head(q)>>]
  <2>1. /\ dumper[d].run \in {"on", "drain"} /\ dumper[d].hand = <<>> /\ q # <<>>
        /\ dumper' = [dumper EXCEPT ![d] = y] /\ UNCHANGED <<setup, heap, client, file, admin, prod, sink>>
    BY <1>6, <1>2 DEF ClientDump!Receive
  <2>2. Head(q) = q[1] /\ Head(q) \in TaskType /\ Tail(q) \in Seq(TaskType) /\ 1 \in 1 .. Len(q)
        /\ \A i \in 1 .. Len(Tail(q)) : Tail(q)[i] = q[i + 1] /\ i + 1 \in 1 .. Len(q)
    BY <1>3, <2>1
  <2>3. /\ y \in DumperType /\ y.opt = dumper[d].opt /\ y.stop = dumper[d].stop /\ y.run = dumper[d].run
        /\ y.queue = Tail(q) /\ y.hand = <<Head(q)>>
    <3>1. <<Head(q)>> \in Seq(TaskType)
      BY <2>2
    <3>. HIDE DEF q
    <3>. QED  BY <1>2, <2>2, <3>1 DEF DumperType
  <2>. HIDE DEF y
  <2>4. Tasks(y) \subseteq Tasks(dumper[d])
    BY <2>2, <2>3 DEF Tasks
  <2>. QED  BY <2>1, <2>3, <2>4, <1>1, <1>4, <1>5, DumperStep
<1>7. CASE ClientDump!Write(d)
  <2>. DEFINE y == [dumper[d] EXCEPT !.hand = <<>>]
  <2>1. dumper' = [dumper EXCEPT ![d] = y] /\ UNCHANGED <<setup, heap, client, file, admin, prod>>
    BY <1>7, <1>2 DEF ClientDump!Write
  <2>3. /\ y \in DumperType /\ y.opt = dumper[d].opt /\ y.stop = dumper[d].stop /\ y.run = dumper[d].run
        /\ y.queue = q /\ y.hand = <<>>
    <3>1. <<>> \in Seq(TaskType)
      OBVIOUS
    <3>. QED  BY <1>2, <3>1 DEF DumperType
  <2>. HIDE DEF y
  <2>4. Tasks(y) \subseteq Tasks(dumper[d])
    BY <2>3 DEF Tasks
  <2>. QED  BY <2>1, <2>3, <2>4, <1>1, <1>4, <1>5, DumperStep
<1>8. ASSUME NEW run \in {"drain", "done"}, dumper' = [dumper EXCEPT ![d].run = run], dumper[d].stop,
             dumper[d].run = "on" \/ (dumper[d].run = "drain" /\ run = "done"),
             run = "done" => q = <<>> /\ dumper[d].hand = <<>>,
             UNCHANGED <<setup, heap, client, file, admin, prod>>
      PROVE  DumpInvOf(ow)'
  <2>. DEFINE y == [dumper[d] EXCEPT !.run = run]
  <2>1. dumper' = [dumper EXCEPT ![d] = y]
    BY <1>8
  <2>3. /\ y \in DumperType /\ y.opt = dumper[d].opt /\ y.stop = dumper[d].stop /\ y.run = run
        /\ y.queue = q /\ y.hand = dumper[d].hand
    BY <1>2 DEF DumperType
  <2>. HIDE DEF y
  <2>4. Tasks(y) = Tasks(dumper[d]) /\ (run = "done" => Tasks(y) = {})
    BY <1>8, <2>3 DEF Tasks
  <2>5. \A x \in Tasks(y) : TaskOwned(s, ow, d, run, x)
    BY <1>4, <1>8, <2>4 DEF TaskOwned
  <2>. QED  BY <2>1, <2>3, <2>5, <1>1, <1>8, DumperStep
<1>9. CASE ClientDump!SeeStop(d)
  BY <1>8, <1>9 DEF ClientDump!SeeStop
<1>. QED  BY <1>6, <1>7, <1>9

\* A step of a request that leaves the Dumpers alone.
LEMMA ProducerStep ==
  ASSUME NEW ow \in Owners, DumpInvOf(ow), NEW p \in DumpProducers, NEW y \in ProdType,
         prod' = [prod EXCEPT ![p] = y], HandsOver(ClientDump!Now, ow, y),
         UNCHANGED <<setup, heap, dumper, client, file, admin>>
  PROVE  DumpInvOf(ow)'
<1>1. prod' \in [DumpProducers -> ProdType] /\ ProducersOwned(ClientDump!Now, ow, prod')
  BY DEF DumpInvOf, PiecesOK, ProducersOwned
<1>2. ClientDump!Now' = ClientDump!Now
  BY DEF ClientDump!Now
<1>3. CloneToCome' /\ AdminOK(ow)'
  BY DEF DumpInvOf, CloneToCome, AdminOK
<1>. QED  BY <1>1, <1>2, <1>3 DEF DumpInvOf, PiecesOK

LEMMA ProducersKeep ==
  ASSUME NEW ow \in Owners, DumpInvOf(ow), NEW p \in DumpProducers,
         ClientDump!Begin(p) \/ ClientDump!DumpTo(p) \/ ClientDump!Send(p) \/ ClientDump!WriteSync(p)
  PROVE  DumpInvOf(ow)'
<1>. DEFINE s == ClientDump!Now
<1>1. /\ DumpStateOK(s, ow) /\ prod[p] \in ProdType /\ PiecesOK(s, ow, prod) /\ HandsOver(s, ow, prod[p])
      /\ prod \in [DumpProducers -> ProdType] /\ ProducersOwned(s, ow, prod)
  BY DEF DumpInvOf, PiecesOK, ProducersOwned
<1>2. /\ s \in DumpStateType /\ heap \in Seq(OptType) /\ dumper \in Seq(DumperType) /\ Len(dumper) \in Nat
      /\ Pointers(s)
  <2>1. s \in DumpStateType /\ Pointers(s)
    BY <1>1 DEF DumpStateOK
  <2>2. heap \in Seq(OptType) /\ dumper \in Seq(DumperType)
    BY <2>1, NowFields DEF DumpStateType
  <2>. QED  BY <2>1, <2>2
<1>3. CASE ClientDump!Begin(p)
  <2>1. PICK c \in ClientDump!Clients, kind \in Kinds :
          /\ client[c].dump # 0
          /\ prod' = [prod EXCEPT ![p] = [pc |-> "run", c |-> c, dump |-> client[c].dump, kind |-> kind, k |-> 0]]
    BY <1>3 DEF ClientDump!Begin
  <2>2. client[c].dump \in 1 .. Len(dumper) /\ client[c].dump \in Nat
    BY <2>1, <1>2, NowFields DEF Pointers
  <2>. DEFINE y == [pc |-> "run", c |-> c, dump |-> client[c].dump, kind |-> kind, k |-> 0]
  <2>3. y \in ProdType
    BY <2>2 DEF ProdType
  <2>4. HandsOver(s, ow, y)
    BY <2>2, NowFields DEF HandsOver
  <2>5. UNCHANGED <<setup, heap, dumper, client, file, admin>>
    BY <1>3 DEF ClientDump!Begin
  <2>. QED  BY <2>1, <2>3, <2>4, <2>5, ProducerStep
<1>4. CASE ClientDump!DumpTo(p)
  <2>. DEFINE d == prod[p].dump  o == dumper[d].opt
              x == [out |-> ClientDump!Output(o), late |-> FALSE, piece |-> <<p, prod[p].k + 1>>]
              y == [pc |-> IF heap[o].async THEN "send" ELSE "write", c |-> prod[p].c, dump |-> d,
                    kind |-> prod[p].kind, k |-> prod[p].k + 1, task |-> x]
  <2>1. prod[p].pc = "run" /\ prod' = [prod EXCEPT ![p] = y] /\ UNCHANGED <<setup, heap, dumper, client, file, admin>>
    BY <1>4 DEF ClientDump!DumpTo
  <2>2. /\ prod[p].c \in ClientDump!Clients /\ d \in Nat /\ prod[p].kind \in Kinds /\ prod[p].k \in Nat
        /\ d \in 1 .. Len(dumper)
    <3>1. prod[p] \in [pc : {"run"}, c : ClientDump!Clients, dump : Nat, kind : Kinds, k : Nat]
      BY <1>1, <2>1 DEF ProdType
    <3>. QED  BY <3>1, <1>1, <2>1, NowFields DEF HandsOver
  <2>3. o \in 1 .. Len(heap) /\ heap[o] \in OptType
    BY <2>2, <1>2, NowFields DEF Pointers
  <2>4. ClientDump!Output(o) \in ClientDump!Outs /\ (ClientDump!Output(o) \in ClientDump!Files => heap[o].out = ClientDump!Output(o))
    BY <2>3 DEF ClientDump!Output, OptType, ClientDump!Outs, ClientDump!Files
  <2>5. x \in TaskType
    BY <2>2, <2>4 DEF TaskType
  <2>6. y \in ProdType /\ y.pc \in {"send", "write"} /\ y.dump = d /\ y.task.out = ClientDump!Output(o)
    <3>1. x.out = ClientDump!Output(o)
      OBVIOUS
    <3>. HIDE DEF x
    <3>2. y \in [pc : {"send", "write"}, c : ClientDump!Clients, dump : Nat, kind : Kinds, k : Nat, task : TaskType]
      BY <2>2, <2>5
    <3>. QED  BY <3>1, <3>2 DEF ProdType
  <2>. HIDE DEF y
  <2>7. HandsOver(s, ow, y)
    <3>. SUFFICES ASSUME ClientDump!Output(o) \in ClientDump!Files
                  PROVE  /\ \A c \in ClientDump!Clients : client[c].dump = d => ow[ClientDump!Output(o)] = c
                         /\ ~dumper[d].stop => file[ClientDump!Output(o)] # "flushed"
      BY <2>2, <2>6, NowFields DEF HandsOver
    <3>1. ASSUME NEW c \in ClientDump!Clients, client[c].dump = d
          PROVE  ow[ClientDump!Output(o)] = c /\ file[ClientDump!Output(o)] = "open"
      <4>1. InUse(s, c) = o /\ o # 0
        BY <3>1, <2>2, <2>3, NowFields DEF InUse
      <4>2. client[c].closer = ClientDump!Output(o)
        BY <4>1, <2>4, <1>1, NowFields DEF DumpStateOK, FilesOpen
      <4>3. client[c].closer # "none"
        BY <4>2 DEF ClientDump!Files
      <4>. QED  BY <4>2, <4>3, <1>1, NowFields DEF DumpStateOK, FilesOpen
    <3>2. ASSUME ~dumper[d].stop PROVE file[ClientDump!Output(o)] # "flushed"
      <4>1. dumper[d].run # "done"
        BY <3>2, <2>2, <1>1, NowFields DEF PiecesOK, StopsSeen
      <4>2. \E c \in ClientDump!Clients : client[c].dump = d
        BY <4>1, <2>2, <1>1, NowFields DEF DumpStateOK, Finished
      <4>. QED  BY <4>2, <3>1
    <3>. QED  BY <3>1, <3>2
  <2>. QED  BY <2>1, <2>6, <2>7, ProducerStep
<1>5. ASSUME prod[p].pc \in {"send", "write"}
      PROVE  /\ [pc |-> "run", c |-> prod[p].c, dump |-> prod[p].dump, kind |-> prod[p].kind, k |-> prod[p].k] \in ProdType
             /\ prod[p].dump \in 1 .. Len(dumper) /\ prod[p].task \in TaskType
             /\ HandsOver(s, ow, [pc |-> "run", c |-> prod[p].c, dump |-> prod[p].dump, kind |-> prod[p].kind, k |-> prod[p].k])
  <2>1. prod[p] \in [pc : {"send", "write"}, c : ClientDump!Clients, dump : Nat, kind : Kinds, k : Nat, task : TaskType]
    BY <1>1, <1>5 DEF ProdType
  <2>2. prod[p].dump \in 1 .. Len(dumper)
    BY <1>1, <1>5, NowFields DEF HandsOver
  <2>3. [pc |-> "run", c |-> prod[p].c, dump |-> prod[p].dump, kind |-> prod[p].kind, k |-> prod[p].k]
           \in [pc : {"run"}, c : ClientDump!Clients, dump : Nat, kind : Kinds, k : Nat]
    BY <2>1
  <2>. QED  BY <2>1, <2>2, <2>3, NowFields DEF HandsOver, ProdType
<1>. DEFINE b == [pc |-> "run", c |-> prod[p].c, dump |-> prod[p].dump, kind |-> prod[p].kind, k |-> prod[p].k]
<1>6. CASE ClientDump!WriteSync(p)
  <2>1. prod[p].pc = "write" /\ prod' = [prod EXCEPT ![p] = b] /\ UNCHANGED <<setup, heap, dumper, client, file, admin>>
    BY <1>6 DEF ClientDump!WriteSync, ClientDump!Back
  <2>. QED  BY <2>1, <1>5, ProducerStep
<1>7. CASE ClientDump!Send(p)
  <2>. DEFINE d == prod[p].dump
              x == [prod[p].task EXCEPT !.late = dumper[d].stop]
              y == [dumper[d] EXCEPT !.queue = Append(@, x)]
  <2>1. /\ prod[p].pc = "send" /\ prod' = [prod EXCEPT ![p] = b] /\ UNCHANGED <<setup, heap, client, file, admin>>
        /\ UNCHANGED dumper \/ dumper' = [dumper EXCEPT ![d] = y]
    BY <1>7 DEF ClientDump!Send, ClientDump!Back
  <2>2. CASE UNCHANGED dumper
    BY <2>1, <2>2, <1>5, ProducerStep
  <2>3. CASE dumper' = [dumper EXCEPT ![d] = y]
    <3>1. d \in 1 .. Len(dumper) /\ dumper[d] \in DumperType /\ prod[p].task \in TaskType
      BY <2>1, <1>2, <1>5
    <3>2. x \in TaskType /\ x.late = dumper[d].stop /\ x.out = prod[p].task.out
      BY <3>1 DEF TaskType, DumperType
    <3>. HIDE DEF x
    <3>3. /\ y \in DumperType /\ y.opt = dumper[d].opt /\ y.stop = dumper[d].stop /\ y.run = dumper[d].run
          /\ y.queue = Append(dumper[d].queue, x) /\ y.hand = dumper[d].hand
      <4>1. dumper[d].queue \in Seq(TaskType)
        BY <3>1 DEF DumperType
      <4>2. Append(dumper[d].queue, x) \in Seq(TaskType)
        BY <4>1, <3>2, SMTT(30)
      <4>. QED  BY <3>1, <4>2 DEF DumperType
    <3>. HIDE DEF y
    <3>4. Tasks(y) \subseteq Tasks(dumper[d]) \cup {x}
      <4>1. dumper[d].queue \in Seq(TaskType)
        BY <3>1 DEF DumperType
      <4>2. \A i \in 1 .. Len(y.queue) : y.queue[i] = x \/ (i \in 1 .. Len(dumper[d].queue) /\ y.queue[i] = dumper[d].queue[i])
        BY <4>1, <3>3
      <4>. QED  BY <4>2, <3>3, SMTT(30) DEF Tasks
    <3>5. dumper[d].run = "done" => dumper[d].stop
      BY <3>1, <1>1, NowFields DEF PiecesOK, StopsSeen
    <3>6. TaskOwned(s, ow, d, y.run, x)
      <4>1. prod[p].task.out \in ClientDump!Files =>
               /\ \A c \in ClientDump!Clients : s.client[c].dump = d => ow[prod[p].task.out] = c
               /\ ~s.dumper[d].stop => s.file[prod[p].task.out] # "flushed"
        BY <2>1, <1>1 DEF HandsOver
      <4>. QED  BY <4>1, <3>2, <3>3, <3>5, NowFields DEF TaskOwned
    <3>7. \A z \in Tasks(dumper[d]) : TaskOwned(s, ow, d, y.run, z)
      BY <3>1, <3>3, <1>1, NowFields DEF PiecesOK, TasksOwned, TaskOwned
    <3>8. \A z \in Tasks(y) : TaskOwned(s, ow, d, y.run, z)
      BY <3>4, <3>6, <3>7
    <3>9. prod' \in [DumpProducers -> ProdType] /\ ProducersOwned(s, ow, prod')
      BY <2>1, <1>1, <1>5 DEF ProducersOwned
    <3>. QED  BY <2>1, <2>3, <3>1, <3>3, <3>5, <3>8, <3>9, DumperStep
  <2>. QED  BY <2>1, <2>2, <2>3
<1>. QED  BY <1>3, <1>4, <1>6, <1>7

LEMMA DumpInit == ASSUME DumpConstants PROVE ClientDump!Init => DumpInv
<1>. SUFFICES ASSUME ClientDump!Init PROVE DumpInv
  OBVIOUS
<1>1. setup \in Seq(DumpOpType)
  BY DEF ClientDump!Init, DumpConstants
<1>2. PICK ow \in Owners : SetupOK(setup, ow)
  BY DEF ClientDump!Init, DumpConstants, Owners
<1>3. /\ heap = <<>> /\ dumper = <<>> /\ admin = ClientDump!Free
      /\ client = [c \in ClientDump!Clients |-> [dump |-> 0, opts |-> 0, closer |-> "none"]]
      /\ file = [f \in ClientDump!Files |-> "none"]
      /\ prod = [p \in DumpProducers |-> [pc |-> "new"]]
  BY DEF ClientDump!Init
<1>4. /\ heap \in Seq(OptType) /\ dumper \in Seq(DumperType) /\ Len(heap) = 0 /\ Len(dumper) = 0
  BY <1>3
<1>5. client \in [ClientDump!Clients -> DumpClientType]
  BY <1>3 DEF DumpClientType
<1>6. ClientDump!Now \in DumpStateType
  BY <1>3, <1>4, <1>5 DEF ClientDump!Now, DumpStateType
<1>7. \A c \in ClientDump!Clients : InUse(ClientDump!Now, c) = 0 /\ client[c] = [dump |-> 0, opts |-> 0, closer |-> "none"]
  BY <1>3, NowFields DEF InUse
<1>8. DumpStateOK(ClientDump!Now, ow)
  <2>1. Pointers(ClientDump!Now)
    BY <1>4, <1>7, NowFields DEF Pointers
  <2>2. Apart(ClientDump!Now) /\ FilesOpen(ClientDump!Now, ow)
    BY <1>7, NowFields DEF Apart, FilesOpen
  <2>3. Finished(ClientDump!Now)
    BY <1>4, NowFields DEF Finished
  <2>. QED  BY <1>6, <1>7, <2>1, <2>2, <2>3 DEF DumpStateOK, ClientDump!Clients
<1>9. prod \in [DumpProducers -> ProdType]
  BY <1>3 DEF ProdType
<1>10. PiecesOK(ClientDump!Now, ow, prod)
  <2>1. TasksOwned(ClientDump!Now, ow) /\ StopsSeen(ClientDump!Now)
    BY <1>4, NowFields DEF TasksOwned, StopsSeen
  <2>2. ProducersOwned(ClientDump!Now, ow, prod)
    BY <1>3 DEF ProducersOwned, HandsOver
  <2>. QED  BY <2>1, <2>2 DEF PiecesOK
<1>11. CloneToCome /\ AdminOK(ow)
  BY <1>3, <1>7 DEF CloneToCome, AdminOK, AdminType, ClientDump!Clients
<1>. QED  BY <1>1, <1>2, <1>8, <1>9, <1>10, <1>11 DEF DumpInv, DumpInvOf

LEMMA DumpStep == DumpInv /\ [ClientDump!Next]_(ClientDump!dumpVars) => DumpInv'
<1>. SUFFICES ASSUME DumpInv, [ClientDump!Next]_(ClientDump!dumpVars) PROVE DumpInv'
  OBVIOUS
<1>1. PICK ow \in Owners : DumpInvOf(ow)
  BY DEF DumpInv
<1>2. CASE UNCHANGED ClientDump!dumpVars
  <2>1. UNCHANGED <<setup, heap, dumper, client, file, admin, prod>> /\ ClientDump!Now' = ClientDump!Now
    BY <1>2 DEF ClientDump!dumpVars, ClientDump!Now
  <2>2. CloneToCome' /\ AdminOK(ow)'
    BY <2>1, <1>1 DEF DumpInvOf, CloneToCome, AdminOK
  <2>3. DumpInvOf(ow)'
    BY <2>1, <2>2, <1>1 DEF DumpInvOf
  <2>. QED  BY <2>3 DEF DumpInv
<1>3. CASE ClientDump!Next
  <2>1. DumpInvOf(ow)'
    BY <1>1, <1>3, ConfigureKeeps, DisableDumpKeeps, DisableDumpEndKeeps, DumperGoroutineKeeps, ProducersKeep
       DEF ClientDump!Next
  <2>. QED  BY <2>1 DEF DumpInv
<1>. QED  BY <1>2, <1>3

LEMMA DumpSafe == DumpInv => ClientDump!DisableFlushes /\ ClientDump!SettersReachDumper
<1>. SUFFICES ASSUME NEW ow \in Owners, DumpInvOf(ow)
              PROVE  ClientDump!DisableFlushes /\ ClientDump!SettersReachDumper
  BY DEF DumpInv
<1>1. ClientDump!DisableFlushes
  BY NowFields DEF DumpInvOf, PiecesOK, TasksOwned, Tasks, ClientDump!DisableFlushes
<1>2. ClientDump!SettersReachDumper
  <2>. SUFFICES ASSUME client["c1"].dump # 0 PROVE dumper[client["c1"].dump].opt = client["c1"].opts
    BY DEF ClientDump!SettersReachDumper
  <2>1. /\ client["c1"].dump \in 1 .. Len(dumper) /\ Pointers(ClientDump!Now)
        /\ InUse(ClientDump!Now, "c1") = dumper[client["c1"].dump].opt
    <3>1. "c1" \in ClientDump!Clients
      BY DEF ClientDump!Clients
    <3>2. Pointers(ClientDump!Now) /\ Len(dumper) \in Nat
      BY NowFields DEF DumpInvOf, DumpStateOK, DumpStateType
    <3>. QED  BY <3>1, <3>2, NowFields DEF InUse, Pointers
  <2>2. dumper[client["c1"].dump].opt # 0
    BY <2>1, NowFields DEF Pointers
  <2>. QED  BY <2>1, <2>2, NowFields DEF DumpInvOf, DumpStateOK
<1>. QED  BY <1>1, <1>2

-----------------------------------------------------------------------------
\* Request.Do and digestAuth: for any set of requests in which no
\* SetMultipartField reader is combined with retries, no attempt is sent with a
\* body that was read before, as Do refuses the io.Reader bodies; and for any
\* number of requests to a host with Digest authentication, any bodies and any
\* server, both copies carry the whole body and no credentials are used twice,
\* however the requests replace and drop each other's challenges.
THEOREM UploadsComplete == ASSUME FieldsReplayable PROVE Spec => []BodyReplayed
<1>. DEFINE I == /\ part = "request" => RequestInv /\ BodySentOnce
                 /\ part = "digest" => DigestInv
<1>1. Init => I
  BY RequestInit, DigestInit, RequestAssumption DEF Init
<1>2. I /\ [Next]_all => I'
  <2>. SUFFICES ASSUME I, [Next]_all PROVE I'
    OBVIOUS
  <2>1. ASSUME part' = "request" PROVE RequestInv' /\ BodySentOnce'
    <3>1. part = "request" /\ [Request!Next]_(Request!vars)
      BY <2>1 DEF Next, all, Request!vars, Request!respVars, Request!outVars, Request!bodyVars
    <3>. QED  BY <3>1, RequestStep, BodySentOnceStep, RequestAssumption
  <2>2. ASSUME part' = "digest" PROVE DigestInv'
    <3>1. part = "digest" /\ [Digest!Next]_(Digest!digestVars)
      BY <2>2 DEF Next, all, Digest!digestVars
    <3>. QED  BY <3>1, DigestStep, DigestAssumption
  <2>. QED  BY <2>1, <2>2
<1>3. I => BodyReplayed
  BY DigestSafe DEF BodyReplayed, BodySentOnce, Request!BodyReplayed
<1>. QED  BY <1>1, <1>2, <1>3, PTL DEF Spec

\* The dumps.  Of a request: for any calls that set it up and any number of
\* attempts, Response.Dump shows the attempt the Response belongs to, although the
\* transport may still write of an earlier one (prepareRetry).  Of a client: for
\* any number of requests in flight, any capacity of the queue and any sequence of
\* operations that gives no file to two clients and clones before it uses the
\* copy, when DisableDump has closed the file, every piece accepted before Stop is
\* in it, and the running Dumper works with the client's own options.
THEOREM DumpsFaithful == Spec => []DumpFaithful
<1>. DEFINE I == /\ part = "requestDump" => RequestDumpInv
                 /\ part = "dump" => DumpInv
<1>1. Init => I
  BY RequestDumpInit, DumpInit, RequestDumpAssumption, DumpAssumption DEF Init
<1>2. I /\ [Next]_all => I'
  <2>. SUFFICES ASSUME I, [Next]_all PROVE I'
    OBVIOUS
  <2>1. ASSUME part' = "requestDump" PROVE RequestDumpInv'
    <3>1. part = "requestDump" /\ [RequestDump!Next]_(RequestDump!rdumpVars)
      BY <2>1 DEF Next, all, RequestDump!rdumpVars
    <3>. QED  BY <3>1, RequestDumpStep, RequestDumpAssumption
  <2>2. ASSUME part' = "dump" PROVE DumpInv'
    <3>1. part = "dump" /\ [ClientDump!Next]_(ClientDump!dumpVars)
      BY <2>2 DEF Next, all, ClientDump!dumpVars
    <3>. QED  BY <3>1, DumpStep
  <2>. QED  BY <2>1, <2>2
<1>3. I => DumpFaithful
  BY RequestDumpFinal, DumpSafe DEF DumpFaithful
<1>. QED  BY <1>1, <1>2, <1>3, PTL DEF Spec
=============================================================================
