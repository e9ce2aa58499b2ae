------------------------------ MODULE RequestDo ------------------------------
(***************************************************************************)
(* One call of Request.Do (request.go, client.go, middleware.go,           *)
(* response.go): the attempts of a request with its middleware, the        *)
(* client's round trip, the response size limit, automatic reading and     *)
(* downloading, the retry decision and the retry wait, while the caller's  *)
(* context may end at any time.  A response body is the number of the      *)
(* attempt it belongs to; only what happens to it is tracked.              *)
(***************************************************************************)
EXTENDS Integers, Sequences, FiniteSets

CONSTANTS MaxAttempts,  \* bound on the retries explored when they are unlimited
          Configs       \* the requests explored, see ConfigOK

\* body: "field" is a SetMultipartField reader, "reader" an io.Reader body,
\* "func" a GetContentFunc or reopenable file.  save: where the response goes
\* ("closer" is an io.Writer that is also an io.Closer).
ConfigOK(c) ==
    /\ c.retry \in BOOLEAN      \* retryOption # nil
    /\ c.max \in Int           \* RetryOption.MaxRetries; negative: no limit
    /\ c.conds \in BOOLEAN      \* RetryConditions is not empty
    /\ c.after \in BOOLEAN      \* Request.OnAfterResponse was used
    /\ c.body \in {"none", "bytes", "func", "reader", "field"}
    /\ c.save \in {"no", "file", "writer", "closer"}
    /\ c.auto \in BOOLEAN       \* automatic reading is on
    /\ c.limit \in BOOLEAN      \* SetMaxResponseSize
    /\ c.result \in BOOLEAN     \* SetSuccessResult
    /\ c.common \in BOOLEAN     \* the client has common cookies and form data, and
                               \* the method allows a payload

VARIABLES
    cfg,        \* the request
    pc,         \* where do() is
    attempt,    \* r.RetryAttempt
    ctx,        \* "live", "canceled" or "deadline"
    err,        \* the local err of do()
    resp,       \* the Response: Err, has (a transport response), cached (body)
    canceled,   \* the local contextCanceled
    arrived,    \* kind of the response body of this attempt
    open,       \* attempts whose transport body is not closed
    out,        \* attempts whose bytes are in the output, in order
    outClosed,  \* the caller's writer was closed
    common,     \* copies of the client's cookies, of its form data, in r
    consumed,   \* the reader of a "reader" or "field" body is at its end
    sent,       \* history: what each call of httpClient.Do carried
    late,       \* history: calls of httpClient.Do after the context was canceled
    failed      \* history: a step of this attempt, or the retry wait, failed

respVars == <<err, resp, canceled, arrived, failed>>
outVars == <<open, out, outClosed>>
bodyVars == <<common, consumed, sent, late>>
vars == <<cfg, pc, attempt, ctx, respVars, outVars, bodyVars>>

NoResp == [Err |-> "nil", has |-> FALSE, cached |-> FALSE]

Init ==
    /\ cfg \in Configs
    /\ pc = "Do" /\ attempt = 0 /\ ctx = "live"
    /\ err = "nil" /\ resp = NoResp /\ canceled = FALSE /\ arrived = "none" /\ failed = FALSE
    /\ open = {} /\ out = <<>> /\ outClosed = FALSE
    /\ common = <<0, 0>> /\ consumed = FALSE /\ sent = <<>> /\ late = 0

\* The caller cancels its context or its deadline passes.
endContext ==
    /\ ctx = "live" /\ pc # "return"
    /\ ctx' \in {"canceled", "deadline"}
    /\ UNCHANGED <<cfg, pc, attempt, respVars, outVars, bodyVars>>

\* Mutant: the deferred function does not copy the error.
Finish_keepResp(e, r) == pc' = "return" /\ err' = e /\ resp' = r

\* The deferred function of do(): the error reaches the Response.
Finish(e, r) ==
    /\ pc' = "return"
    /\ err' = e
    /\ resp' = IF e # "nil" /\ r.Err = "nil" THEN [r EXCEPT !.Err = e] ELSE r

(***************************************************************************)
(* Do: an unreplayable body is refused when retries are on.                *)
(***************************************************************************)
\* Mutant: unReplayableBody is not tested.
Do_unchecked ==
    /\ pc = "Do"
    /\ pc' = "udBeforeRequest"
    /\ UNCHANGED <<cfg, attempt, ctx, respVars, outVars, bodyVars>>

Do ==
    /\ pc = "Do"
    /\ IF cfg.retry /\ cfg.max # 0 /\ cfg.body = "reader"
       THEN Finish("unreplayable", NoResp) /\ failed' = TRUE
       ELSE pc' = "udBeforeRequest" /\ UNCHANGED <<err, resp, failed>>
    /\ UNCHANGED <<cfg, attempt, ctx, canceled, arrived, outVars, bodyVars>>

(***************************************************************************)
(* tryRetry: shouldRetry, then the first half of prepareRetry.  e is the   *)
(* error of the attempt and r its Response.                                *)
(***************************************************************************)
\* Mutant: one attempt too many.
BudgetLeft_offByOne == cfg.retry /\ ~(attempt > cfg.max /\ cfg.max >= 0)

\* Mutant: a negative MaxRetries is taken for a limit.
BudgetLeft_noUnlimited == cfg.retry /\ ~(attempt >= cfg.max)

BudgetLeft == cfg.retry /\ ~(attempt >= cfg.max /\ cfg.max >= 0)

\* The answers shouldRetry may give: a retry condition says what it likes.
shouldRetry(e) ==
    IF e = "canceled" \/ ~BudgetLeft THEN {FALSE}
    ELSE IF cfg.conds THEN BOOLEAN ELSE {e # "nil"}

\* closeRetryResponseBody: drained or not, the body is closed.
\* Mutant: the body of the abandoned attempt stays open.
closeRetryResponseBody_keep == open

closeRetryResponseBody == open \ {attempt}

tryRetry(e, r) ==
    LET r1 == IF e # "nil" THEN [r EXCEPT !.Err = e] ELSE r IN
    \/ /\ TRUE \in shouldRetry(e)
       /\ attempt < MaxAttempts
       /\ attempt' = attempt + 1
       /\ open' = closeRetryResponseBody
       /\ resp' = [r1 EXCEPT !.cached = FALSE]
       /\ pc' = "waitRetryInterval"
       /\ err' = e
    \/ /\ FALSE \in shouldRetry(e)
       /\ Finish(e, r1)
       /\ UNCHANGED <<attempt, open>>

\* The wait ends with the timer or with the context; both may be ready.
waitRetryInterval ==
    /\ pc = "waitRetryInterval"
    /\ \/ /\ pc' = "udBeforeRequest"
          /\ failed' = FALSE
          /\ UNCHANGED <<err, resp>>
       \/ /\ ctx # "live"
          /\ Finish(ctx, resp)
          /\ failed' = TRUE
    /\ UNCHANGED <<cfg, attempt, ctx, canceled, arrived, outVars, bodyVars>>

(***************************************************************************)
(* Request middleware, the user's and the built-in ones.  An error goes to *)
(* tryRetry together with the Response of the previous attempt, if any.    *)
(***************************************************************************)
udBeforeRequest ==
    /\ pc = "udBeforeRequest"
    /\ \/ /\ pc' = "beforeRequest"
          /\ UNCHANGED <<attempt, err, resp, failed, open>>
       \/ /\ tryRetry("middleware", resp)
          /\ failed' = TRUE
    /\ UNCHANGED <<cfg, ctx, canceled, arrived, out, outClosed, bodyVars>>

\* parseRequestCookie: len(c.Cookies) > 0 || r.RetryAttempt <= 0
parseRequestCookie == IF cfg.common THEN common[1] + 1 ELSE common[1]

\* The client's form data is the body of a request that is not multipart
\* (handleFormData), whatever body was set.
FormBody == cfg.common /\ cfg.body # "field"

\* parseRequestBody: the client's form data is added to the request's, after
\* the early return for multipart.
parseRequestBody == IF FormBody THEN common[2] + 1 ELSE common[2]

beforeRequest ==
    /\ pc = "beforeRequest"
    /\ \/ /\ pc' = "roundTrip"
          /\ common' = <<parseRequestCookie, parseRequestBody>>
          /\ UNCHANGED <<attempt, err, resp, failed, open>>
       \/ /\ common' = <<parseRequestCookie, common[2]>>   \* parseRequestURL fails
          /\ tryRetry("middleware", resp)
          /\ failed' = TRUE
    /\ UNCHANGED <<cfg, ctx, canceled, arrived, out, outClosed, consumed, sent, late>>

(***************************************************************************)
(* Client.roundTrip.                                                       *)
(***************************************************************************)
OneShot == cfg.body \in {"reader", "field"} /\ ~FormBody

Payload == [cookies |-> common[1], form |-> common[2],
            body |-> CASE cfg.body = "none" /\ ~FormBody -> "none"
                       [] OneShot /\ consumed -> "empty"
                       [] OTHER -> "full"]

\* GetBody fails: nothing is sent and the client's middleware does not run.
getBodyFails ==
    /\ pc = "roundTrip" /\ cfg.body = "func" /\ ~FormBody
    /\ resp' = [NoResp EXCEPT !.Err = "getBody"]
    /\ err' = "getBody"
    /\ failed' = TRUE
    /\ pc' = "afterResponse"
    /\ UNCHANGED <<cfg, attempt, ctx, canceled, arrived, outVars, bodyVars>>

\* c.httpClient.Do: a transport error, or a response whose body is fine,
\* longer than the limit by its header ("longCL") or in fact ("long"),
\* breaks while it is read, or is the upgraded connection of a 101 ("switch").
httpClientDo ==
    /\ pc = "roundTrip"
    /\ sent' = Append(sent, Payload)
    /\ consumed' = (consumed \/ OneShot)
    /\ late' = IF ctx = "canceled" THEN late + 1 ELSE late
    /\ \/ /\ resp' = [NoResp EXCEPT !.Err = IF ctx = "live" THEN "transport" ELSE ctx]
          /\ arrived' = "none"
          /\ failed' = TRUE
          /\ UNCHANGED open
       \/ /\ ctx = "live"
          /\ resp' = [NoResp EXCEPT !.has = TRUE]
          /\ arrived' \in {"fine", "longCL", "long", "breaks", "switch"}
          /\ open' = open \cup {attempt}
          /\ UNCHANGED failed
    /\ pc' = "applyMaxResponseSize"
    /\ UNCHANGED <<cfg, attempt, ctx, err, canceled, out, outClosed, common>>

applyMaxResponseSize ==
    /\ pc = "applyMaxResponseSize"
    /\ IF resp.Err = "nil" /\ cfg.limit /\ arrived = "longCL"
       THEN /\ resp' = [resp EXCEPT !.Err = "tooLarge"]
            /\ open' = open \ {attempt}
            /\ failed' = TRUE
       ELSE UNCHANGED <<resp, open, failed>>
    /\ pc' = "autoRead"
    /\ UNCHANGED <<cfg, attempt, ctx, err, canceled, arrived, out, outClosed, bodyVars>>

\* What reading this attempt's body to its end may end with: the sticky
\* error of maxResponseBodyReader past the limit, an error of the
\* connection, the end of the context.  An upgraded connection ends in any way.
ReadErrs ==
    {e \in {"nil", "read", "tooLarge"} :
        CASE arrived = "breaks" -> e = "read"
          [] arrived = "switch" -> e = "tooLarge" => cfg.limit
          [] cfg.limit /\ arrived \in {"long", "longCL"} -> e = "tooLarge"
          [] OTHER -> e = "nil"} \cup ({ctx} \ {"live"})

\* Response.ToBytes: reads the body unless it was read or there is an error,
\* closes it and caches what was read.
Unread == resp.Err = "nil" /\ ~resp.cached /\ resp.has

ToBytes ==
    IF Unread THEN {[resp EXCEPT !.Err = e, !.cached = TRUE] : e \in ReadErrs} ELSE {resp}

\* A status of 101 is not above 199: its body is left to the user.
autoRead ==
    /\ pc = "autoRead"
    /\ IF resp.Err = "nil" /\ cfg.auto /\ cfg.save = "no" /\ arrived # "switch"
       THEN resp' \in ToBytes /\ open' = open \ {attempt}
       ELSE UNCHANGED <<resp, open>>
    /\ failed' = (failed \/ resp'.Err # "nil")
    /\ pc' = "parseResponseBody"
    /\ UNCHANGED <<cfg, attempt, ctx, err, canceled, arrived, out, outClosed, bodyVars>>

\* parseResponseBody for a status that has a result object: unmarshalBody.  For
\* defaultResultStateChecker a 101 is no result.
parseResponseBody ==
    /\ pc = "parseResponseBody"
    /\ IF cfg.result /\ resp.has /\ arrived # "switch"
       THEN /\ \E r \in ToBytes :
                 \/ resp' = r
                 \/ r.Err = "nil" /\ resp' = [r EXCEPT !.Err = "unmarshal"]
            /\ open' = IF Unread THEN open \ {attempt} ELSE open
       ELSE UNCHANGED <<resp, open>>
    /\ failed' = (failed \/ resp'.Err # "nil")
    /\ pc' = "handleDownload"
    /\ UNCHANGED <<cfg, attempt, ctx, err, canceled, arrived, out, outClosed, bodyVars>>

\* handleDownload: skipped after an early rejection; a new file replaces the
\* output, a writer gets the body appended and is closed if it can be.
SkipDownload == ~resp.has \/ cfg.save = "no" \/ (resp.Err = "tooLarge" /\ ~resp.cached)

Copy(base) ==
    /\ out' = Append(base, attempt)
    /\ open' = open \ {attempt}
    /\ outClosed' = (cfg.save = "closer")
    /\ \E e \in IF resp.cached THEN {"nil"} ELSE ReadErrs :
          resp' = IF e # "nil" THEN [resp EXCEPT !.Err = e] ELSE resp

\* Mutant: the file is opened for appending.
download_append == cfg.save # "no" /\ Copy(out)

download ==
    \/ cfg.save = "file" /\ Copy(<<>>)
    \/ /\ cfg.save = "file"
       /\ resp' = [resp EXCEPT !.Err = "create"]
       /\ UNCHANGED outVars
    \/ cfg.save \in {"writer", "closer"} /\ ~outClosed /\ Copy(out)
    \/ /\ cfg.save = "closer" /\ outClosed
       /\ open' = open \ {attempt}
       /\ resp' = [resp EXCEPT !.Err = "closed"]
       /\ UNCHANGED <<out, outClosed>>

handleDownload ==
    /\ pc = "handleDownload"
    /\ IF SkipDownload THEN UNCHANGED <<resp, outVars>> ELSE download
    /\ failed' = (failed \/ resp'.Err # "nil")
    /\ err' = resp'.Err
    /\ pc' = "afterResponse"
    /\ UNCHANGED <<cfg, attempt, ctx, canceled, arrived, bodyVars>>

(***************************************************************************)
(* The request's own response middleware: it replaces err.                 *)
(***************************************************************************)
\* Mutant: contextCanceled is computed after the middleware ran.
afterResponse_lateCheck ==
    /\ pc = "afterResponse"
    /\ \E e \in IF cfg.after THEN {"nil", "after"} ELSE {err} :
          /\ canceled' = (e = "canceled")
          /\ failed' = (failed \/ e = "after")
          /\ IF cfg.after /\ e # "nil" THEN Finish(e, resp)
             ELSE err' = e /\ pc' = "decide" /\ UNCHANGED resp
    /\ UNCHANGED <<cfg, attempt, ctx, arrived, outVars, bodyVars>>

afterResponse ==
    /\ pc = "afterResponse"
    /\ canceled' = (err = "canceled")
    /\ \E e \in IF cfg.after THEN {"nil", "after"} ELSE {err} :
          /\ failed' = (failed \/ e = "after")
          /\ IF cfg.after /\ e # "nil" THEN Finish(e, resp)
             ELSE err' = e /\ pc' = "decide" /\ UNCHANGED resp
    /\ UNCHANGED <<cfg, attempt, ctx, arrived, outVars, bodyVars>>

decide ==
    /\ pc = "decide"
    /\ IF canceled THEN Finish(err, resp) /\ UNCHANGED <<attempt, open>>
                   ELSE tryRetry(err, resp)
    /\ UNCHANGED <<cfg, ctx, canceled, arrived, failed, out, outClosed, bodyVars>>

do ==
    \/ udBeforeRequest \/ beforeRequest
    \/ getBodyFails \/ httpClientDo \/ applyMaxResponseSize \/ autoRead
    \/ parseResponseBody \/ handleDownload
    \/ afterResponse \/ decide \/ waitRetryInterval

Next == Do \/ do \/ endContext

Spec == Init /\ [][Next]_vars

----------------------------------------------------------------------------
\* Types, and the budget: RetryAttempt never exceeds MaxRetries.
TypeOK ==
    /\ cfg \in Configs
    /\ attempt \in Nat /\ (cfg.max >= 0 => attempt <= cfg.max)
    /\ ctx \in {"live", "canceled", "deadline"}
    /\ resp.has \in BOOLEAN /\ resp.cached \in BOOLEAN
    /\ open \subseteq 0..attempt
    /\ Len(sent) <= attempt + 1

\* No abandoned response keeps its connection: before a new attempt is sent
\* every earlier body is closed, and when Do returns the only body that may
\* be open is the last one, of a caller who disabled automatic reading, who was
\* given the connection of a 101, or whose output file could not be created
\* (closeRetryResponseBody, ToBytes, applyMaxResponseSize, handleDownload).
NoBodyLeak ==
    /\ pc \in {"udBeforeRequest", "beforeRequest", "roundTrip"} => open = {}
    /\ pc = "return" /\ open # {} =>
         /\ open = {attempt}
         /\ resp.Err = "create" \/ (cfg.save = "no" /\ (~cfg.auto \/ arrived = "switch"))

\* Response.Err is set if and only if a step of the last attempt failed: no
\* failure is lost on the way through middleware, retries and the deferred
\* function of do(), and no error of an abandoned attempt survives it.
ErrReported == pc = "return" => ((resp.Err # "nil") <=> failed)

\* A canceled context stops the retries: at most one more call of
\* httpClient.Do is made after the cancellation (the one a timer that fired
\* at the same moment lets through), even if middleware swallows the error.
CancelStopsRetries == late <= 1

\* A successful download to a file holds the final response and nothing of
\* the attempts before it.
FileIsFinalResponse ==
    pc = "return" /\ resp.Err = "nil" /\ cfg.save = "file" => out = <<attempt>>

\* An upload is complete in every attempt: docs/06 says an unreplayable
\* io.Reader and retries cannot be combined.
BodyReplayed == \A i \in 1..Len(sent) : sent[i].body # "empty"

\* A retry repeats the request: every attempt carries the same cookies, the
\* same form fields and the same body.
SameRequest == \A i \in 1..Len(sent) : sent[i] = sent[1]

\* "Without a custom condition a non-nil error is retried": Do does not give
\* up on a transport error while budget and context are left, unless response
\* middleware of the request cleared the error before the retry decision.
ErrorsRetried ==
    pc = "return" /\ ctx = "live" /\ cfg.retry /\ ~cfg.conds /\ ~cfg.after /\ resp.Err = "transport" =>
        cfg.max >= 0 /\ attempt >= cfg.max
=============================================================================
