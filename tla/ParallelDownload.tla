-------------------------- MODULE ParallelDownload --------------------------
(***************************************************************************)
(* Parallel ranged download (parallel_download.go): Do splits the resource *)
(* into segments and hands them over taskCh to a pool of workers; a worker *)
(* saves its segment in a temporary file and announces it in taskMap and   *)
(* on taskNotifyCh; one merger goroutine copies the segments in order to   *)
(* the output; a WaitGroup and its waiter tell Do that all are finished;   *)
(* doneCh stops everybody.  A segment's contents are its byte range.       *)
(***************************************************************************)
EXTENDS Integers, Sequences, FiniteSets

CONSTANTS Concurrency,      \* number of workers and capacity of taskNotifyCh
          SegmentSize,      \* bytes per ranged request
          ContentLengths,   \* what the HEAD response may say
          Failures          \* the calls that may fail (see MayFail)

VARIABLES
    size,       \* resp.ContentLength of the HEAD response
    main,       \* where Do is
    start,      \* Do: first byte of the next segment
    next,       \* Do: index of the next segment
    result,     \* what Do returns: "none" as long as it is undecided
    pc,         \* where each goroutine is; 0 is the merger
    task,       \* the task a worker has, the segment the merger is at
    taskMap,    \* completed tasks not yet taken by the merger
    notify,     \* taskNotifyCh
    errCh,      \* errCh, capacity 1: holds an error or not
    done,       \* doneCh is closed
    wg,         \* counter of the WaitGroup
    waiter,     \* the goroutine blocked in wg.Wait; "closed": wgDoneCh is
    panicked,   \* the WaitGroup detected its misuse: the program is gone
    files,      \* temporary files, by segment index
    tempDir,    \* the temporary directory exists
    cleaned,    \* cleanupOnce is spent
    output,     \* ranges written to the output, in order
    reported    \* history: some goroutine called reportError

doVars == <<size, main, start, next, result>>
chanVars == <<taskMap, notify, errCh, done>>
wgVars == <<wg, waiter, panicked>>
diskVars == <<files, tempDir, cleaned, output>>
vars == <<doVars, pc, task, chanVars, wgVars, diskVars, reported>>

Workers == 1..Concurrency
Merger == 0
NoTask == [index |-> -1, first |-> -1, last |-> -1]

\* What can go wrong outside: the HEAD or a GET request fails (canceled
\* context included), a file cannot be created, written or removed.
MayFail(call) == call \in Failures

\* int(math.Ceil(float64(ContentLength)/float64(segmentSize))) - 1
lastIndex == (size + SegmentSize - 1) \div SegmentSize - 1

Init ==
    /\ size \in ContentLengths
    /\ main = "head" /\ start = 0 /\ next = 0 /\ result = "none"
    /\ pc = [g \in Workers \cup {Merger} |-> IF g = Merger THEN "none" ELSE "idle"]
    /\ task = [g \in Workers \cup {Merger} |-> NoTask]
    /\ taskMap = {} /\ notify = <<>> /\ errCh = FALSE /\ done = FALSE
    /\ wg = 0 /\ waiter = "none" /\ panicked = FALSE
    /\ files = {} /\ tempDir = TRUE /\ cleaned = FALSE /\ output = <<>>
    /\ reported = FALSE

Goto(g, l) == pc' = [pc EXCEPT ![g] = l]

(***************************************************************************)
(* reportError: offer the error to errCh (full: dropped), then stop().     *)
(***************************************************************************)
reportError(g) ==
    /\ errCh' = TRUE
    /\ reported' = TRUE
    /\ Goto(g, "stop")
    /\ UNCHANGED <<doVars, task, taskMap, notify, done, wgVars, diskVars>>

stop(g) ==
    /\ pc[g] = "stop"
    /\ done' = TRUE
    /\ Goto(g, "leave")
    /\ UNCHANGED <<doVars, task, taskMap, notify, errCh, wgVars, diskVars, reported>>

\* The deferred wg.Done: the last one wakes the goroutine in wg.Wait.
wgDone(g) ==
    /\ pc[g] = "leave"
    /\ wg' = wg - 1
    /\ waiter' = IF wg = 1 /\ waiter = "waiting" THEN "woken" ELSE waiter
    /\ Goto(g, IF g = Merger THEN "exit" ELSE "idle")
    /\ UNCHANGED <<doVars, task, chanVars, panicked, diskVars, reported>>

(***************************************************************************)
(* A worker: startWorker and handleTask.                                   *)
(***************************************************************************)
workerExit(w) ==
    /\ pc[w] = "idle" /\ done
    /\ Goto(w, "exit")
    /\ UNCHANGED <<doVars, task, chanVars, wgVars, diskVars, reported>>

\* Mutant: handleTask forgets wg.Add.
wgAdd_missing(w) ==
    /\ pc[w] = "add"
    /\ Goto(w, "open")
    /\ UNCHANGED <<doVars, task, chanVars, wgVars, diskVars, reported>>

wgAdd(w) ==
    /\ pc[w] = "add"
    /\ wg' = wg + 1
    /\ Goto(w, "open")
    /\ UNCHANGED <<doVars, task, chanVars, waiter, panicked, diskVars, reported>>

openTemp(w) ==
    /\ pc[w] = "open"
    /\ \/ /\ tempDir
          /\ files' = files \cup {task[w].index}
          /\ Goto(w, "get")
          /\ UNCHANGED <<doVars, task, chanVars, wgVars, tempDir, cleaned, output, reported>>
       \/ /\ ~tempDir \/ MayFail("open")
          /\ reportError(w)

getRange(w) ==
    /\ pc[w] = "get"
    /\ \/ /\ Goto(w, "store")
          /\ UNCHANGED <<doVars, task, chanVars, wgVars, diskVars, reported>>
       \/ MayFail("get") /\ reportError(w)

completeTask(w) ==
    /\ pc[w] = "store"
    /\ taskMap' = taskMap \cup {task[w]}
    /\ Goto(w, "notify")
    /\ UNCHANGED <<doVars, task, notify, errCh, done, wgVars, diskVars, reported>>

completeNotify(w) ==
    /\ pc[w] = "notify"
    /\ \/ /\ Len(notify) < Concurrency
          /\ notify' = Append(notify, task[w])
       \/ done /\ UNCHANGED notify
    /\ Goto(w, "leave")
    /\ UNCHANGED <<doVars, task, taskMap, errCh, done, wgVars, diskVars, reported>>

handleTask(w) ==
    wgAdd(w) \/ openTemp(w) \/ getRange(w) \/ completeTask(w) \/ completeNotify(w)

(***************************************************************************)
(* The merger: mergeFile and popTask.                                      *)
(***************************************************************************)
getOutputFile ==
    /\ pc[Merger] = "output"
    /\ \/ /\ Goto(Merger, "pop")
          /\ UNCHANGED <<doVars, task, chanVars, wgVars, diskVars, reported>>
       \/ MayFail("output") /\ reportError(Merger)

\* Mutant: popTask relies on the notifications alone.
popTask_lossy ==
    /\ pc[Merger] = "pop"
    /\ Goto(Merger, "wait")
    /\ UNCHANGED <<doVars, task, chanVars, wgVars, diskVars, reported>>

popTask ==
    /\ pc[Merger] = "pop"
    /\ LET found == {t \in taskMap : t.index = Len(output)} IN
       IF found # {}
       THEN /\ taskMap' = taskMap \ found
            /\ task' = [task EXCEPT ![Merger] = CHOOSE t \in found : TRUE]
            /\ Goto(Merger, "copy")
       ELSE Goto(Merger, "wait") /\ UNCHANGED <<taskMap, task>>
    /\ UNCHANGED <<doVars, notify, errCh, done, wgVars, diskVars, reported>>

\* Mutant: the merger takes whatever segment is announced.
popNotified_anyOrder ==
    /\ pc[Merger] = "wait" /\ notify # <<>>
    /\ notify' = Tail(notify)
    /\ taskMap' = taskMap \ {Head(notify)}
    /\ task' = [task EXCEPT ![Merger] = Head(notify)]
    /\ Goto(Merger, "copy")
    /\ UNCHANGED <<doVars, errCh, done, wgVars, diskVars, reported>>

popNotified ==
    /\ pc[Merger] = "wait" /\ notify # <<>>
    /\ notify' = Tail(notify)
    /\ IF Head(notify).index = Len(output)
       THEN /\ taskMap' = taskMap \ {Head(notify)}
            /\ task' = [task EXCEPT ![Merger] = Head(notify)]
            /\ Goto(Merger, "copy")
       ELSE UNCHANGED <<taskMap, task, pc>>
    /\ UNCHANGED <<doVars, errCh, done, wgVars, diskVars, reported>>

popStopped ==
    /\ pc[Merger] = "wait" /\ done
    /\ Goto(Merger, "leave")
    /\ UNCHANGED <<doVars, task, chanVars, wgVars, diskVars, reported>>

copySegment ==
    /\ pc[Merger] = "copy"
    /\ \/ /\ task[Merger].index \in files
          /\ output' = Append(output, task[Merger])
          /\ Goto(Merger, IF Len(output) < lastIndex THEN "pop" ELSE "cleanup")
          /\ UNCHANGED <<doVars, task, chanVars, wgVars, files, tempDir, cleaned, reported>>
       \/ /\ task[Merger].index \notin files \/ MayFail("copy")
          /\ reportError(Merger)

\* cleanupTempDir: the first caller removes the directory, the others wait
\* for it and see its error.
cleanupTempDir ==
    /\ cleaned' = TRUE
    /\ IF cleaned \/ ~tempDir THEN UNCHANGED <<files, tempDir>>
       ELSE \/ files' = {} /\ tempDir' = FALSE
            \/ MayFail("cleanup") /\ UNCHANGED <<files, tempDir>>
    /\ UNCHANGED output

mergeCleanup ==
    /\ pc[Merger] = "cleanup"
    /\ cleanupTempDir
    /\ IF tempDir'
       THEN errCh' = TRUE /\ reported' = TRUE /\ Goto(Merger, "stop")
       ELSE Goto(Merger, "leave") /\ UNCHANGED <<errCh, reported>>
    /\ UNCHANGED <<doVars, task, taskMap, notify, done, wgVars>>

mergeFile == getOutputFile \/ popTask \/ popNotified \/ popStopped \/ copySegment \/ mergeCleanup

(***************************************************************************)
(* The goroutine in wg.Wait.  Add between its wake-up and its return is    *)
(* the misuse for which WaitGroup panics.                                  *)
(***************************************************************************)
wgWait ==
    \/ /\ waiter = "start"
       /\ waiter' = IF wg = 0 THEN "closed" ELSE "waiting"
       /\ UNCHANGED <<doVars, pc, task, chanVars, wg, panicked, diskVars, reported>>
    \/ /\ waiter = "woken"
       /\ waiter' = "closed"
       /\ panicked' = (wg # 0)
       /\ UNCHANGED <<doVars, pc, task, chanVars, wg, diskVars, reported>>

(***************************************************************************)
(* Do.                                                                     *)
(***************************************************************************)
Return(r) == result' = r /\ main' = "defer"

doHead ==
    /\ main = "head"
    /\ \/ /\ size > 0
          /\ main' = "send"
          /\ wg' = wg + 1
          /\ Goto(Merger, "output")
          /\ waiter' = "start"
          /\ UNCHANGED result
       \/ /\ size <= 0 \/ MayFail("head")
          /\ Return("error")
          /\ UNCHANGED <<wg, pc, waiter>>
    /\ UNCHANGED <<size, start, next, task, chanVars, panicked, diskVars, reported>>

\* end := start + (segmentSize - 1), no further than the last byte
SegmentEnd == IF start + SegmentSize - 1 > size - 1 THEN size - 1 ELSE start + SegmentSize - 1

doSend ==
    /\ main = "send"
    /\ \E w \in Workers :
          /\ pc[w] = "idle"
          /\ task' = [task EXCEPT ![w] = [index |-> next, first |-> start, last |-> SegmentEnd]]
          /\ Goto(w, "add")
    /\ next' = next + 1
    /\ IF SegmentEnd < size - 1 THEN start' = SegmentEnd + 1 /\ UNCHANGED main
                                ELSE main' = "wait" /\ UNCHANGED start
    /\ UNCHANGED <<size, result, chanVars, wgVars, diskVars, reported>>

\* errOrCanceled
doStopped ==
    /\ main = "send" /\ done
    /\ Return(IF errCh THEN "error" ELSE "canceled")
    /\ errCh' = FALSE
    /\ UNCHANGED <<size, start, next, pc, task, taskMap, notify, done, wgVars, diskVars, reported>>

\* Mutant: Do does not look at errCh once wgDoneCh is closed.
doWgDone_ignoreErr ==
    /\ main = "wait" /\ waiter = "closed"
    /\ Return("nil")
    /\ UNCHANGED <<size, start, next, pc, task, chanVars, wgVars, diskVars, reported>>

doWgDone ==
    /\ main = "wait" /\ waiter = "closed"
    /\ Return(IF errCh THEN "error" ELSE "nil")
    /\ errCh' = FALSE
    /\ UNCHANGED <<size, start, next, pc, task, taskMap, notify, done, wgVars, diskVars, reported>>

doError ==
    /\ main = "wait" /\ errCh
    /\ errCh' = FALSE
    /\ main' = "await"
    /\ done' = TRUE
    /\ UNCHANGED <<size, start, next, result, pc, task, taskMap, notify, wgVars, diskVars, reported>>

doAwait ==
    /\ main = "await" /\ waiter = "closed"
    /\ Return("error")
    /\ UNCHANGED <<size, start, next, pc, task, chanVars, wgVars, diskVars, reported>>

\* Mutant: the deferred stop() is missing.
doDefer_noStop ==
    /\ main = "defer"
    /\ main' = "cleanup"
    /\ UNCHANGED <<size, start, next, result, pc, task, chanVars, wgVars, diskVars, reported>>

\* The deferred calls: stop(), then cleanupTempDir().
doDefer ==
    /\ main = "defer"
    /\ done' = TRUE
    /\ main' = "cleanup"
    /\ UNCHANGED <<size, start, next, result, pc, task, taskMap, notify, errCh, wgVars, diskVars, reported>>

doCleanup ==
    /\ main = "cleanup"
    /\ cleanupTempDir
    /\ main' = "return"
    /\ UNCHANGED <<size, start, next, result, pc, task, chanVars, wgVars, reported>>

Do == doHead \/ doSend \/ doStopped \/ doWgDone \/ doError \/ doAwait \/ doDefer \/ doCleanup

Goroutine(g) ==
    \/ stop(g) \/ wgDone(g)
    \/ g = Merger /\ mergeFile
    \/ g \in Workers /\ (workerExit(g) \/ handleTask(g))

Next == ~panicked /\ (Do \/ wgWait \/ \E g \in Workers \cup {Merger} : Goroutine(g))

Spec == Init /\ [][Next]_vars

\* Every goroutine keeps running: requests and file operations end, because
\* the client has a timeout and the caller's context.
Fairness ==
    /\ WF_vars(~panicked /\ Do)
    /\ WF_vars(~panicked /\ wgWait)
    /\ \A g \in Workers \cup {Merger} : WF_vars(~panicked /\ Goroutine(g))

FairSpec == Spec /\ Fairness

----------------------------------------------------------------------------
Tasks == [index : Nat, first : Nat, last : Nat]

\* Types of the state: the segments in flight are real segments, the queue
\* respects its capacity and the WaitGroup counter never goes negative.
TypeOK ==
    /\ main \in {"head", "send", "wait", "await", "defer", "cleanup", "return"}
    /\ result \in {"none", "nil", "error", "canceled"}
    /\ pc \in [Workers \cup {Merger} -> {"none", "idle", "add", "open", "get", "store", "notify",
                 "output", "pop", "wait", "copy", "cleanup", "stop", "leave", "exit"}]
    /\ task \in [Workers \cup {Merger} -> Tasks \cup {NoTask}]
    /\ taskMap \subseteq Tasks
    /\ notify \in Seq(Tasks) /\ Len(notify) <= Concurrency
    /\ output \in Seq(Tasks)
    /\ wg \in 0..(Concurrency + 1)
    /\ {errCh, done, panicked, tempDir, cleaned, reported} \subseteq BOOLEAN

\* Do returns nil only when the output is the whole resource: its ranges
\* follow one another from the first byte to the last, whatever order the
\* workers finished in (splitting in Do, popTask and mergeFile together).
CompleteOnSuccess ==
    result = "nil" =>
        /\ output # <<>>
        /\ output[1].first = 0
        /\ output[Len(output)].last = size - 1
        /\ \A i \in 1..(Len(output) - 1) : output[i + 1].first = output[i].last + 1

\* No failure is swallowed: once a goroutine has reported an error Do does
\* not return nil, although errCh holds one error only and Do may take the
\* wgDoneCh case first.
NoSilentFailure == reported => result # "nil"

\* What must hold in the end.  Do has returned, whatever failed, as long as
\* taskNotifyCh has room for every segment; and when it has, the workers and
\* the merger have ended and the temporary directory is gone (unless removing
\* it failed): the goroutines Do started do not leak, which
\* TestParallelDownloadClosesWorkersOnBadContentLength tests for one early
\* return.
Ended ==
    \/ panicked
    \/ /\ lastIndex < Concurrency => main = "return"
       /\ main = "return" => /\ \A g \in Workers \cup {Merger} : pc[g] \in {"none", "exit"}
                             /\ ~tempDir \/ MayFail("cleanup")

\* Do ends: "Do downloads the resource with ranged requests, merges the
\* segments, and honors an optional context".
DoReturns == <>(main = "return" \/ panicked)

\* No call of Do ends in the panic of a misused WaitGroup.
NoWaitGroupMisuse == ~panicked
=============================================================================
