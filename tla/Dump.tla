-------------------------------- MODULE Dump --------------------------------
(***************************************************************************)
(* The client-level dump: internal/dump/dump.go (the Dumper: a bounded     *)
(* queue, a goroutine that drains it, Stop), dump.go (options and their    *)
(* fallbacks) and the operations of client.go and transport.go that switch *)
(* dumping on and off, redirect it and clone it.                           *)
(*                                                                         *)
(* Requests run in goroutines of their own: each takes the Dumper of the   *)
(* transport once (GetDumpers) and then hands it pieces with DumpTo, while *)
(* the application reconfigures the client.  A DumpOptions object is held  *)
(* by pointer, by the client and by the Dumper made from it, so it lives   *)
(* in a heap here.  A piece is [by, k, kind]; its bytes are left out.      *)
(***************************************************************************)
EXTENDS Integers, Sequences, FiniteSets

CONSTANTS
  DumpProducers, \* goroutines of requests in flight
  Kinds,         \* parts of a message an option can leave out
  DumpSetups,    \* what the application does: sequences of operations
  QueueCap,      \* capacity of Dumper.ch (20 in the code)
  MaxPieces      \* bound: pieces a request dumps

VARIABLES
  setup,   \* the operations still to come
  heap,    \* Seq of DumpOptions objects: [out, parts, async]
  dumper,  \* Seq of Dumpers: [opt, queue, hand, stop, run]
  client,  \* client -> [dump, opts, closer]: 0 and "none" are nil
  file,    \* file -> "none" | "open" | "flushed" | "cut"
  admin,   \* what the application goroutine is in the middle of
  prod,    \* producer -> [pc, c, dump, parts, k, out, task]
  sink     \* file -> pieces written to it, in order

dumpVars == <<setup, heap, dumper, client, file, admin, prod, sink>>

Clients == {"c1", "c2"}
Files == {"f1", "f2"}
Outs == Files \cup {"nil", "std", "w"}   \* w: a writer the application owns

Free == [pc |-> "free"]

----------------------------------------------------------------------------
(* dump.go: which writer a part goes to.  The per-part writers fall back   *)
(* to Output, and Output to standard output.                               *)

Output(o) == IF heap[o].out = "nil" THEN "std" ELSE heap[o].out

newDefaultDumpOptions == [out |-> "std", parts |-> Kinds, async |-> FALSE]

----------------------------------------------------------------------------
(* The client's operations, each on the state [heap, dumper, client, file] *)

Now == [heap |-> heap, dumper |-> dumper, client |-> client, file |-> file]

Become(s) == /\ heap' = s.heap /\ dumper' = s.dumper
             /\ client' = s.client /\ file' = s.file

getDumpOptions(s, c) ==
  IF s.client[c].opts # 0 THEN s
  ELSE [s EXCEPT !.heap = Append(@, newDefaultDumpOptions),
                 !.client[c].opts = Len(s.heap) + 1]

\* newDumper and StartAsync: an options object without a writer gets one.
EnableDump(s, c) ==
  LET o == s.client[c].opts
  IN [s EXCEPT !.heap[o].out = IF @ = "nil" THEN "std" ELSE @,
               !.dumper = Append(@, [opt |-> o, queue |-> <<>>, hand |-> <<>>,
                                     stop |-> FALSE, run |-> "on"]),
               !.client[c].dump = Len(s.dumper) + 1]

EnableDumpAll(s, c) ==
  IF s.client[c].dump # 0 THEN s ELSE EnableDump(getDumpOptions(s, c), c)

\* The file the client opened is closed and its options forget it.
\* how: "flushed" after Stop, "cut" when the Dumper was left running.
closeDumpOutput(s, c, how) ==
  LET f == s.client[c].closer o == s.client[c].opts
  IN IF f = "none" THEN s
     ELSE [s EXCEPT !.file[f] = how, !.client[c].closer = "none",
                    !.heap = IF o # 0 THEN [@ EXCEPT ![o].out = "nil"] ELSE @]

EnableDumpAllTo(s, c) ==
  LET t == getDumpOptions(closeDumpOutput(s, c, "cut"), c)
  IN EnableDumpAll([t EXCEPT !.heap[t.client[c].opts].out = "w"], c)

\* Its second half, once the old Dumper has stopped.
openDumpFile(s, c, f) ==
  LET t == getDumpOptions(s, c)
  IN EnableDumpAll([t EXCEPT !.heap[t.client[c].opts].out = f,
                             !.file[f] = "open", !.client[c].closer = f], c)

EnableDumpAllAsync(s, c) ==
  LET t == getDumpOptions(s, c)
  IN EnableDumpAll([t EXCEPT !.heap[t.client[c].opts].async = TRUE], c)

\* EnableDumpAllWithoutRequestBody and its siblings, by the parts dropped.
\* Mutant: the option is set on a copy the Dumper does not see.
EnableDumpAllWithout_copy(s, c, ks) ==
  LET t == getDumpOptions(s, c)
      o == t.heap[t.client[c].opts]
  IN EnableDumpAll([t EXCEPT !.heap = Append(@, [o EXCEPT !.parts = @ \ ks]),
                             !.client[c].opts = Len(t.heap) + 1], c)

EnableDumpAllWithout(s, c, ks) ==
  LET t == getDumpOptions(s, c)
  IN EnableDumpAll([t EXCEPT !.heap[t.client[c].opts].parts = @ \ ks], c)

\* opt with or without a writer; the running Dumper takes the new object.
SetCommonDumpOptions(s, c, opt) ==
  LET t == IF opt.out # "nil" THEN closeDumpOutput(s, c, "cut") ELSE s
      o == t.client[c].opts
      out == IF opt.out # "nil" THEN opt.out
             ELSE IF o # 0 THEN t.heap[o].out ELSE "std"
      d == t.client[c].dump
  IN [t EXCEPT !.heap = Append(@, [opt EXCEPT !.out = out]),
               !.client[c].opts = Len(t.heap) + 1,
               !.dumper = IF d # 0 THEN [@ EXCEPT ![d].opt = Len(t.heap) + 1]
                          ELSE @]

\* Client.Clone: Options.Clone gives the copy a Dumper of its own, started,
\* on a copy of the Dumper's options; Client.Clone copies the options again.
Clone(s) ==
  LET d == s.client["c1"].dump o == s.client["c1"].opts
      withD == IF d = 0 THEN s
               ELSE [s EXCEPT !.heap = Append(@, s.heap[s.dumper[d].opt]),
                              !.dumper = Append(@, [opt |-> Len(s.heap) + 1,
                                queue |-> <<>>, hand |-> <<>>, stop |-> FALSE,
                                run |-> "on"])]
      n == Len(withD.heap)
  IN [withD EXCEPT
        !.heap = IF o = 0 THEN @ ELSE Append(@, s.heap[o]),
        !.client["c2"] = [dump |-> IF d = 0 THEN 0 ELSE Len(withD.dumper),
                          opts |-> IF o = 0 THEN 0 ELSE n + 1,
                          closer |-> "none"]]

----------------------------------------------------------------------------
(* The application goroutine                                               *)

op == Head(setup)

\* Operations that do not wait.
Configure ==
  /\ admin = Free /\ setup # <<>> /\ setup' = Tail(setup)
  /\ \/ op[1] = "all" /\ Become(EnableDumpAll(Now, op[2]))
     \/ op[1] = "to" /\ Become(EnableDumpAllTo(Now, op[2]))
     \/ op[1] = "async" /\ Become(EnableDumpAllAsync(Now, op[2]))
     \/ op[1] = "without" /\ Become(EnableDumpAllWithout(Now, op[2], op[3]))
     \/ op[1] = "options" /\ Become(SetCommonDumpOptions(Now, op[2], op[3]))
     \/ op[1] = "clone" /\ Become(Clone(Now))
     \/ /\ op[1] = "file" /\ client[op[2]].dump = 0
        /\ Become(openDumpFile(closeDumpOutput(Now, op[2], "cut"), op[2], op[3]))
  /\ UNCHANGED <<admin, prod, sink>>

\* DisableDump (DisableDumpAll, and EnableDumpAllToFile over a running
\* Dumper): Stop closes stopCh and then waits for the goroutine.
DisableDump ==
  /\ admin = Free /\ setup # <<>> /\ op[1] \in {"disable", "file"}
  /\ LET c == op[2] d == client[c].dump
     IN /\ op[1] = "file" => d # 0
        /\ admin' = [pc |-> "stopping", c |-> c, dump |-> d,
                     next |-> IF op[1] = "file" THEN op[3] ELSE "none"]
        /\ dumper' = IF d = 0 THEN dumper ELSE [dumper EXCEPT ![d].stop = TRUE]
  /\ setup' = Tail(setup)
  /\ UNCHANGED <<heap, client, file, prod, sink>>

\* Mutant: Stop does not wait for the goroutine to finish.
stopDone_now == TRUE

stopDone == admin.dump # 0 => dumper[admin.dump].run = "done"

DisableDumpEnd ==
  /\ admin.pc = "stopping" /\ stopDone
  /\ LET s == closeDumpOutput([Now EXCEPT !.client[admin.c].dump = 0],
                              admin.c, "flushed")
     IN Become(IF admin.next = "none" THEN s
               ELSE openDumpFile(s, admin.c, admin.next))
  /\ admin' = Free
  /\ UNCHANGED <<setup, prod, sink>>

----------------------------------------------------------------------------
(* The Dumper's goroutine: run and write                                   *)

Receive(d) ==
  LET q == dumper[d].queue
  IN /\ dumper[d].run \in {"on", "drain"} /\ dumper[d].hand = <<>> /\ q # <<>>
     /\ dumper' = [dumper EXCEPT ![d].queue = Tail(q), ![d].hand = <<Head(q)>>]
     /\ UNCHANGED <<setup, heap, client, file, admin, prod, sink>>

\* A write to a file that was closed fails and the error is dropped.
Written(t) == IF t.out \in Files /\ file[t.out] = "open"
              THEN [sink EXCEPT ![t.out] = Append(@, t.piece)] ELSE sink

Write(d) ==
  /\ dumper[d].hand # <<>>
  /\ sink' = Written(dumper[d].hand[1])
  /\ dumper' = [dumper EXCEPT ![d].hand = <<>>]
  /\ UNCHANGED <<setup, heap, client, file, admin, prod>>

\* The select saw stopCh: what is queued is drained, then doneCh is closed.
SeeStop(d) ==
  /\ dumper[d].stop /\ dumper[d].hand = <<>>
  /\ \/ dumper[d].run = "on" /\ dumper' = [dumper EXCEPT ![d].run = "drain"]
     \/ /\ dumper[d].run = "drain" /\ dumper[d].queue = <<>>
        /\ dumper' = [dumper EXCEPT ![d].run = "done"]
  /\ UNCHANGED <<setup, heap, client, file, admin, prod, sink>>

----------------------------------------------------------------------------
(* A request: GetDumpers and the wrapping by part, then DumpTo per piece   *)

Begin(p) ==
  /\ prod[p].pc = "new"
  /\ \E c \in Clients, kind \in Kinds :
       LET d == client[c].dump
       IN /\ d # 0 /\ kind \in heap[dumper[d].opt].parts
          /\ prod' = [prod EXCEPT ![p] = [pc |-> "run", c |-> c, dump |-> d,
                                          kind |-> kind, k |-> 0]]
  /\ UNCHANGED <<setup, heap, dumper, client, file, admin, sink>>

\* DumpTo: the writer and Async are read first.
DumpTo(p) ==
  LET o == dumper[prod[p].dump].opt
  IN /\ prod[p].pc = "run" /\ prod[p].k < MaxPieces
     /\ prod' = [prod EXCEPT ![p] = [pc |-> IF heap[o].async THEN "send"
                                            ELSE "write",
                   c |-> @.c, dump |-> @.dump, kind |-> @.kind, k |-> @.k + 1,
                   task |-> [out |-> Output(o), late |-> FALSE,
                             piece |-> <<p, @.k + 1>>]]]
     /\ UNCHANGED <<setup, heap, dumper, client, file, admin, sink>>

Back(p) == prod' = [prod EXCEPT ![p] = [pc |-> "run", c |-> @.c,
                      dump |-> @.dump, kind |-> @.kind, k |-> @.k]]

\* The select of DumpTo: room in the queue, or the Dumper was stopped.
Send(p) ==
  LET d == prod[p].dump
  IN /\ prod[p].pc = "send" /\ Back(p)
     /\ \/ /\ Len(dumper[d].queue) < QueueCap
           /\ dumper' = [dumper EXCEPT ![d].queue =
                Append(@, [prod[p].task EXCEPT !.late = dumper[d].stop])]
        \/ dumper[d].stop /\ UNCHANGED dumper
     /\ UNCHANGED <<setup, heap, client, file, admin, sink>>

WriteSync(p) ==
  /\ prod[p].pc = "write" /\ Back(p)
  /\ sink' = Written(prod[p].task)
  /\ UNCHANGED <<setup, heap, dumper, client, file, admin>>

----------------------------------------------------------------------------
Init ==
  /\ setup \in DumpSetups
  /\ heap = <<>> /\ dumper = <<>> /\ admin = Free
  /\ client = [c \in Clients |-> [dump |-> 0, opts |-> 0, closer |-> "none"]]
  /\ file = [f \in Files |-> "none"]
  /\ prod = [p \in DumpProducers |-> [pc |-> "new"]]
  /\ sink = [f \in Files |-> <<>>]

Next ==
  \/ Configure \/ DisableDump \/ DisableDumpEnd
  \/ \E d \in 1..Len(dumper) : Receive(d) \/ Write(d) \/ SeeStop(d)
  \/ \E p \in DumpProducers : Begin(p) \/ DumpTo(p) \/ Send(p) \/ WriteSync(p)

Spec == Init /\ [][Next]_dumpVars

----------------------------------------------------------------------------
(* Properties                                                              *)

\* Switching the dump off loses nothing that was dumped before: when
\* DisableDump has closed the dump file, every piece the Dumper accepted for
\* it before Stop closed stopCh has been written (Stop drains the queue and
\* waits for doneCh before closeDumpOutput runs).
DisableFlushes ==
  \A d \in 1..Len(dumper) :
    LET held == {dumper[d].queue[i] : i \in 1..Len(dumper[d].queue)}
                  \cup {dumper[d].hand[i] : i \in 1..Len(dumper[d].hand)}
    IN \A t \in held :
         t.out \in Files /\ file[t.out] = "flushed" => t.late

\* The setters act on a Dumper that is already running (EnableDumpAll
\* returns early, "dump already started"): between operations the running
\* Dumper of a client that was not cloned works with the client's own
\* options object, whatever was set, redirected or switched before.
SettersReachDumper ==
  client["c1"].dump # 0 =>
    dumper[client["c1"].dump].opt = client["c1"].opts
=============================================================================
