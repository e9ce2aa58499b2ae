--------------------------- MODULE DownloadProofs ---------------------------
(***************************************************************************)
(* Theorems about ParallelDownload: what Do returns, for every size of the *)
(* resource, every segment size and any number of workers.                 *)
(***************************************************************************)
EXTENDS Protocols, SequencesExt, FiniteSetTheorems, SequenceTheorems, TLAPS

-----------------------------------------------------------------------------
(* ParallelDownload.Do: the segments, the WaitGroup and the errors.        *)

\* The variables of ParallelDownload in the composition.
size     == v1
main     == v2
start    == v3
next     == v4
result   == v5
pc       == v6
task     == v7
taskMap  == v8
notify   == v9
errCh    == v10
done     == v11
wg       == v12
waiter   == v13
panicked == v14
files    == v15
tempDir  == v16
cleaned  == v17
output   == v18
reported == v19
USE DEF size, main, start, next, result, pc, task, taskMap, notify, errCh, done, wg, waiter,
    panicked, files, tempDir, cleaned, output, reported

Goroutines == 0 .. Concurrency
WorkerAt == {"idle", "add", "open", "get", "store", "notify", "stop", "leave", "exit"}
MergerAt == {"none", "output", "pop", "wait", "copy", "cleanup", "stop", "leave", "exit"}

DownloadTyped ==
    /\ main \in {"head", "send", "wait", "await", "defer", "cleanup", "return"}
    /\ result \in {"none", "nil", "error", "canceled"}
    /\ pc \in [Goroutines -> WorkerAt \cup MergerAt]
    /\ pc[0] \in MergerAt /\ \A w \in 1 .. Concurrency : pc[w] \in WorkerAt
    /\ task \in [Goroutines -> Download!Tasks \cup {Download!NoTask}]
    /\ taskMap \subseteq Download!Tasks
    /\ notify \in Seq(Download!Tasks) /\ Len(notify) <= Concurrency
    /\ output \in Seq(Download!Tasks)
    /\ errCh \in BOOLEAN /\ done \in BOOLEAN /\ panicked \in BOOLEAN
    /\ tempDir \in BOOLEAN /\ cleaned \in BOOLEAN /\ reported \in BOOLEAN

\* The first byte of segment k, and the segment.
Off(k) == k * SegmentSize
Segment(k) ==
    [index |-> k, first |-> Off(k),
     last |-> IF Off(k + 1) - 1 > size - 1 THEN size - 1 ELSE Off(k + 1) - 1]

\* The resource is cut into equal segments, and no segment starts behind its end.
Splitting ==
    /\ size \in Int /\ start \in Int /\ next \in Nat
    /\ main = "head" => next = 0 /\ start = 0
    /\ main = "send" => size > 0 /\ start = Off(next) /\ Off(next) < size
    /\ next > 0 => size > 0 /\ Off(next - 1) < size

IsSegment(t) == t.index \in 0 .. next - 1 /\ t = Segment(t.index)

Unstored == {"add", "open", "get", "store"}

\* Every task is a segment that Do has cut; the output is the first of them, in order.
SegmentsKnown ==
    /\ \A w \in 1 .. Concurrency : pc[w] \in Unstored \cup {"notify"} => IsSegment(task[w])
    /\ \A t \in taskMap : IsSegment(t)
    /\ \A i \in 1 .. Len(notify) : IsSegment(notify[i])
    /\ pc[0] = "copy" => IsSegment(task[0]) /\ task[0].index = Len(output)
    /\ Len(output) <= next /\ \A i \in 1 .. Len(output) : output[i] = Segment(i - 1)

\* The segment of worker w is not merged, stored, notified or with anybody else.
Alone(w) ==
    /\ task[w].index >= Len(output)
    /\ pc[0] = "copy" => task[0].index # task[w].index
    /\ \A t \in taskMap : t.index # task[w].index
    /\ \A i \in 1 .. Len(notify) : notify[i].index # task[w].index
    /\ \A v \in 1 .. Concurrency :
          v # w /\ pc[v] \in Unstored \cup {"notify"} => task[v].index # task[w].index

\* A segment that its worker has not stored is nowhere else.
UnstoredAlone == \A w \in 1 .. Concurrency : pc[w] \in Unstored => Alone(w)

Complete == Len(output) = Download!lastIndex + 1

\* The merger ends with the whole output unless somebody reported an error or
\* Do has its result; wgDoneCh is closed only after it has ended.
Merging ==
    /\ pc[0] = "none" <=> waiter = "none"
    /\ pc[0] # "none" => size > 0
    /\ main = "head" => pc[0] = "none"
    /\ waiter \in {"woken", "closed"} => pc[0] = "exit"
    /\ pc[0] = "cleanup" => Complete
    /\ pc[0] \in {"leave", "exit"} /\ ~reported /\ main \in {"send", "wait"} => Complete
    /\ done => reported \/ main \in {"cleanup", "return"}
    /\ \A g \in Goroutines : pc[g] = "stop" => reported

\* An error that was reported is in errCh until Do takes it.
ErrorsKept ==
    /\ reported /\ main \in {"head", "send", "wait"} => errCh
    /\ errCh => reported
    /\ main \in {"head", "send", "wait", "await"} => result = "none"
    /\ result = "nil" => ~reported /\ pc[0] = "exit" /\ Complete

\* The goroutines that will call wg.Done.
Counting == {"open", "get", "store", "notify", "output", "pop", "wait", "copy", "cleanup", "stop", "leave"}
Owing == {g \in Goroutines : pc[g] \in Counting}
WgCounts == wg = Cardinality(Owing)

DownloadInv ==
    /\ DownloadTyped /\ Splitting /\ SegmentsKnown /\ UnstoredAlone
    /\ Merging /\ ErrorsKept /\ WgCounts

-----------------------------------------------------------------------------
(* Segments.                                                               *)

LEMMA Offsets ==
  ASSUME DownloadConstants
  PROVE  /\ Off(0) = 0
         /\ \A k \in Int : Off(k) \in Int /\ Off(k + 1) = Off(k) + SegmentSize
         /\ \A j, k \in Int : j <= k => Off(j) <= Off(k)
         /\ \A j \in Nat : Off(j) \in Nat
<1>1. SegmentSize \in Nat /\ SegmentSize > 0
  BY DEF DownloadConstants
<1>2. Off(0) = 0
  BY <1>1 DEF Off
<1>3. ASSUME NEW k \in Int PROVE Off(k) \in Int /\ Off(k + 1) = Off(k) + SegmentSize
  BY <1>1 DEF Off
<1>4. ASSUME NEW j \in Int, NEW k \in Int, j <= k PROVE Off(j) <= Off(k)
  <2>1. Off(k) - Off(j) = (k - j) * SegmentSize /\ k - j >= 0 /\ k - j \in Int
    BY <1>1, <1>4 DEF Off
  <2>2. (k - j) * SegmentSize >= 0
    BY <1>1, <2>1
  <2>. QED  BY <1>3, <2>1, <2>2
<1>5. ASSUME NEW j \in Nat PROVE Off(j) \in Nat
  BY <1>2, <1>3, <1>4
<1>. QED  BY <1>2, <1>3, <1>4, <1>5

\* lastIndex is the index of the segment with the last byte.
LEMMA LastSegment ==
  ASSUME DownloadConstants, size \in Int, size > 0
  PROVE  /\ Download!lastIndex \in Nat
         /\ Off(Download!lastIndex) < size /\ size <= Off(Download!lastIndex + 1)
<1>. DEFINE a == size + SegmentSize - 1
            q == a \div SegmentSize
<1>1. SegmentSize \in Nat /\ SegmentSize > 0 /\ a \in Nat /\ a >= SegmentSize
  BY DEF DownloadConstants
<1>2. q \in Int /\ q * SegmentSize <= a /\ a < q * SegmentSize + SegmentSize
  <2>. HIDE DEF a
  <2>. QED  BY <1>1
<1>3. q >= 1
  <2>. HIDE DEF a, q
  <2>1. q * SegmentSize > 0
    BY <1>1, <1>2
  <2>2. ASSUME q <= 0 PROVE q * SegmentSize <= 0
    BY <1>1, <1>2, <2>2
  <2>3. q * SegmentSize \in Int
    BY <1>1, <1>2
  <2>4. ~(q <= 0)
    BY <2>1, <2>2, <2>3
  <2>. QED  BY <1>2, <2>4
<1>4. Download!lastIndex = q - 1
  BY DEF Download!lastIndex
<1>5. Off(q) = q * SegmentSize
  BY DEF Off
<1>6. Off(q) = Off(q - 1) + SegmentSize /\ Off(q) \in Int /\ Off(q - 1) \in Int
  <2>. HIDE DEF q
  <2>1. q - 1 \in Int /\ (q - 1) + 1 = q
    BY <1>2
  <2>. QED  BY <1>2, <2>1, Offsets
<1>7. Download!lastIndex + 1 = q /\ Download!lastIndex \in Nat
  <2>. HIDE DEF q
  <2>. QED  BY <1>2, <1>3, <1>4
<1>8. Off(q - 1) < size /\ size <= Off(q)
  <2>1. Off(q) <= size + SegmentSize - 1 /\ size + SegmentSize - 1 < Off(q) + SegmentSize
    BY <1>2, <1>5
  <2>. HIDE DEF a, q
  <2>. QED  BY <1>1, <1>6, <2>1
<1>. HIDE DEF q
<1>. QED  BY <1>4, <1>7, <1>8

\* No segment is cut after the last one.
LEMMA SegmentsBounded ==
  ASSUME DownloadConstants, Splitting, NEW k \in 0 .. next - 1
  PROVE  k <= Download!lastIndex /\ next <= Download!lastIndex + 1 /\ size > 0
<1>1. next \in Nat /\ next > 0 /\ size \in Int /\ size > 0 /\ Off(next - 1) < size
  BY DEF Splitting
<1>2. Download!lastIndex \in Nat /\ size <= Off(Download!lastIndex + 1)
  BY <1>1, LastSegment
<1>3. ASSUME next - 1 >= Download!lastIndex + 1 PROVE FALSE
  <2>1. Off(Download!lastIndex + 1) <= Off(next - 1) /\ Off(next - 1) \in Int /\ Off(Download!lastIndex + 1) \in Int
    BY <1>1, <1>2, <1>3, Offsets
  <2>. QED  BY <1>1, <1>2, <2>1
<1>. QED  BY <1>1, <1>2, <1>3

LEMMA SegmentTyped ==
  ASSUME DownloadConstants, size \in Int, size > 0, NEW k \in Nat
  PROVE  Segment(k) \in Download!Tasks /\ Segment(k).index = k
<1>1. Off(k) \in Nat /\ Off(k + 1) \in Nat /\ Off(k + 1) = Off(k) + SegmentSize
  BY Offsets
<1>2. SegmentSize \in Nat /\ SegmentSize > 0
  BY DEF DownloadConstants
<1>3. (IF Off(k + 1) - 1 > size - 1 THEN size - 1 ELSE Off(k + 1) - 1) \in Nat
  BY <1>1, <1>2
<1>. QED  BY <1>1, <1>3 DEF Segment, Download!Tasks

\* A whole output is the whole resource.
LEMMA CompleteIsWhole ==
  ASSUME DownloadConstants, DownloadInv, Complete, Len(output) > 0
  PROVE  /\ output # <<>> /\ output[1].first = 0 /\ output[Len(output)].last = size - 1
         /\ \A i \in 1 .. (Len(output) - 1) : output[i + 1].first = output[i].last + 1
<1>. DEFINE n == Len(output)
<1>0. /\ output \in Seq(Download!Tasks) /\ n \in Nat /\ n > 0 /\ next \in Nat /\ n <= next /\ size \in Int
      /\ \A i \in 1 .. n : output[i] = Segment(i - 1)
  BY DEF DownloadInv, DownloadTyped, SegmentsKnown, Splitting
<1>1. size > 0 /\ Download!lastIndex = n - 1
  <2>1. size > 0
    BY <1>0 DEF DownloadInv, Splitting
  <2>2. Download!lastIndex \in Nat
    BY <1>0, <2>1, LastSegment
  <2>. QED  BY <1>0, <2>1, <2>2 DEF Complete
<1>2. Off(n - 1) < size /\ size <= Off(n)
  <2>1. Off(Download!lastIndex) < size /\ size <= Off(Download!lastIndex + 1) /\ Download!lastIndex \in Nat
    BY <1>0, <1>1, LastSegment
  <2>2. Download!lastIndex + 1 = n
    BY <1>0, <1>1
  <2>. QED  BY <1>1, <2>1, <2>2
<1>3. \A i \in 1 .. n : /\ output[i].first = Off(i - 1) /\ Off(i) \in Int
                        /\ output[i].last = IF Off(i) - 1 > size - 1 THEN size - 1 ELSE Off(i) - 1
  <2>. SUFFICES ASSUME NEW i \in 1 .. n
                PROVE  /\ output[i].first = Off(i - 1) /\ Off(i) \in Int
                       /\ output[i].last = IF Off(i) - 1 > size - 1 THEN size - 1 ELSE Off(i) - 1
    OBVIOUS
  <2>1. (i - 1) + 1 = i /\ i \in Int
    BY <1>0
  <2>2. Off(i) \in Int
    BY <2>1, Offsets
  <2>3. Off((i - 1) + 1) = Off(i)
    BY <2>1
  <2>4. output[i] = Segment(i - 1)
    BY <1>0
  <2>. QED  BY <2>2, <2>3, <2>4 DEF Segment
<1>. HIDE DEF n
<1>4. output[n].last = size - 1
  <2>1. n \in 1 .. n
    BY <1>0
  <2>. QED  BY <1>0, <1>2, <1>3, <2>1
<1>5. output[1].first = 0
  <2>1. 1 \in 1 .. n /\ 1 - 1 = 0
    BY <1>0
  <2>. QED  BY <1>3, <2>1, Offsets
<1>6. ASSUME NEW i \in 1 .. (n - 1) PROVE output[i + 1].first = output[i].last + 1
  <2>1. i \in 1 .. n /\ i + 1 \in 1 .. n /\ (i + 1) - 1 = i /\ i \in Int /\ n - 1 \in Int /\ i <= n - 1
    BY <1>0
  <2>2. Off(i) <= Off(n - 1) /\ Off(n - 1) \in Int /\ Off(i) \in Int
    BY <2>1, Offsets
  <2>3. output[i].last = Off(i) - 1
    BY <1>0, <1>2, <1>3, <2>1, <2>2
  <2>4. output[i + 1].first = Off(i)
    BY <1>3, <2>1
  <2>. QED  BY <2>2, <2>3, <2>4
<1>. QED  BY <1>0, <1>4, <1>5, <1>6 DEF n

-----------------------------------------------------------------------------
(* The WaitGroup.                                                          *)

LEMMA OwingFinite ==
  ASSUME DownloadConstants
  PROVE  IsFiniteSet(Owing) /\ Cardinality(Owing) \in 0 .. Concurrency + 1
<1>1. Concurrency \in Int /\ 0 \in Int /\ Concurrency \in Nat
  BY DEF DownloadConstants
<1>2. IsFiniteSet(Goroutines) /\ Cardinality(Goroutines) = Concurrency + 1
  <2>1. IsFiniteSet(0 .. Concurrency)
    BY <1>1, FS_Interval
  <2>2. Cardinality(0 .. Concurrency) = IF 0 > Concurrency THEN 0 ELSE Concurrency - 0 + 1
    BY <1>1, FS_Interval
  <2>. QED  BY <1>1, <2>1, <2>2 DEF Goroutines
<1>3. Owing \subseteq Goroutines
  BY DEF Owing
<1>4. IsFiniteSet(Owing) /\ Cardinality(Owing) <= Cardinality(Goroutines)
  BY <1>2, <1>3, FS_Subset
<1>5. Cardinality(Owing) \in Nat
  BY <1>4, FS_CardinalityType
<1>. QED  BY <1>1, <1>2, <1>4, <1>5

\* What a step of goroutine g to l does to the counter.
LEMMA CounterMoves ==
  ASSUME DownloadConstants, DownloadInv, NEW g \in Goroutines, NEW l,
         pc' = [pc EXCEPT ![g] = l],
         \/ (l \in Counting <=> pc[g] \in Counting) /\ wg' = wg
         \/ l \in Counting /\ pc[g] \notin Counting /\ wg' = wg + 1
         \/ l \notin Counting /\ pc[g] \in Counting /\ wg' = wg - 1
  PROVE  WgCounts'
<1>0. DOMAIN pc = Goroutines /\ wg = Cardinality(Owing) /\ IsFiniteSet(Owing) /\ Cardinality(Owing) \in Nat
  BY OwingFinite DEF DownloadInv, DownloadTyped, WgCounts
<1>1. pc'[g] = l /\ \A h \in Goroutines : h # g => pc'[h] = pc[h]
  BY <1>0
<1>2. CASE (l \in Counting <=> pc[g] \in Counting) /\ wg' = wg
  <2>1. Owing' = Owing
    BY <1>1, <1>2 DEF Owing
  <2>. QED  BY <1>0, <1>2, <2>1 DEF WgCounts
<1>3. CASE l \in Counting /\ pc[g] \notin Counting /\ wg' = wg + 1
  <2>1. Owing' = Owing \cup {g} /\ g \notin Owing
    BY <1>1, <1>3 DEF Owing
  <2>2. Cardinality(Owing') = Cardinality(Owing) + 1
    BY <1>0, <2>1, FS_AddElement
  <2>. QED  BY <1>0, <1>3, <2>2 DEF WgCounts
<1>4. CASE l \notin Counting /\ pc[g] \in Counting /\ wg' = wg - 1
  <2>1. Owing' = Owing \ {g} /\ g \in Owing
    BY <1>1, <1>4 DEF Owing
  <2>2. Cardinality(Owing') = Cardinality(Owing) - 1
    BY <1>0, <2>1, FS_RemoveElement
  <2>. QED  BY <1>0, <1>4, <2>2 DEF WgCounts
<1>. QED  BY <1>2, <1>3, <1>4

LEMMA NobodyOwes ==
  ASSUME DownloadConstants, WgCounts, wg = 0, NEW g \in Goroutines
  PROVE  pc[g] \notin Counting
<1>1. Owing = {}
  BY OwingFinite, FS_EmptySet DEF WgCounts
<1>. QED  BY <1>1 DEF Owing

-----------------------------------------------------------------------------
(* Steps that leave the segments where they are.                           *)

\* g moves on to l; neither reaches a segment nor stores one.
LEMMA SegmentsRest ==
  ASSUME DownloadConstants, DownloadInv, NEW g \in Goroutines, NEW l,
         pc' = [pc EXCEPT ![g] = l], UNCHANGED <<size, next, task, taskMap, notify, output>>,
         l \in Unstored => pc[g] \in Unstored, l \notin {"notify", "copy"}
  PROVE  SegmentsKnown' /\ UnstoredAlone'
<1>1. /\ DOMAIN pc = Goroutines /\ pc'[g] = l /\ (\A h \in Goroutines : h # g => pc'[h] = pc[h])
      /\ 0 \in Goroutines /\ \A w \in 1 .. Concurrency : w \in Goroutines
  BY DEF DownloadInv, DownloadTyped, DownloadConstants, Goroutines
<1>2. \A t : IsSegment(t)' <=> IsSegment(t)
  BY DEF IsSegment, Segment
<1>3. \A w \in 1 .. Concurrency : /\ pc'[w] \in Unstored => pc[w] \in Unstored
                                  /\ pc'[w] = "notify" => pc[w] = "notify"
  BY <1>1
<1>4. pc'[0] = "copy" => pc[0] = "copy"
  BY <1>1
<1>5. \A i \in 1 .. Len(output) : Segment(i - 1)' = Segment(i - 1)
  BY DEF Segment
<1>6. SegmentsKnown'
  BY <1>2, <1>3, <1>4, <1>5 DEF DownloadInv, SegmentsKnown
<1>7. UnstoredAlone'
  BY <1>3, <1>4 DEF DownloadInv, UnstoredAlone, Alone
<1>. QED  BY <1>6, <1>7

LEMMA PcTyped ==
  ASSUME DownloadConstants, DownloadInv, NEW g \in Goroutines, NEW l,
         pc' = [pc EXCEPT ![g] = l], g = 0 => l \in MergerAt, g # 0 => l \in WorkerAt
  PROVE  /\ pc' \in [Goroutines -> WorkerAt \cup MergerAt]
         /\ pc'[0] \in MergerAt /\ \A w \in 1 .. Concurrency : pc'[w] \in WorkerAt
         /\ pc'[g] = l /\ \A h \in Goroutines : h # g => pc'[h] = pc[h]
<1>1. 0 \in Goroutines /\ \A w \in 1 .. Concurrency : w \in Goroutines /\ w # 0
  BY DEF DownloadConstants, Goroutines
<1>. QED  BY <1>1 DEF DownloadInv, DownloadTyped

\* reportError.
LEMMA reportErrorKeeps ==
  ASSUME DownloadConstants, DownloadInv, NEW g \in Goroutines, Download!reportError(g),
         pc[g] \in {"open", "get", "output", "copy"}
  PROVE  DownloadInv'
<1>. USE DEF Download!doVars, Download!wgVars, Download!diskVars
<1>0. /\ pc' = [pc EXCEPT ![g] = "stop"] /\ errCh' = TRUE /\ reported' = TRUE
      /\ UNCHANGED <<size, main, start, next, result, task, taskMap, notify, done, wg, waiter, panicked,
                     files, tempDir, cleaned, output>>
  BY DEF Download!reportError, Download!Goto
<1>1. /\ pc' \in [Goroutines -> WorkerAt \cup MergerAt]
      /\ pc'[0] \in MergerAt /\ \A w \in 1 .. Concurrency : pc'[w] \in WorkerAt
      /\ pc'[g] = "stop" /\ \A h \in Goroutines : h # g => pc'[h] = pc[h]
  BY <1>0, PcTyped DEF MergerAt, WorkerAt
<1>2. DownloadTyped' /\ Splitting'
  BY <1>0, <1>1 DEF DownloadInv, DownloadTyped, Splitting
<1>3. SegmentsKnown' /\ UnstoredAlone'
  BY <1>0, SegmentsRest DEF Unstored
<1>4. WgCounts'
  BY <1>0, CounterMoves DEF Counting
<1>5. 0 \in Goroutines
  BY DEF DownloadConstants, Goroutines
<1>6. Download!lastIndex' = Download!lastIndex
  BY <1>0 DEF Download!lastIndex
<1>7. Merging'
  BY <1>0, <1>1, <1>5, <1>6 DEF DownloadInv, Merging, Complete
<1>8. ErrorsKept'
  <2>1. result # "nil"
    <3>. SUFFICES ASSUME result = "nil" PROVE FALSE
      OBVIOUS
    <3>1. pc[0] = "exit" /\ Complete
      BY DEF DownloadInv, ErrorsKept
    <3>2. g \in 1 .. Concurrency /\ pc[g] \in Unstored
      <4>1. g # 0
        BY <3>1
      <4>2. g \in 1 .. Concurrency
        BY <4>1 DEF Goroutines, DownloadConstants
      <4>3. pc[g] \in WorkerAt
        BY <4>2 DEF DownloadInv, DownloadTyped
      <4>. QED  BY <4>2, <4>3 DEF WorkerAt, Unstored
    <3>3. IsSegment(task[g]) /\ task[g].index >= Len(output)
      BY <3>2 DEF DownloadInv, SegmentsKnown, UnstoredAlone, Alone
    <3>4. task[g].index \in 0 .. next - 1
      BY <3>3 DEF IsSegment
    <3>5. task[g].index <= Download!lastIndex /\ size > 0
      BY <3>4, SegmentsBounded DEF DownloadInv
    <3>6. Download!lastIndex \in Nat /\ next \in Nat
      BY <3>5, LastSegment DEF DownloadInv, Splitting
    <3>. QED  BY <3>1, <3>3, <3>4, <3>5, <3>6 DEF Complete
  <2>. QED  BY <1>0, <1>1, <2>1 DEF DownloadInv, ErrorsKept
<1>. QED  BY <1>2, <1>3, <1>4, <1>7, <1>8 DEF DownloadInv

\* g moves on without an error, and neither the merger's output nor what Do
\* decided changes.
LEMMA MoveKeeps ==
  ASSUME DownloadConstants, DownloadInv, NEW g \in Goroutines, NEW l,
         pc' = [pc EXCEPT ![g] = l], g = 0 => l \in MergerAt, g # 0 => l \in WorkerAt,
         UNCHANGED <<size, main, start, next, result, task, taskMap, notify, errCh, panicked, output, reported>>,
         tempDir' \in BOOLEAN, cleaned' \in BOOLEAN,
         l \in Unstored => pc[g] \in Unstored, l \notin {"notify", "copy", "stop"},
         done' = done \/ (done' = TRUE /\ reported),
         g = 0 => /\ pc[0] \notin {"none", "exit"} /\ l \notin {"none", "cleanup"}
                  /\ l = "exit" => pc[0] = "leave"
                  /\ l = "leave" => Complete \/ reported \/ main \notin {"send", "wait"},
         \/ (l \in Counting <=> pc[g] \in Counting) /\ wg' = wg
         \/ l \in Counting /\ pc[g] \notin Counting /\ wg' = wg + 1
         \/ l \notin Counting /\ pc[g] \in Counting /\ wg' = wg - 1,
         waiter' = waiter \/ (waiter = "waiting" /\ waiter' = "woken" /\ pc'[0] = "exit")
  PROVE  DownloadInv'
<1>1. /\ pc' \in [Goroutines -> WorkerAt \cup MergerAt]
      /\ pc'[0] \in MergerAt /\ \A w \in 1 .. Concurrency : pc'[w] \in WorkerAt
      /\ pc'[g] = l /\ \A h \in Goroutines : h # g => pc'[h] = pc[h]
  BY PcTyped
<1>2. DownloadTyped' /\ Splitting'
  <2>1. done' \in BOOLEAN
    BY DEF DownloadInv, DownloadTyped
  <2>3. DownloadTyped'
    BY <1>1, <2>1 DEF DownloadInv, DownloadTyped
  <2>4. Splitting'
    BY DEF DownloadInv, Splitting
  <2>. QED  BY <2>3, <2>4
<1>3. SegmentsKnown' /\ UnstoredAlone'
  BY SegmentsRest
<1>4. WgCounts'
  BY CounterMoves
<1>5. 0 \in Goroutines
  BY DEF DownloadConstants, Goroutines
<1>6. Download!lastIndex' = Download!lastIndex
  BY DEF Download!lastIndex
<1>7. Merging'
  <2>1. pc'[0] = "none" <=> pc[0] = "none"
    BY <1>1, <1>5
  <2>2. pc[0] = "exit" => pc'[0] = "exit"
    BY <1>1, <1>5
  <2>3. pc'[0] = "cleanup" => pc[0] = "cleanup"
    BY <1>1, <1>5
  <2>4. pc'[0] \in {"leave", "exit"} /\ ~reported' /\ main' \in {"send", "wait"} => Complete'
    BY <1>1, <1>5, <1>6 DEF DownloadInv, Merging, Complete
  <2>5. \A h \in Goroutines : pc'[h] = "stop" => reported'
    BY <1>1 DEF DownloadInv, Merging
  <2>6. waiter' = "none" <=> waiter = "none"
    OBVIOUS
  <2>7. waiter' \in {"woken", "closed"} => pc'[0] = "exit"
    BY <2>2 DEF DownloadInv, Merging
  <2>8. pc'[0] = "cleanup" => Complete'
    BY <1>6, <2>3 DEF DownloadInv, Merging, Complete
  <2>9. done' => reported' \/ main' \in {"cleanup", "return"}
    BY DEF DownloadInv, Merging
  <2>10. main' = "head" => pc'[0] = "none"
    BY <2>1 DEF DownloadInv, Merging
  <2>. QED  BY <2>1, <2>4, <2>5, <2>6, <2>7, <2>8, <2>9, <2>10 DEF DownloadInv, Merging
<1>8. ErrorsKept'
  <2>1. pc[0] = "exit" => pc'[0] = "exit"
    BY <1>1, <1>5
  <2>. QED  BY <1>6, <2>1 DEF DownloadInv, ErrorsKept, Complete
<1>. QED  BY <1>2, <1>3, <1>4, <1>7, <1>8 DEF DownloadInv

LEMMA wgDoneKeeps ==
  ASSUME DownloadConstants, DownloadInv, NEW g \in Goroutines, Download!wgDone(g)
  PROVE  DownloadInv'
<1>. USE DEF Download!doVars, Download!chanVars, Download!diskVars, Download!Merger
<1>. DEFINE l == IF g = 0 THEN "exit" ELSE "idle"
<1>0. /\ pc[g] = "leave" /\ pc' = [pc EXCEPT ![g] = l] /\ wg' = wg - 1
      /\ waiter' = (IF wg = 1 /\ waiter = "waiting" THEN "woken" ELSE waiter)
      /\ UNCHANGED <<size, main, start, next, result, task, taskMap, notify, errCh, done, panicked,
                     files, tempDir, cleaned, output, reported>>
  BY DEF Download!wgDone, Download!Goto
<1>1. l \in {"exit", "idle"} /\ (g = 0 => l \in MergerAt) /\ (g # 0 => l \in WorkerAt)
      /\ (g = 0 <=> l = "exit") /\ l \notin Counting /\ l \notin Unstored /\ pc[g] \in Counting
  BY <1>0 DEF MergerAt, WorkerAt, Counting, Unstored
<1>. HIDE DEF l
<1>2. WgCounts' /\ pc'[0] \in MergerAt
  BY <1>0, <1>1, CounterMoves, PcTyped
<1>3. waiter' = waiter \/ (waiter = "waiting" /\ waiter' = "woken" /\ pc'[0] = "exit")
  <2>. SUFFICES ASSUME wg = 1, waiter = "waiting" PROVE pc'[0] = "exit"
    BY <1>0
  <2>1. wg' = 0 /\ 0 \in Goroutines
    BY <1>0 DEF DownloadConstants, Goroutines
  <2>2. (pc[0] \notin Counting)'
    <3>1. Owing' = {}
      <4>1. IsFiniteSet(Goroutines) /\ Owing' \subseteq Goroutines
        BY FS_Interval DEF Goroutines, DownloadConstants, Owing
      <4>2. IsFiniteSet(Owing') /\ Cardinality(Owing') = 0
        BY <1>2, <2>1, <4>1, FS_Subset DEF WgCounts
      <4>. QED  BY <4>2, FS_EmptySet
    <3>. QED  BY <2>1, <3>1 DEF Owing
  <2>3. pc'[0] # "none"
    <3>1. pc[0] # "none"
      BY DEF DownloadInv, Merging
    <3>. QED  BY <1>0, <1>1, <2>1, <3>1 DEF DownloadInv, DownloadTyped
  <2>. QED  BY <1>2, <2>2, <2>3 DEF MergerAt, Counting
<1>4. tempDir' \in BOOLEAN /\ cleaned' \in BOOLEAN
  BY <1>0 DEF DownloadInv, DownloadTyped
<1>5. l \notin {"notify", "copy", "stop", "none", "cleanup", "leave"} /\ (g = 0 => pc[0] = "leave")
  BY <1>0, <1>1
<1>. QED  BY <1>0, <1>1, <1>3, <1>4, <1>5, MoveKeeps

LEMMA stopKeeps ==
  ASSUME DownloadConstants, DownloadInv, NEW g \in Goroutines, Download!stop(g)
  PROVE  DownloadInv'
<1>. USE DEF Download!doVars, Download!wgVars, Download!diskVars
<1>0. /\ pc[g] = "stop" /\ pc' = [pc EXCEPT ![g] = "leave"] /\ done' = TRUE
      /\ UNCHANGED <<size, main, start, next, result, task, taskMap, notify, errCh, wg, waiter, panicked,
                     files, tempDir, cleaned, output, reported>>
  BY DEF Download!stop, Download!Goto
<1>1. reported /\ tempDir' \in BOOLEAN /\ cleaned' \in BOOLEAN
  BY <1>0 DEF DownloadInv, DownloadTyped, Merging
<1>2. "leave" \in MergerAt /\ "leave" \in WorkerAt /\ "leave" \in Counting /\ pc[g] \in Counting /\ "leave" \notin Unstored
  BY <1>0 DEF MergerAt, WorkerAt, Counting, Unstored
<1>3. g = 0 => pc[0] \notin {"none", "exit"}
  BY <1>0
<1>. QED  BY <1>0, <1>1, <1>2, <1>3, MoveKeeps

\* The steps of a worker before its segment is there.
LEMMA workerKeeps ==
  ASSUME DownloadConstants, DownloadInv, NEW w \in Download!Workers,
         Download!workerExit(w) \/ Download!wgAdd(w) \/ Download!openTemp(w) \/ Download!getRange(w)
  PROVE  DownloadInv'
<1>. USE DEF Download!doVars, Download!chanVars, Download!wgVars, Download!diskVars
<1>0. w \in Goroutines /\ w # 0
  BY DEF Download!Workers, Goroutines, DownloadConstants
<1>1. tempDir \in BOOLEAN /\ cleaned \in BOOLEAN
  BY DEF DownloadInv, DownloadTyped
<1>2. ASSUME NEW l \in {"exit", "open", "get", "store"}, pc' = [pc EXCEPT ![w] = l],
             l \in Unstored => pc[w] \in Unstored,
             UNCHANGED <<size, main, start, next, result, task, taskMap, notify, errCh, done, waiter, panicked,
                         tempDir, cleaned, output, reported>>,
             \/ (l \in Counting <=> pc[w] \in Counting) /\ wg' = wg
             \/ l \in Counting /\ pc[w] \notin Counting /\ wg' = wg + 1
      PROVE  DownloadInv'
  <2>1. l \in WorkerAt /\ l \notin {"notify", "copy", "stop"}
    BY DEF WorkerAt
  <2>. QED  BY <1>0, <1>1, <1>2, <2>1, MoveKeeps
<1>3. CASE Download!workerExit(w)
  <2>1. /\ pc[w] = "idle" /\ pc' = [pc EXCEPT ![w] = "exit"]
        /\ UNCHANGED <<size, main, start, next, result, task, taskMap, notify, errCh, done, wg, waiter, panicked,
                       tempDir, cleaned, output, reported>>
    BY <1>3 DEF Download!workerExit, Download!Goto
  <2>2. "exit" \notin Unstored /\ "exit" \notin Counting /\ pc[w] \notin Counting
    BY <2>1 DEF Unstored, Counting
  <2>. QED  BY <1>2, <2>1, <2>2
<1>4. CASE Download!wgAdd(w)
  <2>1. /\ pc[w] = "add" /\ pc' = [pc EXCEPT ![w] = "open"] /\ wg' = wg + 1
        /\ UNCHANGED <<size, main, start, next, result, task, taskMap, notify, errCh, done, waiter, panicked,
                       tempDir, cleaned, output, reported>>
    BY <1>4 DEF Download!wgAdd, Download!Goto
  <2>2. pc[w] \in Unstored /\ "open" \in Counting /\ pc[w] \notin Counting
    BY <2>1 DEF Unstored, Counting
  <2>. QED  BY <1>2, <2>1, <2>2
<1>5. CASE Download!openTemp(w)
  <2>0. pc[w] = "open"
    BY <1>5 DEF Download!openTemp
  <2>1. CASE Download!reportError(w)
    BY <1>0, <2>0, <2>1, reportErrorKeeps
  <2>2. CASE ~Download!reportError(w)
    <3>1. /\ pc' = [pc EXCEPT ![w] = "get"]
          /\ UNCHANGED <<size, main, start, next, result, task, taskMap, notify, errCh, done, wg, waiter, panicked,
                         tempDir, cleaned, output, reported>>
      BY <1>5, <2>2 DEF Download!openTemp, Download!Goto
    <3>2. pc[w] \in Unstored /\ "get" \in Counting /\ pc[w] \in Counting
      BY <2>0 DEF Unstored, Counting
    <3>. QED  BY <1>2, <3>1, <3>2
  <2>. QED  BY <2>1, <2>2
<1>6. CASE Download!getRange(w)
  <2>0. pc[w] = "get"
    BY <1>6 DEF Download!getRange
  <2>1. CASE Download!reportError(w)
    BY <1>0, <2>0, <2>1, reportErrorKeeps
  <2>2. CASE ~Download!reportError(w)
    <3>1. /\ pc' = [pc EXCEPT ![w] = "store"]
          /\ UNCHANGED <<size, main, start, next, result, task, taskMap, notify, errCh, done, wg, waiter, panicked,
                         tempDir, cleaned, output, reported>>
      BY <1>6, <2>2 DEF Download!getRange, Download!Goto
    <3>2. pc[w] \in Unstored /\ "store" \in Counting /\ pc[w] \in Counting
      BY <2>0 DEF Unstored, Counting
    <3>. QED  BY <1>2, <3>1, <3>2
  <2>. QED  BY <2>1, <2>2
<1>. QED  BY <1>3, <1>4, <1>5, <1>6

\* completeTask and its notification: the parts other than the segments.
LEMMA StoringKeeps ==
  ASSUME DownloadConstants, DownloadInv, NEW w \in Download!Workers, pc[w] \in {"store", "notify"},
         NEW l \in {"notify", "leave"}, pc' = [pc EXCEPT ![w] = l],
         taskMap' \subseteq Download!Tasks, notify' \in Seq(Download!Tasks), Len(notify') <= Concurrency,
         UNCHANGED <<size, main, start, next, result, task, errCh, done, wg, waiter, panicked,
                     tempDir, cleaned, output, reported>>,
         SegmentsKnown', UnstoredAlone'
  PROVE  DownloadInv'
<1>0. w \in Goroutines /\ w # 0 /\ 0 \in Goroutines
  BY DEF Download!Workers, Goroutines, DownloadConstants
<1>1. l \in WorkerAt /\ l \in Counting /\ pc[w] \in Counting
  BY DEF WorkerAt, Counting
<1>2. /\ pc' \in [Goroutines -> WorkerAt \cup MergerAt]
      /\ pc'[0] \in MergerAt /\ \A v \in 1 .. Concurrency : pc'[v] \in WorkerAt
      /\ pc'[w] = l /\ \A h \in Goroutines : h # w => pc'[h] = pc[h]
  BY <1>0, <1>1, PcTyped
<1>3. DownloadTyped' /\ Splitting'
  BY <1>2 DEF DownloadInv, DownloadTyped, Splitting
<1>4. WgCounts'
  BY <1>0, <1>1, CounterMoves
<1>5. Download!lastIndex' = Download!lastIndex /\ pc'[0] = pc[0]
  BY <1>0, <1>2 DEF Download!lastIndex
<1>6. Merging' /\ ErrorsKept'
  BY <1>2, <1>5 DEF DownloadInv, Merging, ErrorsKept, Complete
<1>. QED  BY <1>3, <1>4, <1>6 DEF DownloadInv

LEMMA completeKeeps ==
  ASSUME DownloadConstants, DownloadInv, NEW w \in Download!Workers, Download!completeTask(w) \/ Download!completeNotify(w)
  PROVE  DownloadInv'
<1>. USE DEF Download!doVars, Download!wgVars, Download!diskVars
<1>0. /\ w \in Goroutines /\ w # 0 /\ w \in 1 .. Concurrency /\ DOMAIN pc = Goroutines /\ 0 \in Goroutines
      /\ \A v \in 1 .. Concurrency : v \in Goroutines
      /\ taskMap \subseteq Download!Tasks /\ notify \in Seq(Download!Tasks) /\ Len(notify) <= Concurrency
      /\ Concurrency \in Nat /\ Len(notify) \in Nat
  BY DEF Download!Workers, Goroutines, DownloadConstants, DownloadInv, DownloadTyped
<1>1. pc[w] \in {"store", "notify"} /\ IsSegment(task[w])
  BY <1>0 DEF Download!completeTask, Download!completeNotify, DownloadInv, SegmentsKnown, Unstored
<1>2. task[w] \in Download!Tasks
  <2>1. task[w].index \in 0 .. next - 1 /\ task[w] = Segment(task[w].index) /\ next \in Nat
    BY <1>1 DEF IsSegment, DownloadInv, Splitting
  <2>2. size > 0 /\ size \in Int /\ task[w].index \in Nat
    BY <2>1 DEF DownloadInv, Splitting
  <2>. QED  BY <2>1, <2>2, SegmentTyped
<1>3. UNCHANGED <<size, main, start, next, result, task, errCh, done, wg, waiter, panicked,
                  tempDir, cleaned, output, reported>>
  BY DEF Download!completeTask, Download!completeNotify
<1>4. (\A t : IsSegment(t)' <=> IsSegment(t)) /\ \A i \in 1 .. Len(output) : Segment(i - 1)' = Segment(i - 1)
  BY <1>3 DEF IsSegment, Segment
<1>5. CASE Download!completeTask(w)
  <2>1. /\ pc[w] = "store" /\ pc' = [pc EXCEPT ![w] = "notify"] /\ taskMap' = taskMap \cup {task[w]}
        /\ UNCHANGED notify
    BY <1>5 DEF Download!completeTask, Download!Goto
  <2>2. pc'[w] = "notify" /\ pc'[0] = pc[0] /\ \A v \in 1 .. Concurrency : v # w => pc'[v] = pc[v]
    BY <1>0, <2>1
  <2>3. SegmentsKnown'
    BY <1>0, <1>1, <1>3, <1>4, <2>1, <2>2 DEF DownloadInv, SegmentsKnown, Unstored
  <2>4. UnstoredAlone'
    BY <1>0, <1>3, <2>1, <2>2 DEF DownloadInv, UnstoredAlone, Alone, Unstored
  <2>. QED  BY <1>0, <1>1, <1>2, <1>3, <2>1, <2>3, <2>4, StoringKeeps
<1>6. CASE Download!completeNotify(w)
  <2>1. /\ pc[w] = "notify" /\ pc' = [pc EXCEPT ![w] = "leave"] /\ UNCHANGED taskMap
        /\ \/ Len(notify) < Concurrency /\ notify' = Append(notify, task[w])
           \/ UNCHANGED notify
    BY <1>6 DEF Download!completeNotify, Download!Goto
  <2>2. pc'[w] = "leave" /\ pc'[0] = pc[0] /\ \A v \in 1 .. Concurrency : v # w => pc'[v] = pc[v]
    BY <1>0, <2>1
  <2>3. /\ notify' \in Seq(Download!Tasks) /\ Len(notify') <= Concurrency
        /\ \A i \in 1 .. Len(notify') : notify'[i] = task[w] \/ (i \in 1 .. Len(notify) /\ notify'[i] = notify[i])
    BY <1>0, <1>2, <2>1, SMTT(30)
  <2>4. SegmentsKnown'
    BY <1>0, <1>1, <1>3, <1>4, <2>1, <2>2, <2>3 DEF DownloadInv, SegmentsKnown, Unstored
  <2>5. UnstoredAlone'
    <3>. SUFFICES ASSUME NEW v \in 1 .. Concurrency, pc'[v] \in Unstored
                  PROVE  Alone(v)'
      BY DEF UnstoredAlone
    <3>1. v # w /\ pc[v] \in Unstored
      BY <2>2 DEF Unstored
    <3>2. Alone(v)
      BY <3>1 DEF DownloadInv, UnstoredAlone
    <3>3. task[w].index # task[v].index
      BY <1>0, <2>1, <3>1, <3>2 DEF Alone
    <3>4. \A u \in 1 .. Concurrency : pc'[u] \in Unstored \cup {"notify"} => pc[u] \in Unstored \cup {"notify"}
      BY <2>2 DEF Unstored
    <3>5. task' = task /\ output' = output /\ taskMap' = taskMap /\ pc'[0] = pc[0]
      BY <1>3, <2>1, <2>2
    <3>6. \A i \in 1 .. Len(notify') : notify'[i].index # task[v].index
      BY <2>3, <3>2, <3>3 DEF Alone
    <3>7. \A u \in 1 .. Concurrency :
             u # v /\ pc'[u] \in Unstored \cup {"notify"} => task[u].index # task[v].index
      BY <3>2, <3>4 DEF Alone
    <3>. QED  BY <3>2, <3>5, <3>6, <3>7 DEF Alone
  <2>. QED  BY <1>0, <1>1, <1>3, <2>1, <2>3, <2>4, <2>5, StoringKeeps
<1>. QED  BY <1>5, <1>6

\* The merger has its next segment.
LEMMA SegmentTaken ==
  ASSUME DownloadConstants, DownloadInv, pc[0] \in {"pop", "wait"}, pc' = [pc EXCEPT ![0] = "copy"],
         NEW t \in Download!Tasks, IsSegment(t), t.index = Len(output), task' = [task EXCEPT ![0] = t],
         taskMap' \subseteq taskMap, notify' \in Seq(Download!Tasks), Len(notify') <= Len(notify),
         \A i \in 1 .. Len(notify') : \E j \in 1 .. Len(notify) : notify'[i] = notify[j],
         \A w \in 1 .. Concurrency : pc[w] \in Unstored => task[w].index # t.index,
         UNCHANGED <<size, main, start, next, result, errCh, done, wg, waiter, panicked,
                     tempDir, cleaned, output, reported>>
  PROVE  DownloadInv'
<1>0. /\ 0 \in Goroutines /\ Concurrency \in Nat /\ notify \in Seq(Download!Tasks) /\ Len(notify) <= Concurrency
      /\ \A w \in 1 .. Concurrency : w \in Goroutines /\ w # 0
  BY DEF Goroutines, DownloadConstants, DownloadInv, DownloadTyped
<1>1. "copy" \in MergerAt /\ "copy" \in Counting /\ pc[0] \in Counting
  BY DEF MergerAt, Counting
<1>2. /\ pc' \in [Goroutines -> WorkerAt \cup MergerAt]
      /\ pc'[0] \in MergerAt /\ \A v \in 1 .. Concurrency : pc'[v] \in WorkerAt
      /\ pc'[0] = "copy" /\ \A h \in Goroutines : h # 0 => pc'[h] = pc[h]
  BY <1>0, <1>1, PcTyped
<1>3. /\ task' \in [Goroutines -> Download!Tasks \cup {Download!NoTask}] /\ task'[0] = t
      /\ \A w \in 1 .. Concurrency : task'[w] = task[w] /\ pc'[w] = pc[w]
  BY <1>0, <1>2 DEF DownloadInv, DownloadTyped
<1>4. DownloadTyped' /\ Splitting'
  BY <1>0, <1>2, <1>3 DEF DownloadInv, DownloadTyped, Splitting
<1>5. (\A s : IsSegment(s)' <=> IsSegment(s)) /\ \A i \in 1 .. Len(output) : Segment(i - 1)' = Segment(i - 1)
  BY DEF IsSegment, Segment
<1>6. SegmentsKnown'
  BY <1>2, <1>3, <1>5 DEF DownloadInv, SegmentsKnown
<1>7. UnstoredAlone'
  <2>. SUFFICES ASSUME NEW w \in 1 .. Concurrency, pc'[w] \in Unstored
                PROVE  Alone(w)'
    BY DEF UnstoredAlone
  <2>1. pc[w] \in Unstored /\ task'[w] = task[w] /\ task'[0] = t /\ output' = output
        /\ \A v \in 1 .. Concurrency : pc'[v] = pc[v] /\ task'[v] = task[v]
    BY <1>3
  <2>2. Alone(w)
    BY <2>1 DEF DownloadInv, UnstoredAlone
  <2>3. task'[w].index >= Len(output')
    BY <2>1, <2>2 DEF Alone
  <2>4. task'[0].index # task'[w].index
    BY <2>1
  <2>5. \A s \in taskMap' : s.index # task'[w].index
    BY <2>1, <2>2 DEF Alone
  <2>6. \A i \in 1 .. Len(notify') : notify'[i].index # task'[w].index
    BY <2>1, <2>2 DEF Alone
  <2>7. \A v \in 1 .. Concurrency :
           v # w /\ pc'[v] \in Unstored \cup {"notify"} => task'[v].index # task'[w].index
    BY <2>1, <2>2 DEF Alone
  <2>. QED  BY <2>3, <2>4, <2>5, <2>6, <2>7 DEF Alone
<1>8. WgCounts'
  BY <1>0, <1>1, CounterMoves
<1>9. Download!lastIndex' = Download!lastIndex
  BY DEF Download!lastIndex
<1>10. Merging' /\ ErrorsKept'
  BY <1>0, <1>2, <1>9 DEF DownloadInv, Merging, ErrorsKept, Complete
<1>. QED  BY <1>4, <1>6, <1>7, <1>8, <1>10 DEF DownloadInv

LEMMA popKeeps ==
  ASSUME DownloadConstants, DownloadInv, Download!popTask \/ Download!popNotified \/ Download!popStopped \/ Download!getOutputFile
  PROVE  DownloadInv'
<1>. USE DEF Download!doVars, Download!chanVars, Download!wgVars, Download!diskVars, Download!Merger
<1>0. /\ 0 \in Goroutines /\ tempDir \in BOOLEAN /\ cleaned \in BOOLEAN
      /\ taskMap \subseteq Download!Tasks /\ notify \in Seq(Download!Tasks) /\ Len(notify) \in Nat
      /\ Concurrency \in Nat /\ Len(notify) <= Concurrency
  BY DEF Goroutines, DownloadConstants, DownloadInv, DownloadTyped
<1>1. ASSUME NEW l \in {"pop", "wait", "leave"}, pc' = [pc EXCEPT ![0] = l],
             pc[0] \in {"output", "pop", "wait"}, l = "leave" => done,
             UNCHANGED <<size, main, start, next, result, task, taskMap, notify, errCh, done, wg, waiter, panicked,
                         tempDir, cleaned, output, reported>>
      PROVE  DownloadInv'
  <2>1. l \in MergerAt /\ l \in Counting /\ pc[0] \in Counting /\ l \notin Unstored
    BY <1>1 DEF MergerAt, Counting, Unstored
  <2>2. l = "leave" => reported \/ main \notin {"send", "wait"}
    BY <1>1 DEF DownloadInv, Merging
  <2>. QED  BY <1>0, <1>1, <2>1, <2>2, MoveKeeps
<1>2. CASE Download!getOutputFile
  <2>1. CASE Download!reportError(0)
    BY <1>0, <1>2, <2>1, reportErrorKeeps DEF Download!getOutputFile
  <2>2. CASE ~Download!reportError(0)
    <3>1. /\ pc[0] = "output" /\ pc' = [pc EXCEPT ![0] = "pop"]
          /\ UNCHANGED <<size, main, start, next, result, task, taskMap, notify, errCh, done, wg, waiter, panicked,
                         tempDir, cleaned, output, reported>>
      BY <1>2, <2>2 DEF Download!getOutputFile, Download!Goto
    <3>. QED  BY <1>1, <3>1
  <2>. QED  BY <2>1, <2>2
<1>3. CASE Download!popStopped
  <2>1. /\ pc[0] = "wait" /\ done /\ pc' = [pc EXCEPT ![0] = "leave"]
        /\ UNCHANGED <<size, main, start, next, result, task, taskMap, notify, errCh, done, wg, waiter, panicked,
                       tempDir, cleaned, output, reported>>
    BY <1>3 DEF Download!popStopped, Download!Goto
  <2>. QED  BY <1>1, <2>1
<1>4. CASE Download!popTask
  <2>. DEFINE found == {t \in taskMap : t.index = Len(output)}
  <2>0. /\ pc[0] = "pop"
        /\ UNCHANGED <<size, main, start, next, result, notify, errCh, done, wg, waiter, panicked,
                       tempDir, cleaned, output, reported>>
    BY <1>4 DEF Download!popTask
  <2>1. CASE found = {}
    <3>1. pc' = [pc EXCEPT ![0] = "wait"] /\ UNCHANGED <<taskMap, task>>
      BY <1>4, <2>1 DEF Download!popTask, Download!Goto
    <3>. QED  BY <1>1, <2>0, <3>1
  <2>2. CASE found # {}
    <3>. DEFINE t == CHOOSE x \in found : TRUE
    <3>1. /\ taskMap' = taskMap \ found /\ task' = [task EXCEPT ![0] = t] /\ pc' = [pc EXCEPT ![0] = "copy"]
      BY <1>4, <2>2 DEF Download!popTask, Download!Goto
    <3>2. t \in found
      BY <2>2
    <3>3. t \in taskMap /\ t.index = Len(output)
      BY <3>2
    <3>. HIDE DEF t, found
    <3>4. IsSegment(t) /\ t \in Download!Tasks
      BY <1>0, <3>3 DEF DownloadInv, SegmentsKnown
    <3>5. \A w \in 1 .. Concurrency : pc[w] \in Unstored => task[w].index # t.index
      BY <3>3 DEF DownloadInv, UnstoredAlone, Alone
    <3>6. /\ taskMap' \subseteq taskMap /\ notify' \in Seq(Download!Tasks) /\ Len(notify') <= Len(notify)
          /\ \A i \in 1 .. Len(notify') : \E j \in 1 .. Len(notify) : notify'[i] = notify[j]
      BY <1>0, <2>0, <3>1
    <3>. QED  BY <2>0, <3>1, <3>3, <3>4, <3>5, <3>6, SegmentTaken
  <2>. QED  BY <2>1, <2>2
<1>5. CASE Download!popNotified
  <2>0. /\ pc[0] = "wait" /\ notify # <<>> /\ notify' = Tail(notify)
        /\ UNCHANGED <<size, main, start, next, result, errCh, done, wg, waiter, panicked,
                       tempDir, cleaned, output, reported>>
    BY <1>5 DEF Download!popNotified
  <2>1. /\ notify' \in Seq(Download!Tasks) /\ Len(notify') <= Len(notify) /\ Len(notify') \in Nat
        /\ 1 \in 1 .. Len(notify) /\ Head(notify) = notify[1] /\ Head(notify) \in Download!Tasks
        /\ \A i \in 1 .. Len(notify') : i + 1 \in 1 .. Len(notify) /\ notify'[i] = notify[i + 1]
    BY <1>0, <2>0
  <2>2. \A i \in 1 .. Len(notify') : \E j \in 1 .. Len(notify) : notify'[i] = notify[j]
    BY <2>1
  <2>3. CASE Head(notify).index = Len(output)
    <3>1. /\ taskMap' \subseteq taskMap /\ task' = [task EXCEPT ![0] = Head(notify)]
          /\ pc' = [pc EXCEPT ![0] = "copy"]
      BY <1>5, <2>3 DEF Download!popNotified, Download!Goto
    <3>2. IsSegment(Head(notify))
      BY <2>1 DEF DownloadInv, SegmentsKnown
    <3>3. \A w \in 1 .. Concurrency : pc[w] \in Unstored => task[w].index # Head(notify).index
      BY <2>1 DEF DownloadInv, UnstoredAlone, Alone
    <3>. QED  BY <2>0, <2>1, <2>2, <2>3, <3>1, <3>2, <3>3, SegmentTaken
  <2>4. CASE Head(notify).index # Len(output)
    <3>1. UNCHANGED <<taskMap, task, pc>>
      BY <1>5, <2>4 DEF Download!popNotified
    <3>2. DownloadTyped' /\ Splitting'
      BY <1>0, <2>0, <2>1, <3>1 DEF DownloadInv, DownloadTyped, Splitting
    <3>3. (\A s : IsSegment(s)' <=> IsSegment(s)) /\ \A i \in 1 .. Len(output) : Segment(i - 1)' = Segment(i - 1)
      BY <2>0 DEF IsSegment, Segment
    <3>4. SegmentsKnown' /\ UnstoredAlone'
      BY <2>0, <2>2, <3>1, <3>3 DEF DownloadInv, SegmentsKnown, UnstoredAlone, Alone
    <3>5. WgCounts'
      BY <2>0, <3>1 DEF DownloadInv, WgCounts, Owing
    <3>6. Download!lastIndex' = Download!lastIndex
      BY <2>0 DEF Download!lastIndex
    <3>7. Merging' /\ ErrorsKept'
      BY <2>0, <3>1, <3>6 DEF DownloadInv, Merging, ErrorsKept, Complete
    <3>. QED  BY <3>2, <3>4, <3>5, <3>7 DEF DownloadInv
  <2>. QED  BY <2>3, <2>4
<1>. QED  BY <1>2, <1>3, <1>4, <1>5

LEMMA copySegmentKeeps ==
  ASSUME DownloadConstants, DownloadInv, Download!copySegment
  PROVE  DownloadInv'
<1>. USE DEF Download!doVars, Download!chanVars, Download!wgVars, Download!diskVars, Download!Merger
<1>0. /\ 0 \in Goroutines /\ output \in Seq(Download!Tasks) /\ Len(output) \in Nat /\ pc[0] = "copy"
      /\ \A w \in 1 .. Concurrency : w \in Goroutines /\ w # 0
  BY DEF Goroutines, DownloadConstants, DownloadInv, DownloadTyped, Download!copySegment
<1>1. CASE Download!reportError(0)
  BY <1>0, <1>1, reportErrorKeeps
<1>2. CASE ~Download!reportError(0)
  <2>. DEFINE l == IF Len(output) < Download!lastIndex THEN "pop" ELSE "cleanup"
              n == Len(output)
  <2>1. /\ pc' = [pc EXCEPT ![0] = l] /\ output' = Append(output, task[0])
        /\ UNCHANGED <<size, main, start, next, result, task, taskMap, notify, errCh, done, wg, waiter, panicked,
                       tempDir, cleaned, reported>>
    BY <1>2 DEF Download!copySegment, Download!Goto
  <2>2. /\ IsSegment(task[0]) /\ task[0].index = n /\ n \in 0 .. next - 1 /\ task[0] = Segment(n)
        /\ next \in Nat /\ size \in Int
    BY <1>0 DEF DownloadInv, SegmentsKnown, IsSegment, Splitting
  <2>3. n <= Download!lastIndex /\ size > 0
    BY <2>2, SegmentsBounded DEF DownloadInv
  <2>4. task[0] \in Download!Tasks /\ Download!lastIndex \in Nat
    BY <1>0, <2>2, <2>3, SegmentTyped, LastSegment
  <2>5. /\ output' \in Seq(Download!Tasks) /\ Len(output') = n + 1 /\ output'[n + 1] = task[0]
        /\ \A i \in 1 .. n : output'[i] = output[i]
    BY <1>0, <2>1, <2>4
  <2>6. l \in MergerAt /\ l \in Counting /\ pc[0] \in Counting /\ l \in {"pop", "cleanup"}
    BY <1>0 DEF MergerAt, Counting
  <2>7. l = "cleanup" => n + 1 = Download!lastIndex + 1
    BY <1>0, <2>3, <2>4
  <2>8. Download!lastIndex' = Download!lastIndex
    BY <2>1 DEF Download!lastIndex
  <2>. HIDE DEF l
  <2>9. /\ pc' \in [Goroutines -> WorkerAt \cup MergerAt]
        /\ pc'[0] \in MergerAt /\ \A v \in 1 .. Concurrency : pc'[v] \in WorkerAt
        /\ pc'[0] = l /\ \A h \in Goroutines : h # 0 => pc'[h] = pc[h]
    BY <1>0, <2>1, <2>6, PcTyped
  <2>10. DownloadTyped' /\ Splitting'
    BY <2>1, <2>5, <2>9 DEF DownloadInv, DownloadTyped, Splitting
  <2>11. (\A s : IsSegment(s)' <=> IsSegment(s)) /\ \A i \in 1 .. n + 1 : Segment(i - 1)' = Segment(i - 1)
    BY <2>1 DEF IsSegment, Segment
  <2>12. \A i \in 1 .. n + 1 : output'[i] = Segment(i - 1)
    <3>. SUFFICES ASSUME NEW i \in 1 .. n + 1 PROVE output'[i] = Segment(i - 1)
      OBVIOUS
    <3>1. CASE i = n + 1
      <4>1. i - 1 = n
        BY <1>0, <3>1
      <4>. QED  BY <2>2, <2>5, <3>1, <4>1
    <3>2. CASE i \in 1 .. n
      BY <2>5, <3>2 DEF DownloadInv, SegmentsKnown
    <3>. QED  BY <1>0, <3>1, <3>2
  <2>13. SegmentsKnown'
    <3>1. pc'[0] # "copy" /\ n + 1 <= next
      BY <1>0, <2>2, <2>6, <2>9
    <3>2. \A w \in 1 .. Concurrency : pc'[w] = pc[w]
      BY <1>0, <2>9 DEF Goroutines
    <3>3. /\ (\A w \in 1 .. Concurrency : pc[w] \in Unstored \cup {"notify"} => IsSegment(task[w]))'
          /\ (\A t \in taskMap : IsSegment(t))'
          /\ (\A i \in 1 .. Len(notify) : IsSegment(notify[i]))'
      BY <2>1, <2>11, <3>2 DEF DownloadInv, SegmentsKnown
    <3>4. Len(output') <= next' /\ \A i \in 1 .. Len(output') : output'[i] = Segment(i - 1)'
      BY <1>0, <2>1, <2>5, <2>11, <2>12, <3>1
    <3>. QED  BY <3>1, <3>3, <3>4 DEF SegmentsKnown
  <2>14. UnstoredAlone'
    <3>. SUFFICES ASSUME NEW w \in 1 .. Concurrency, pc'[w] \in Unstored
                  PROVE  Alone(w)'
      BY DEF UnstoredAlone
    <3>1. pc[w] \in Unstored /\ \A v \in 1 .. Concurrency : pc'[v] = pc[v]
      BY <1>0, <2>9
    <3>2. Alone(w) /\ IsSegment(task[w])
      BY <3>1 DEF DownloadInv, UnstoredAlone, SegmentsKnown
    <3>3. task[w].index >= n /\ task[w].index # n
      BY <1>0, <2>2, <3>2 DEF Alone
    <3>4. task[w].index >= n + 1
      BY <1>0, <3>2, <3>3 DEF IsSegment
    <3>5. task' = task /\ taskMap' = taskMap /\ notify' = notify /\ Len(output') = n + 1 /\ pc'[0] # "copy"
      BY <2>1, <2>5, <2>6, <2>9
    <3>6. \A v \in 1 .. Concurrency :
             v # w /\ pc'[v] \in Unstored \cup {"notify"} => task[v].index # task[w].index
      BY <3>1, <3>2 DEF Alone
    <3>. QED  BY <3>2, <3>4, <3>5, <3>6 DEF Alone
  <2>15. WgCounts'
    BY <1>0, <2>1, <2>6, CounterMoves
  <2>16. Merging' /\ ErrorsKept'
    BY <1>0, <2>1, <2>5, <2>6, <2>7, <2>8, <2>9 DEF DownloadInv, Merging, ErrorsKept, Complete
  <2>. QED  BY <2>10, <2>13, <2>14, <2>15, <2>16 DEF DownloadInv
<1>. QED  BY <1>1, <1>2

LEMMA CleanupTyped ==
  ASSUME DownloadInv, Download!cleanupTempDir
  PROVE  tempDir' \in BOOLEAN /\ cleaned' \in BOOLEAN /\ UNCHANGED output
<1>1. tempDir \in BOOLEAN
  BY DEF DownloadInv, DownloadTyped
<1>. QED  BY <1>1 DEF Download!cleanupTempDir

LEMMA mergeCleanupKeeps ==
  ASSUME DownloadConstants, DownloadInv, Download!mergeCleanup
  PROVE  DownloadInv'
<1>. USE DEF Download!doVars, Download!chanVars, Download!wgVars, Download!diskVars, Download!Merger
<1>0. /\ 0 \in Goroutines /\ pc[0] = "cleanup" /\ Complete
      /\ UNCHANGED <<size, main, start, next, result, task, taskMap, notify, done, wg, waiter, panicked, output>>
      /\ tempDir' \in BOOLEAN /\ cleaned' \in BOOLEAN
  <2>1. 0 \in Goroutines /\ pc[0] = "cleanup" /\ Complete /\ Download!cleanupTempDir
    BY DEF Goroutines, DownloadConstants, DownloadInv, Merging, Download!mergeCleanup
  <2>2. UNCHANGED <<size, main, start, next, result, task, taskMap, notify, done, wg, waiter, panicked>>
    BY DEF Download!mergeCleanup
  <2>. QED  BY <2>1, <2>2, CleanupTyped
<1>1. CASE tempDir'
  <2>0. pc' = [pc EXCEPT ![0] = "stop"] /\ errCh' = TRUE /\ reported' = TRUE
    BY <1>1 DEF Download!mergeCleanup, Download!Goto
  <2>1. /\ pc' \in [Goroutines -> WorkerAt \cup MergerAt]
        /\ pc'[0] \in MergerAt /\ \A w \in 1 .. Concurrency : pc'[w] \in WorkerAt
        /\ pc'[0] = "stop" /\ \A h \in Goroutines : h # 0 => pc'[h] = pc[h]
    BY <1>0, <2>0, PcTyped DEF MergerAt
  <2>2. DownloadTyped' /\ Splitting'
    BY <1>0, <2>0, <2>1 DEF DownloadInv, DownloadTyped, Splitting
  <2>3. SegmentsKnown' /\ UnstoredAlone'
    BY <1>0, <2>0, SegmentsRest DEF Unstored
  <2>4. WgCounts'
    BY <1>0, <2>0, CounterMoves DEF Counting
  <2>5. Download!lastIndex' = Download!lastIndex
    BY <1>0 DEF Download!lastIndex
  <2>6. Merging' /\ ErrorsKept'
    BY <1>0, <2>0, <2>1, <2>5 DEF DownloadInv, Merging, ErrorsKept, Complete
  <2>. QED  BY <2>2, <2>3, <2>4, <2>6 DEF DownloadInv
<1>2. CASE ~tempDir'
  <2>1. pc' = [pc EXCEPT ![0] = "leave"] /\ UNCHANGED <<errCh, reported>>
    BY <1>2 DEF Download!mergeCleanup, Download!Goto
  <2>2. "leave" \in MergerAt /\ "leave" \in Counting /\ pc[0] \in Counting /\ "leave" \notin Unstored
    BY <1>0 DEF MergerAt, Counting, Unstored
  <2>. QED  BY <1>0, <2>1, <2>2, MoveKeeps
<1>. QED  BY <1>1, <1>2

LEMMA wgWaitKeeps ==
  ASSUME DownloadConstants, DownloadInv, Download!wgWait
  PROVE  DownloadInv'
<1>. USE DEF Download!doVars, Download!chanVars, Download!diskVars
<1>0. /\ 0 \in Goroutines
      /\ UNCHANGED <<size, main, start, next, result, pc, task, taskMap, notify, errCh, done, wg,
                     files, tempDir, cleaned, output, reported>>
  BY DEF Goroutines, DownloadConstants, Download!wgWait
<1>1. waiter # "none" /\ waiter' # "none" /\ (waiter' \in {"woken", "closed"} => pc[0] = "exit")
  <2>1. CASE waiter = "start" /\ waiter' = IF wg = 0 THEN "closed" ELSE "waiting"
    <3>1. wg = 0 => pc[0] \notin Counting
      BY <1>0, NobodyOwes DEF DownloadInv
    <3>2. pc[0] # "none" /\ pc[0] \in MergerAt
      BY <2>1 DEF DownloadInv, Merging, DownloadTyped
    <3>. QED  BY <2>1, <3>1, <3>2 DEF MergerAt, Counting
  <2>2. CASE waiter = "woken" /\ waiter' = "closed"
    BY <2>2 DEF DownloadInv, Merging
  <2>. QED  BY <2>1, <2>2 DEF Download!wgWait
<1>2. panicked' \in BOOLEAN
  BY DEF Download!wgWait, DownloadInv, DownloadTyped
<1>3. DownloadTyped' /\ Splitting' /\ SegmentsKnown' /\ UnstoredAlone'
  BY <1>0, <1>2 DEF DownloadInv, DownloadTyped, Splitting, SegmentsKnown, IsSegment, Segment, UnstoredAlone, Alone
<1>4. WgCounts'
  BY <1>0 DEF DownloadInv, WgCounts, Owing
<1>5. Download!lastIndex' = Download!lastIndex
  BY <1>0 DEF Download!lastIndex
<1>6. Merging' /\ ErrorsKept'
  BY <1>0, <1>1, <1>5 DEF DownloadInv, Merging, ErrorsKept, Complete
<1>. QED  BY <1>3, <1>4, <1>6 DEF DownloadInv

\* The steps of Do after the segments are cut: only its own state, errCh and
\* doneCh change.
LEMMA DoKeeps ==
  ASSUME DownloadConstants, DownloadInv,
         UNCHANGED <<size, start, next, pc, task, taskMap, notify, wg, waiter, panicked, output, reported>>,
         tempDir' \in BOOLEAN, cleaned' \in BOOLEAN,
         main' \in {"await", "defer", "cleanup", "return"},
         result' \in {"none", "nil", "error", "canceled"},
         errCh' \in {FALSE, errCh}, done' \in {TRUE, done},
         done' => done \/ reported \/ main' = "cleanup",
         done /\ main \in {"cleanup", "return"} => main' \in {"cleanup", "return"},
         main' = "await" => result' = "none",
         result' = "nil" => ~reported /\ pc[0] = "exit" /\ Complete
  PROVE  DownloadInv'
<1>1. DownloadTyped' /\ Splitting' /\ UnstoredAlone'
  BY DEF DownloadInv, DownloadTyped, Splitting, UnstoredAlone, Alone
<1>2. SegmentsKnown'
  BY DEF DownloadInv, SegmentsKnown, IsSegment, Segment
<1>3. WgCounts'
  BY DEF DownloadInv, WgCounts, Owing
<1>4. Download!lastIndex' = Download!lastIndex
  BY DEF Download!lastIndex
<1>5. Merging'
  BY <1>4 DEF DownloadInv, Merging, Complete
<1>6. ErrorsKept'
  <2>1. errCh' => errCh
    OBVIOUS
  <2>. QED  BY <1>4, <2>1 DEF DownloadInv, ErrorsKept, Complete
<1>. QED  BY <1>1, <1>2, <1>3, <1>5, <1>6 DEF DownloadInv

LEMMA doRestKeeps ==
  ASSUME DownloadConstants, DownloadInv,
         Download!doStopped \/ Download!doWgDone \/ Download!doError \/ Download!doAwait \/ Download!doDefer \/ Download!doCleanup
  PROVE  DownloadInv'
<1>. USE DEF Download!chanVars, Download!wgVars, Download!diskVars, Download!Return
<1>0. tempDir \in BOOLEAN /\ cleaned \in BOOLEAN /\ errCh \in BOOLEAN
      /\ result \in {"none", "nil", "error", "canceled"}
  BY DEF DownloadInv, DownloadTyped
<1>1. CASE Download!doStopped
  BY <1>0, <1>1, DoKeeps DEF Download!doStopped
<1>2. CASE Download!doWgDone
  <2>1. ~errCh => ~reported /\ pc[0] = "exit" /\ Complete
    BY <1>2 DEF Download!doWgDone, DownloadInv, Merging, ErrorsKept
  <2>. QED  BY <1>0, <1>2, <2>1, DoKeeps DEF Download!doWgDone
<1>3. CASE Download!doError
  <2>1. reported /\ result = "none"
    BY <1>3 DEF Download!doError, DownloadInv, ErrorsKept
  <2>. QED  BY <1>0, <1>3, <2>1, DoKeeps DEF Download!doError
<1>4. CASE Download!doAwait
  BY <1>0, <1>4, DoKeeps DEF Download!doAwait
<1>5. CASE Download!doDefer
  <2>1. result = "nil" => ~reported /\ pc[0] = "exit" /\ Complete
    BY DEF DownloadInv, ErrorsKept
  <2>. QED  BY <1>0, <1>5, <2>1, DoKeeps DEF Download!doDefer
<1>6. CASE Download!doCleanup
  <2>1. result = "nil" => ~reported /\ pc[0] = "exit" /\ Complete
    BY DEF DownloadInv, ErrorsKept
  <2>2. tempDir' \in BOOLEAN /\ cleaned' \in BOOLEAN /\ UNCHANGED output
    BY <1>6, CleanupTyped DEF Download!doCleanup
  <2>. QED  BY <1>0, <1>6, <2>1, <2>2, DoKeeps DEF Download!doCleanup
<1>. QED  BY <1>1, <1>2, <1>3, <1>4, <1>5, <1>6

LEMMA doHeadKeeps ==
  ASSUME DownloadConstants, DownloadInv, Download!doHead
  PROVE  DownloadInv'
<1>. USE DEF Download!chanVars, Download!diskVars, Download!Merger
<1>0. /\ 0 \in Goroutines /\ main = "head" /\ pc[0] = "none" /\ waiter = "none" /\ next = 0 /\ start = 0
      /\ result = "none" /\ size \in Int
      /\ UNCHANGED <<size, start, next, task, taskMap, notify, errCh, done, panicked, files, tempDir, cleaned,
                     output, reported>>
  BY DEF Download!doHead, DownloadInv, Merging, Splitting, ErrorsKept, Goroutines, DownloadConstants
<1>1. CASE main' = "defer" /\ result' = "error" /\ UNCHANGED <<wg, pc, waiter>>
  BY <1>0, <1>1, DoKeeps DEF DownloadInv, DownloadTyped
<1>2. CASE /\ size > 0 /\ main' = "send" /\ wg' = wg + 1 /\ pc' = [pc EXCEPT ![0] = "output"]
           /\ waiter' = "start" /\ UNCHANGED result
  <2>1. /\ pc' \in [Goroutines -> WorkerAt \cup MergerAt]
        /\ pc'[0] \in MergerAt /\ \A w \in 1 .. Concurrency : pc'[w] \in WorkerAt
        /\ pc'[0] = "output" /\ \A h \in Goroutines : h # 0 => pc'[h] = pc[h]
    BY <1>0, <1>2, PcTyped DEF MergerAt
  <2>2. DownloadTyped'
    BY <1>0, <1>2, <2>1 DEF DownloadInv, DownloadTyped
  <2>3. Splitting'
    BY <1>0, <1>2, Offsets DEF DownloadInv, Splitting
  <2>4. SegmentsKnown' /\ UnstoredAlone'
    BY <1>0, <1>2, SegmentsRest DEF Unstored
  <2>5. WgCounts'
    BY <1>0, <1>2, CounterMoves DEF Counting
  <2>6. Download!lastIndex' = Download!lastIndex
    BY <1>0 DEF Download!lastIndex
  <2>7. Merging' /\ ErrorsKept'
    BY <1>0, <1>2, <2>1, <2>6 DEF DownloadInv, Merging, ErrorsKept, Complete
  <2>. QED  BY <2>2, <2>3, <2>4, <2>5, <2>7 DEF DownloadInv
<1>. QED  BY <1>1, <1>2 DEF Download!doHead, Download!Return, Download!Goto

\* Do cuts the next segment and hands it to an idle worker.
LEMMA doSendKeeps ==
  ASSUME DownloadConstants, DownloadInv, Download!doSend
  PROVE  DownloadInv'
<1>. USE DEF Download!chanVars, Download!wgVars, Download!diskVars
<1>0. /\ main = "send" /\ next' = next + 1 /\ next \in Nat /\ size \in Int /\ size > 0
      /\ start = Off(next) /\ Off(next) < size /\ start \in Int
      /\ UNCHANGED <<size, result, taskMap, notify, errCh, done, wg, waiter, panicked, files, tempDir, cleaned,
                     output, reported>>
  BY DEF Download!doSend, DownloadInv, Splitting
<1>1. /\ Off(next) \in Nat /\ Off(next + 1) \in Nat /\ Off(next + 1) = Off(next) + SegmentSize
      /\ SegmentSize \in Nat /\ SegmentSize > 0
  BY <1>0, Offsets DEF DownloadConstants
<1>. DEFINE s == Segment(next)
<1>2. s = [index |-> next, first |-> start, last |-> Download!SegmentEnd]
  <2>1. Off(next + 1) - 1 = start + SegmentSize - 1
    BY <1>0, <1>1
  <2>. QED  BY <1>0, <2>1 DEF Segment, Download!SegmentEnd
<1>3. s \in Download!Tasks /\ s.index = next
  BY <1>0, SegmentTyped
<1>4. PICK w \in Download!Workers : /\ pc[w] = "idle" /\ task' = [task EXCEPT ![w] = s]
                                    /\ pc' = [pc EXCEPT ![w] = "add"]
  BY <1>2 DEF Download!doSend, Download!Goto
<1>. HIDE DEF s
<1>5. w \in Goroutines /\ w # 0 /\ w \in 1 .. Concurrency /\ 0 \in Goroutines
      /\ \A v \in 1 .. Concurrency : v \in Goroutines
  BY DEF Download!Workers, Goroutines, DownloadConstants
<1>6. /\ pc' \in [Goroutines -> WorkerAt \cup MergerAt]
      /\ pc'[0] \in MergerAt /\ \A v \in 1 .. Concurrency : pc'[v] \in WorkerAt
      /\ pc'[w] = "add" /\ \A h \in Goroutines : h # w => pc'[h] = pc[h]
  BY <1>4, <1>5, PcTyped DEF WorkerAt
<1>7. /\ task' \in [Goroutines -> Download!Tasks \cup {Download!NoTask}] /\ task'[w] = s
      /\ \A h \in Goroutines : h # w => task'[h] = task[h]
  BY <1>3, <1>4, <1>5 DEF DownloadInv, DownloadTyped
<1>8. DownloadTyped'
  <2>1. main' \in {"send", "wait"}
    BY <1>0 DEF Download!doSend
  <2>. QED  BY <1>0, <1>6, <1>7, <2>1 DEF DownloadInv, DownloadTyped
<1>9. Splitting'
  <2>1. Off(next' - 1) = Off(next) /\ next' \in Nat
    BY <1>0
  <2>2. CASE Download!SegmentEnd < size - 1 /\ start' = Download!SegmentEnd + 1 /\ main' = main
    <3>1. Download!SegmentEnd = Off(next + 1) - 1
      BY <1>0, <1>1, <2>2 DEF Download!SegmentEnd
    <3>2. start' = Off(next') /\ Off(next') < size /\ start' \in Int
      BY <1>0, <1>1, <2>2, <3>1
    <3>3. (main = "send" => size > 0 /\ start = Off(next) /\ Off(next) < size)'
      BY <1>0, <3>2 DEF Off
    <3>4. (next > 0 => size > 0 /\ Off(next - 1) < size)'
      BY <1>0, <2>1 DEF Off
    <3>. QED  BY <1>0, <2>1, <2>2, <3>2, <3>3, <3>4 DEF Splitting
  <2>3. CASE main' = "wait" /\ start' = start
    <3>4. (next > 0 => size > 0 /\ Off(next - 1) < size)'
      BY <1>0, <2>1 DEF Off
    <3>. QED  BY <1>0, <2>1, <2>3, <3>4 DEF Splitting
  <2>. QED  BY <2>2, <2>3 DEF Download!doSend
<1>. DEFINE P(t) == /\ t.index \in 0 .. next' - 1
                    /\ t = [index |-> t.index, first |-> Off(t.index),
                            last |-> IF Off(t.index + 1) - 1 > size' - 1 THEN size' - 1
                                                                       ELSE Off(t.index + 1) - 1]
<1>10. \A t : IsSegment(t) => P(t) /\ t.index # next
  <2>. SUFFICES ASSUME NEW t, IsSegment(t) PROVE P(t) /\ t.index # next
    OBVIOUS
  <2>1. t.index \in 0 .. next - 1 /\ t = Segment(t.index)
    BY DEF IsSegment
  <2>2. t.index \in 0 .. next' - 1 /\ t.index # next
    BY <1>0, <2>1
  <2>. QED  BY <1>0, <2>1, <2>2 DEF Segment
<1>11. P(s)
  <2>1. s.index = next /\ next \in 0 .. next' - 1
    BY <1>0, <1>3
  <2>. QED  BY <1>0, <2>1 DEF s, Segment
<1>12. SegmentsKnown'
  <2>1. Len(output) \in Nat /\ Len(output) <= next
    BY DEF DownloadInv, DownloadTyped, SegmentsKnown
  <2>2. \A i \in 1 .. Len(output) : output'[i] = Segment(i - 1)'
    BY <1>0 DEF Segment, DownloadInv, SegmentsKnown
  <2>3. \A v \in 1 .. Concurrency : pc'[v] \in Unstored \cup {"notify"} => P(task'[v])
    <3>. SUFFICES ASSUME NEW v \in 1 .. Concurrency, pc'[v] \in Unstored \cup {"notify"}
                  PROVE  P(task'[v])
      OBVIOUS
    <3>1. CASE v = w
      BY <1>7, <1>11, <3>1
    <3>2. CASE v # w
      <4>1. pc'[v] = pc[v] /\ task'[v] = task[v]
        BY <1>5, <1>6, <1>7, <3>2
      <4>2. IsSegment(task[v])
        BY <4>1 DEF DownloadInv, SegmentsKnown
      <4>3. P(task[v])
        BY <1>10, <4>2
      <4>. QED  BY <4>1, <4>3
    <3>. QED  BY <3>1, <3>2
  <2>4. pc'[0] = pc[0] /\ task'[0] = task[0]
    BY <1>5, <1>6, <1>7
  <2>. HIDE DEF P
  <2>5. \A t \in taskMap' : P(t)
    BY <1>0, <1>10 DEF DownloadInv, SegmentsKnown
  <2>6. \A i \in 1 .. Len(notify') : P(notify'[i])
    BY <1>0, <1>10 DEF DownloadInv, SegmentsKnown
  <2>7. pc'[0] = "copy" => P(task'[0]) /\ task'[0].index = Len(output')
    BY <1>0, <1>10, <2>4 DEF DownloadInv, SegmentsKnown
  <2>8. Len(output') <= next'
    BY <1>0, <2>1
  <2>9. (\A v \in 1 .. Concurrency : pc[v] \in Unstored \cup {"notify"} => IsSegment(task[v]))'
    BY <2>3 DEF P, IsSegment, Segment, Off
  <2>10. (\A t \in taskMap : IsSegment(t))'
    BY <2>5 DEF P, IsSegment, Segment, Off
  <2>11. (\A i \in 1 .. Len(notify) : IsSegment(notify[i]))'
    BY <2>6 DEF P, IsSegment, Segment, Off
  <2>12. (pc[0] = "copy" => IsSegment(task[0]) /\ task[0].index = Len(output))'
    BY <2>7 DEF P, IsSegment, Segment, Off
  <2>. QED  BY <1>0, <2>2, <2>8, <2>9, <2>10, <2>11, <2>12 DEF SegmentsKnown
<1>13. UnstoredAlone'
  <2>1. /\ \A t \in taskMap : t.index # next
        /\ \A i \in 1 .. Len(notify) : notify[i].index # next
        /\ pc[0] = "copy" => task[0].index # next
        /\ \A v \in 1 .. Concurrency : pc[v] \in Unstored \cup {"notify"} => task[v].index # next
        /\ next >= Len(output)
    BY <1>10 DEF DownloadInv, SegmentsKnown, DownloadTyped
  <2>2. pc'[0] = pc[0] /\ task'[0] = task[0]
    BY <1>5, <1>6, <1>7
  <2>. SUFFICES ASSUME NEW v \in 1 .. Concurrency, pc'[v] \in Unstored
                PROVE  Alone(v)'
    BY DEF UnstoredAlone
  <2>3. output' = output /\ taskMap' = taskMap /\ notify' = notify
    BY <1>0
  <2>4. CASE v = w
    <3>1. /\ task'[v].index >= Len(output)
          /\ pc[0] = "copy" => task[0].index # task'[v].index
          /\ \A t \in taskMap : t.index # task'[v].index
          /\ \A i \in 1 .. Len(notify) : notify[i].index # task'[v].index
          /\ \A u \in 1 .. Concurrency :
                u # v /\ pc'[u] \in Unstored \cup {"notify"} => task'[u].index # task'[v].index
      BY <1>3, <1>5, <1>6, <1>7, <2>1, <2>4
    <3>. QED  BY <2>2, <2>3, <3>1 DEF Alone
  <2>5. CASE v # w
    <3>1. pc[v] \in Unstored /\ task'[v] = task[v]
      BY <1>3, <1>5, <1>6, <1>7, <2>5
    <3>2. Alone(v)
      BY <3>1 DEF DownloadInv, UnstoredAlone
    <3>3. \A u \in 1 .. Concurrency :
             u # v /\ pc'[u] \in Unstored \cup {"notify"} => task'[u].index # task'[v].index
      BY <1>3, <1>5, <1>6, <1>7, <2>1, <3>1, <3>2 DEF Alone
    <3>. QED  BY <2>2, <2>3, <3>1, <3>2, <3>3 DEF Alone
  <2>. QED  BY <2>4, <2>5
<1>14. WgCounts'
  BY <1>0, <1>4, <1>5, CounterMoves DEF Counting
<1>15. Download!lastIndex' = Download!lastIndex
  BY <1>0 DEF Download!lastIndex
<1>16. Merging' /\ ErrorsKept'
  <2>1. main' \in {"send", "wait"} /\ pc'[0] = pc[0]
    BY <1>0, <1>5, <1>6 DEF Download!doSend
  <2>. QED  BY <1>0, <1>5, <1>6, <1>15, <2>1 DEF DownloadInv, Merging, ErrorsKept, Complete
<1>. QED  BY <1>8, <1>9, <1>12, <1>13, <1>14, <1>16 DEF DownloadInv

LEMMA DownloadInit == DownloadConstants /\ Download!Init => DownloadInv
<1>. SUFFICES ASSUME DownloadConstants, Download!Init PROVE DownloadInv
  OBVIOUS
<1>. USE DEF Download!Init, Download!Workers, Download!Merger
<1>0. Download!Workers \cup {Download!Merger} = Goroutines /\ 0 \in Goroutines
  BY DEF DownloadConstants, Goroutines
<1>1. pc = [g \in Goroutines |-> IF g = 0 THEN "none" ELSE "idle"] /\ task = [g \in Goroutines |-> Download!NoTask]
  BY <1>0
<1>2. DownloadTyped
  <2>1. \A w \in 1 .. Concurrency : w \in Goroutines /\ w # 0
    BY DEF DownloadConstants, Goroutines
  <2>2. notify \in Seq(Download!Tasks) /\ output \in Seq(Download!Tasks) /\ Len(notify) <= Concurrency
    BY DEF DownloadConstants
  <2>. QED  BY <1>0, <1>1, <2>1, <2>2 DEF DownloadTyped, WorkerAt, MergerAt
<1>3. Splitting
  BY DEF Splitting, DownloadConstants
<1>4. SegmentsKnown /\ UnstoredAlone
  <2>1. \A w \in 1 .. Concurrency : pc[w] = "idle"
    BY <1>1 DEF DownloadConstants, Goroutines
  <2>. QED  BY <1>0, <1>1, <2>1 DEF SegmentsKnown, UnstoredAlone, Alone, Unstored
<1>5. Merging /\ ErrorsKept
  BY <1>0, <1>1 DEF Merging, ErrorsKept
<1>6. WgCounts
  <2>1. Owing = {}
    BY <1>1 DEF Owing, Counting
  <2>. QED  BY <2>1, FS_EmptySet DEF WgCounts
<1>. QED  BY <1>2, <1>3, <1>4, <1>5, <1>6 DEF DownloadInv

LEMMA DownloadStep == DownloadConstants /\ DownloadInv /\ [Download!Next]_(Download!vars) => DownloadInv'
<1>. SUFFICES ASSUME DownloadConstants, DownloadInv, [Download!Next]_(Download!vars) PROVE DownloadInv'
  OBVIOUS
<1>1. CASE UNCHANGED Download!vars
  <2>1. UNCHANGED <<size, main, start, next, result, pc, task, taskMap, notify, errCh, done, wg, waiter,
                    panicked, files, tempDir, cleaned, output, reported>>
    BY <1>1 DEF Download!vars, Download!doVars, Download!chanVars, Download!wgVars, Download!diskVars
  <2>2. DownloadTyped' /\ Splitting' /\ SegmentsKnown' /\ UnstoredAlone'
    BY <2>1, SMTT(30) DEF DownloadInv, DownloadTyped, Splitting, SegmentsKnown, IsSegment, Segment, UnstoredAlone, Alone
  <2>3. WgCounts' /\ Download!lastIndex' = Download!lastIndex
    BY <2>1 DEF DownloadInv, WgCounts, Owing, Download!lastIndex
  <2>4. Merging' /\ ErrorsKept'
    BY <2>1, <2>3 DEF DownloadInv, Merging, ErrorsKept, Complete
  <2>. QED  BY <2>2, <2>3, <2>4 DEF DownloadInv
<1>2. Download!Workers \cup {Download!Merger} = Goroutines
  BY DEF DownloadConstants, Goroutines, Download!Workers, Download!Merger
<1>3. ASSUME NEW g \in Goroutines, Download!Goroutine(g) PROVE DownloadInv'
  BY <1>3, stopKeeps, wgDoneKeeps, workerKeeps, completeKeeps, popKeeps, copySegmentKeeps, mergeCleanupKeeps
     DEF Download!Goroutine, Download!mergeFile, Download!handleTask
<1>4. CASE Download!Do
  BY <1>4, doHeadKeeps, doSendKeeps, doRestKeeps DEF Download!Do
<1>. QED  BY <1>1, <1>2, <1>3, <1>4, wgWaitKeeps DEF Download!Next

LEMMA DownloadSafe ==
  ASSUME DownloadConstants
  PROVE  DownloadInv => Download!TypeOK /\ Download!NoSilentFailure /\ Download!CompleteOnSuccess
<1>. SUFFICES ASSUME DownloadInv PROVE Download!TypeOK /\ Download!NoSilentFailure /\ Download!CompleteOnSuccess
  OBVIOUS
<1>1. Download!TypeOK
  <2>1. Download!Workers \cup {Download!Merger} = Goroutines
    BY DEF DownloadConstants, Goroutines, Download!Workers, Download!Merger
  <2>2. wg \in 0 .. (Concurrency + 1)
    BY OwingFinite DEF DownloadInv, WgCounts
  <2>3. pc \in [Goroutines -> {"none", "idle", "add", "open", "get", "store", "notify",
               "output", "pop", "wait", "copy", "cleanup", "stop", "leave", "exit"}]
    BY DEF DownloadInv, DownloadTyped, WorkerAt, MergerAt
  <2>. QED  BY <2>1, <2>2, <2>3 DEF DownloadInv, DownloadTyped, Download!TypeOK
<1>2. Download!NoSilentFailure
  BY DEF DownloadInv, ErrorsKept, Download!NoSilentFailure
<1>3. Download!CompleteOnSuccess
  <2>. SUFFICES ASSUME result = "nil" PROVE Complete /\ Len(output) > 0
    BY CompleteIsWhole DEF Download!CompleteOnSuccess
  <2>1. Complete /\ pc[0] = "exit" /\ size > 0 /\ size \in Int
    BY DEF DownloadInv, ErrorsKept, Merging, Splitting
  <2>2. Download!lastIndex \in Nat
    BY <2>1, LastSegment
  <2>. QED  BY <2>1, <2>2 DEF Complete
<1>. QED  BY <1>1, <1>2, <1>3

\* ParallelDownload.Do, for every content length, segment size and number of
\* workers: it returns nil only when no goroutine reported an error and the output
\* is the resource from its first to its last byte; and the WaitGroup counter is
\* the number of goroutines that owe it a Done.
THEOREM DownloadCorrect == Spec => []DownloadComplete
<1>. DEFINE I == part = "download" => DownloadInv
<1>1. Init => I
  BY DownloadInit, DownloadAssumption DEF Init
<1>2. I /\ [Next]_all => I'
  <2>. SUFFICES ASSUME I, [Next]_all, part' = "download" PROVE DownloadInv'
    OBVIOUS
  <2>1. part = "download" /\ [Download!Next]_(Download!vars)
    BY DEF Next, all, Download!vars, Download!doVars, Download!chanVars, Download!wgVars, Download!diskVars
  <2>. QED  BY <2>1, DownloadStep, DownloadAssumption
<1>3. I => DownloadComplete
  BY DownloadSafe, DownloadAssumption DEF DownloadComplete
<1>. QED  BY <1>1, <1>2, <1>3, PTL DEF Spec
=============================================================================
