------------------------------ MODULE DataBuffer ------------------------------
(***************************************************************************)
(* dataBuffer (internal/http2/databuffer.go): the bytes of a response body *)
(* kept in a list of chunks of a few sizes, taken from pools and put back  *)
(* when they are read; r and w are offsets into the first and the last.    *)
(***************************************************************************)
EXTENDS Integers, Sequences, FiniteSetsExt

CONSTANTS Classes,    \* sizes of the chunks
          MaxBytes,   \* bound: bytes written
          Writes,     \* sizes of the slices written
          Reads,      \* sizes of the slices read into
          Expected    \* values of Content-Length given to the buffer

VARIABLES chunks, r, w, size, expected,
          writtenBytes, readBytes   \* what went in and what came out

bufVars == <<chunks, r, w, size, expected, writtenBytes, readBytes>>

\* A byte of a chunk that was used before.
Stale == 0

\* getDataBufferChunk: the smallest class that holds n bytes, or the largest.
getDataBufferChunk(n) ==
    LET fits == {c \in Classes : n <= c}
        len == IF fits = {} THEN Max(Classes) ELSE Min(fits)
    IN [i \in 1 .. len |-> Stale]

Init ==
    /\ chunks = <<>> /\ r = 0 /\ w = 0 /\ size = 0 /\ expected \in Expected
    /\ writtenBytes = <<>> /\ readBytes = <<>>

\* Mutant: a full last chunk is taken for one with room.
lastChunkOrAlloc_first(b, want) ==
    IF b.chunks # <<>> /\ b.w < Len(b.chunks[1]) THEN b
    ELSE [b EXCEPT !.chunks = Append(@, getDataBufferChunk(want)), !.w = 0]

\* lastChunkOrAlloc, b holding chunks, w and the bytes still to write.
lastChunkOrAlloc(b, want) ==
    IF b.chunks # <<>> /\ b.w < Len(b.chunks[Len(b.chunks)]) THEN b
    ELSE [b EXCEPT !.chunks = Append(@, getDataBufferChunk(want)), !.w = 0]

\* One turn of Write's loop: as much of p as the last chunk has room for.
copyIn(b) ==
    LET c == lastChunkOrAlloc(b, Max({Len(b.p), b.expected}))
        last == Len(c.chunks)
        n == Min({Len(c.p), Len(c.chunks[last]) - c.w})
    IN [c EXCEPT !.chunks[last] = [i \in DOMAIN @ |-> IF i > c.w /\ i <= c.w + n
                                                      THEN c.p[i - c.w] ELSE @[i]],
                 !.w = @ + n, !.expected = @ - n, !.p = SubSeq(@, n + 1, Len(@))]

\* The loop, as a function of the number of turns left.
WriteLoop(b0) ==
    LET loop[n \in 0 .. Len(b0.p)] ==
            IF n = 0 THEN b0
            ELSE LET b == loop[n - 1] IN IF b.p = <<>> THEN b ELSE copyIn(b)
    IN loop[Len(b0.p)]

Write ==
    \E n \in Writes :
       LET p == [i \in 1 .. n |-> Len(writtenBytes) + i]
           b == WriteLoop([chunks |-> chunks, w |-> w, expected |-> expected, p |-> p])
       IN /\ Len(writtenBytes) + n <= MaxBytes
          /\ chunks' = b.chunks /\ w' = b.w /\ expected' = b.expected
          /\ size' = size + n
          /\ writtenBytes' = writtenBytes \o p
          /\ UNCHANGED <<r, readBytes>>

\* bytesFromFirstChunk.
bytesFromFirstChunk(b) ==
    SubSeq(b.chunks[1], b.r + 1, IF Len(b.chunks) = 1 THEN w ELSE Len(b.chunks[1]))

\* One turn of Read's loop, with room for b.k more bytes.
copyOut(b) ==
    LET from == bytesFromFirstChunk(b)
        n == Min({b.k, Len(from)})
        used == b.r + n = Len(b.chunks[1])
    IN [b EXCEPT !.out = @ \o SubSeq(from, 1, n), !.k = @ - n, !.size = @ - n,
                 !.r = IF used THEN 0 ELSE @ + n,
                 !.chunks = IF used THEN Tail(@) ELSE @]

ReadLoop(b0) ==
    LET loop[n \in 0 .. b0.k] ==
            IF n = 0 THEN b0
            ELSE LET b == loop[n - 1] IN IF b.k = 0 \/ b.size = 0 THEN b ELSE copyOut(b)
    IN loop[b0.k]

\* Read; the pipe calls it only when there is data.
Read ==
    /\ size > 0
    /\ \E k \in Reads :
          LET b == ReadLoop([chunks |-> chunks, r |-> r, size |-> size, k |-> k, out |-> <<>>])
          IN /\ chunks' = b.chunks /\ r' = b.r /\ size' = b.size
             /\ readBytes' = readBytes \o b.out
    /\ UNCHANGED <<w, expected, writtenBytes>>

Next == Write \/ Read

Spec == Init /\ [][Next]_bufVars

\* The chunked buffer is a queue of bytes: what was read is exactly the oldest
\* part of what was written, never a stale byte of a recycled chunk, and size
\* counts the rest, for every way the writes and reads fall across chunks.
BufferIsQueue ==
    /\ size = Len(writtenBytes) - Len(readBytes)
    /\ readBytes = SubSeq(writtenBytes, 1, Len(readBytes))
=============================================================================
