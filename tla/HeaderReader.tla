---------------------------- MODULE HeaderReader ----------------------------
(***************************************************************************)
(* Reading the header of an HTTP/1 response: textproto_reader.go.  The     *)
(* lines come out of a bufio.Reader that holds BufSize bytes, so a long    *)
(* line comes in pieces; a line that begins with a space continues the one *)
(* before it.  With a dump the lines are read by a function of its own.    *)
(*                                                                         *)
(* A byte is "a" (a letter of a name or a value), ":", "_" (a space) or    *)
(* "n" (the end of a line; a "\r" before it is part of it).                *)
(***************************************************************************)
EXTENDS Integers, Sequences, FiniteSets

CONSTANTS HeaderInputs,  \* the headers, as sequences of bytes
          Dumping,       \* whether a Dumper wants the response header
          BufSize        \* capacity of the bufio.Reader

VARIABLES
  htext,   \* the header as it was sent
  hdump,   \* the response header is dumped
  unread,  \* what has not been read of it
  hpc,     \* "first", "line", "fold", "done", "error"
  piece,   \* the line so far: readLineSlice's line
  kv,      \* readContinuedLineSlice's buffer
  fields   \* the fields read, as <<name, value>>

headerVars == <<htext, hdump, unread, hpc, piece, kv, fields>>

----------------------------------------------------------------------------
(* Lines                                                                   *)

Ends(s) == {i \in 1..Len(s) : s[i] = "n"}
Least(S) == CHOOSE i \in S : \A j \in S : i <= j
Greatest(S) == CHOOSE i \in S : \A j \in S : i >= j

\* How many bytes the next ReadSlice('\n') returns: a line with its end, or a
\* full buffer, or what there is before the end of the connection.
Slice == IF \E i \in Ends(unread) : i <= BufSize THEN Least(Ends(unread))
         ELSE IF Len(unread) < BufSize THEN Len(unread) ELSE BufSize

\* Whether the line goes on in the next slice (bufio.Reader.ReadLine's
\* isPrefix).  The dumping readLine drops the error that says so.
isPrefix == ~hdump /\ Slice = BufSize /\ unread[BufSize] # "n"

Chomp(s) == IF s # <<>> /\ s[Len(s)] = "n" THEN SubSeq(s, 1, Len(s) - 1) ELSE s

\* trim: spaces at both ends.
trim(s) ==
  LET solid == {i \in 1..Len(s) : s[i] # "_"}
  IN IF solid = {} THEN <<>> ELSE SubSeq(s, Least(solid), Greatest(solid))

Rest(k) == SubSeq(unread, k + 1, Len(unread))

----------------------------------------------------------------------------
(* readMIMEHeader.  Its limits are not reached: they are MaxInt64 for a    *)
(* response, whose size the transport bounds (maxHeaderResponseSize).      *)

\* The first line cannot start with a space.
checkFirst ==
  /\ hpc = "first"
  /\ hpc' = IF unread # <<>> /\ unread[1] = "_" THEN "error" ELSE "line"
  /\ UNCHANGED <<htext, hdump, unread, piece, kv, fields>>

\* bytes.TrimLeft: spaces at the end stay.
TrimLeft(s) ==
  LET solid == {i \in 1..Len(s) : s[i] # "_"}
  IN IF solid = {} THEN <<>> ELSE SubSeq(s, Least(solid), Len(s))

\* bytes.Cut at the first colon, canonicalMIMEHeaderKey, TrimLeft.
Field(line) ==
  LET c == Least({i \in 1..Len(line) : line[i] = ":"})
  IN <<SubSeq(line, 1, c - 1), TrimLeft(SubSeq(line, c + 1, Len(line)))>>

\* One turn of readLineSlice; the line is complete when it is no prefix.
\* Mutant: only the first slice of a long line is kept.
Grown_first(l) == IF piece = <<>> THEN l ELSE piece

Grown(l) == piece \o l

readLine ==
  /\ hpc \in {"line", "more"}
  /\ IF unread = <<>>
     THEN hpc' = "error" /\ UNCHANGED <<unread, piece, kv, fields>>
     ELSE LET line == Grown(Chomp(SubSeq(unread, 1, Slice)))
          IN /\ unread' = Rest(Slice)
             /\ UNCHANGED fields
             /\ IF isPrefix
                THEN piece' = line /\ UNCHANGED <<hpc, kv>>
                ELSE /\ piece' = <<>>
                     /\ IF hpc = "more"         \* a continuation line
                        THEN hpc' = "fold" /\ kv' = kv \o <<"_">> \o trim(line)
                        ELSE IF line = <<>>      \* the blank line
                        THEN hpc' = "done" /\ UNCHANGED kv
                        ELSE IF \A i \in 1..Len(line) : line[i] # ":"
                        THEN hpc' = "error" /\ UNCHANGED kv
                        ELSE hpc' = "fold" /\ kv' = trim(line)
  /\ UNCHANGED <<htext, hdump>>

\* skipSpace: does the next line continue this one?
continued ==
  /\ hpc = "fold"
  /\ LET blank == {k \in 0..Len(unread) : \A i \in 1..k : unread[i] = "_"}
         k == Greatest(blank)
     IN IF k > 0
        THEN hpc' = "more" /\ unread' = Rest(k) /\ UNCHANGED <<kv, fields>>
        ELSE /\ UNCHANGED unread /\ kv' = <<>>
             /\ IF Field(kv)[1] = <<>>
                THEN hpc' = "error" /\ UNCHANGED fields
                ELSE hpc' = "line" /\ fields' = Append(fields, Field(kv))
  /\ UNCHANGED <<htext, hdump, piece>>

----------------------------------------------------------------------------
Init ==
  /\ htext \in HeaderInputs /\ hdump \in Dumping
  /\ unread = htext /\ hpc = "first" /\ piece = <<>> /\ kv = <<>> /\ fields = <<>>

Next == checkFirst \/ readLine \/ continued

Spec == Init /\ [][Next]_headerVars

----------------------------------------------------------------------------
(* What the header says, by RFC 9112 section 5: the lines up to the first  *)
(* blank one, each line that begins with a space joined to the line before *)
(* it by one space, and the value without the spaces around it.            *)

LineStarts == {1} \cup {i + 1 : i \in Ends(htext)}
Blank == {i \in LineStarts : i <= Len(htext) /\ htext[i] = "n"}
HeadEnd == Least(Blank)
EndOf(i) == Least({j \in Ends(htext) : j >= i})
Folds == {i \in LineStarts : i < HeadEnd /\ htext[i] = "_"}
Starts == {i \in LineStarts : i < HeadEnd} \ Folds
Nth(S, k) == CHOOSE i \in S : Cardinality({j \in S : j < i}) = k - 1

\* The line that begins at i, and the continuation lines of the field there.
LineAt(i) == trim(SubSeq(htext, i, EndOf(i) - 1))
FoldsOf(i) == {j \in Folds : j > i /\ \A s \in Starts : s > i => j < s}

Logical(i) ==
  LET mine == FoldsOf(i)
      f[k \in 0..Cardinality(mine)] ==
        IF k = 0 THEN LineAt(i) ELSE f[k - 1] \o <<"_">> \o LineAt(Nth(mine, k))
  IN f[Cardinality(mine)]

Name(i)  == SubSeq(Logical(i), 1, Least({c \in 1..Len(Logical(i)) : Logical(i)[c] = ":"}) - 1)
Value(i) == trim(SubSeq(Logical(i), Len(Name(i)) + 2, Len(Logical(i))))

\* The field at i ends in a continuation line of spaces alone.
EndsBlank(i) == FoldsOf(i) # {} /\ LineAt(Greatest(FoldsOf(i))) = <<>>

\* f is the field at i; behind a last line of spaces alone its value keeps a
\* space that does not belong to it.
Means(f, i) ==
  /\ f[1] = Name(i)
  /\ IF EndsBlank(i) THEN trim(f[2]) = Value(i) ELSE f[2] = Value(i)

\* A field's first line holds its colon and a name before it.
WellFormed ==
  /\ Blank # {} /\ 1 \notin Folds
  /\ \A i \in Starts :
       \E c \in 2..Len(LineAt(i)) : LineAt(i)[c] = ":" /\ LineAt(i)[1] # ":"

\* A header is read as what it says, whether it is dumped or not and however
\* its lines lie in the buffer: a well-formed header gives its fields in
\* order, and nothing behind its blank line is consumed ("ReadLine reads a
\* single line from r").  Means has the one exception, a last continuation line
\* of spaces alone.
HeaderMeaning ==
  WellFormed =>
    /\ hpc # "error"
    /\ hpc = "done" => /\ Len(fields) = Cardinality(Starts)
                       /\ \A k \in 1..Len(fields) : Means(fields[k], Nth(Starts, k))
                       /\ unread = SubSeq(htext, HeadEnd + 1, Len(htext))
=============================================================================
