------------------------------ MODULE InStream ------------------------------
(***************************************************************************)
(* The input half of BorrowedStream (stream_base.hpp): each call serves    *)
(* itself from mInBuffer and, when that does not suffice, empties it and   *)
(* waits in fillbuf for the raw stream.  One coroutine reads.              *)
(***************************************************************************)
EXTENDS Pipe

CONSTANT Eols              \* the line ends, as strings

\* A line end has a first character.
ASSUME EolsAssumption ==
    \A eol \in Eols : eol \in Seq(STRING) /\ eol # <<>>

VARIABLES mInBuffer,       \* the memory, or <<>> when it is not allocated
          mInIndex, mInEnd,
          call,            \* the call in progress, or the last one
          got,             \* the bytes consumed by calls, in order
          spoilt           \* peekn has overwritten bytes not yet consumed

in == <<mInBuffer, mInIndex, mInEnd, call, got, spoilt>>

\* at: serving from the buffer, waiting for raw_read, returned, or failed.
\* n: what is still asked for; s: the bytes put into the caller's String or
\* span; p: characters of eol that have matched; from: consumed at the start.
NoCall == [op |-> "none", n |-> 0, eol |-> <<>>, p |-> 0, s |-> <<>>,
           from |-> 0, want |-> 0, at |-> "returned"]

InInit ==
    /\ mInBuffer = <<>> /\ mInIndex = 0 /\ mInEnd = 0
    /\ call = NoCall /\ got = <<>> /\ spoilt = FALSE

Unread == SubSeq(mInBuffer, mInIndex + 1, mInEnd)
bufempty == mInIndex = mInEnd
Has == mInEnd - mInIndex

Ask(op, n, eol) ==
    /\ call.at \in {"returned", "failed"}
    /\ call' = [op |-> op, n |-> n, eol |-> eol, p |-> 0, s |-> <<>>,
                from |-> Len(got), want |-> n, at |-> "buffer"]
    /\ UNCHANGED <<mInBuffer, mInIndex, mInEnd, got, spoilt, pipe>>

Serving(ops) == call.at = "buffer" /\ call.op \in ops

\* Consume k bytes; s goes to the caller.
Take(k, s) ==
    /\ mInIndex' = mInIndex + k
    /\ got' = got \o SubSeq(Unread, 1, k)
    /\ call' = [call EXCEPT !.s = @ \o s, !.at = "returned"]
    /\ UNCHANGED <<mInBuffer, mInEnd, spoilt, pipe>>

\* Empty the buffer, s going to the caller, and fill it again.
Refill(s, n) ==
    /\ mInIndex' = 0 /\ mInEnd' = 0
    /\ got' = got \o Unread
    /\ call' = [call EXCEPT !.s = @ \o s, !.n = n, !.at = "raw"]
    /\ UNCHANGED <<mInBuffer, spoilt, pipe>>

-----------------------------------------------------------------------------
(* Slips the properties must notice; no specification uses them.            *)
GetNStaleCount ==          \* does not count what it took before a refill
    /\ Serving({"getn", "dropn"})
    /\ IF call.n <= Has THEN Take(call.n, SubSeq(Unread, 1, call.n))
       ELSE Refill(Unread, call.n)

FillBufShort ==            \* takes a short read for a full one
    /\ call.at = "raw" /\ call.op # "read"
    /\ \E n \in ReadSizes(Size - mInIndex) :
         /\ mInBuffer' = [i \in 1 .. Size |->
                            IF i \in mInIndex + 1 .. mInIndex + n
                            THEN Incoming(n)[i - mInIndex]
                            ELSE IF mInBuffer = <<>> THEN 0 ELSE mInBuffer[i]]
         /\ mInEnd' = Size
         /\ taken' = taken + n
    /\ call' = [call EXCEPT !.at = "buffer"]
    /\ UNCHANGED <<mInIndex, got, spoilt, wire, closed>>

EofAsData ==               \* takes the end of the file for an empty read
    /\ call.at = "raw" /\ AtEof
    /\ call' = [call EXCEPT !.at = IF call.op = "read" THEN "returned" ELSE "buffer"]
    /\ UNCHANGED <<mInBuffer, mInIndex, mInEnd, got, spoilt, pipe>>

-----------------------------------------------------------------------------
(* getchar, peekchar, getchunk: from a buffer that is not empty.            *)
GetSome ==
    /\ Serving({"getchar", "peekchar", "getchunk"})
    /\ IF bufempty THEN Refill(<<>>, call.n)
       ELSE CASE call.op = "getchar"  -> Take(1, SubSeq(Unread, 1, 1))
              [] call.op = "peekchar" -> Take(0, SubSeq(Unread, 1, 1))
              [] call.op = "getchunk" -> Take(Has, Unread)

\* What getline and getn append, and dropline and dropn do not.
Kept(s) == IF call.op \in {"getline", "getn", "getspan"} THEN s ELSE <<>>

(* getn, dropn.                                                             *)
GetN ==
    /\ Serving({"getn", "dropn"})
    /\ IF call.n <= Has THEN Take(call.n, Kept(SubSeq(Unread, 1, call.n)))
       ELSE Refill(Kept(Unread), call.n - Has)

(* getspan does not count what it has copied before a refill.               *)
GetSpan ==
    /\ Serving({"getspan"})
    /\ IF call.n <= Has THEN Take(call.n, SubSeq(Unread, 1, call.n))
       ELSE Refill(Unread, call.n)

(* getall, dropall; fillbuf's end of file ends them.                        *)
GetAll ==
    /\ Serving({"getall", "dropall"})
    /\ Refill(IF call.op = "getall" THEN Unread ELSE <<>>, 0)

\* Where the character is among the unread ones.
Found(c) == {i \in 1 .. Has : Text[Unread[i]] = c}
First(c) == CHOOSE i \in Found(c) : \A j \in Found(c) : i <= j

\* The last p bytes consumed: they are the first p characters of eol.
Matched == SubSeq(got, Len(got) - call.p + 1, Len(got))

(* getline, dropline: to the first character of eol.                        *)
FindEol ==
    /\ Serving({"getline", "dropline"}) /\ call.p = 0
    /\ IF Found(call.eol[1]) = {} THEN Refill(Kept(Unread), 0)
       ELSE LET i == First(call.eol[1])
            IN  /\ mInIndex' = mInIndex + i
                /\ got' = got \o SubSeq(Unread, 1, i)
                /\ call' = [call EXCEPT !.s = @ \o Kept(SubSeq(Unread, 1, i - 1)),
                                        !.p = 1,
                                        !.at = IF Len(call.eol) = 1
                                               THEN "returned" ELSE "buffer"]
                /\ UNCHANGED <<mInBuffer, mInEnd, spoilt, pipe>>

(* ... and then through eol; a mismatch belongs to the line.                *)
MatchEol ==
    /\ Serving({"getline", "dropline"}) /\ call.p > 0
    /\ IF bufempty THEN Refill(<<>>, 0)
       ELSE LET c == call.eol[call.p + 1]
                matches == Text[Unread[1]] = c
            IN  /\ IF matches
                   THEN /\ mInIndex' = mInIndex + 1
                        /\ got' = Append(got, Unread[1])
                        /\ call' = [call EXCEPT !.p = @ + 1,
                                        !.at = IF Len(call.eol) = call.p + 1
                                               THEN "returned" ELSE "buffer"]
                   ELSE /\ call' = [call EXCEPT !.s = @ \o Kept(Matched), !.p = 0]
                        /\ UNCHANGED <<mInIndex, got>>
                /\ UNCHANGED <<mInBuffer, mInEnd, spoilt, pipe>>

(* read: what the buffer has, or else straight from the raw stream.         *)
Read ==
    /\ Serving({"read"})
    /\ IF bufempty
       THEN /\ call' = [call EXCEPT !.at = "raw"]
            /\ UNCHANGED <<mInBuffer, mInIndex, mInEnd, got, spoilt, pipe>>
       ELSE LET n == AtMost(Has, call.n) IN Take(n, SubSeq(Unread, 1, n))

(* tryread: only from the buffer.                                           *)
TryRead ==
    /\ Serving({"tryread"})
    /\ LET n == AtMost(Has, call.n) IN Take(n, SubSeq(Unread, 1, n))

(* peekn moves the unread bytes to the front when the rest of the buffer is *)
(* too short, and asks fillbuf for more while there are too few.            *)
PeekN ==
    /\ Serving({"peekn"})
    /\ IF Len(mInBuffer) < call.n
       THEN /\ call' = [call EXCEPT !.at = "failed"]
            /\ UNCHANGED <<mInBuffer, mInIndex, mInEnd>>
       ELSE IF Len(mInBuffer) - mInIndex < call.n
       THEN /\ mInBuffer' = [i \in DOMAIN mInBuffer |->
                               IF i <= Has THEN Unread[i] ELSE mInBuffer[i]]
            /\ mInIndex' = 0 /\ mInEnd' = Has
            /\ UNCHANGED call
       ELSE /\ IF Has < call.n
               THEN call' = [call EXCEPT !.at = "raw"]
               ELSE call' = [call EXCEPT !.s = SubSeq(Unread, 1, call.n),
                                         !.at = "returned"]
            /\ UNCHANGED <<mInBuffer, mInIndex, mInEnd>>
    /\ UNCHANGED <<got, spoilt, pipe>>

-----------------------------------------------------------------------------
(* fillbuf: raw_read puts n bytes at mInIndex, over what is there.          *)
FillBuf ==
    /\ call.at = "raw" /\ call.op # "read"
    /\ LET memory == IF mInBuffer = <<>> THEN [i \in 1 .. Size |-> 0] ELSE mInBuffer
       IN  \E n \in ReadSizes(Len(memory) - mInIndex) :
             /\ mInBuffer' = [i \in DOMAIN memory |->
                                IF i \in mInIndex + 1 .. mInIndex + n
                                THEN Incoming(n)[i - mInIndex] ELSE memory[i]]
             /\ mInEnd' = mInIndex + n
             /\ taken' = taken + n
    /\ spoilt' = (spoilt \/ ~bufempty)
    /\ call' = [call EXCEPT !.at = "buffer"]
    /\ UNCHANGED <<mInIndex, got, wire, closed>>

(* read's own raw_read, into the caller's memory.                           *)
ReadRaw ==
    /\ call.at = "raw" /\ call.op = "read"
    /\ \E n \in ReadSizes(call.n) :
        /\ taken' = taken + n
        /\ got' = got \o Incoming(n)
        /\ call' = [call EXCEPT !.s = Incoming(n), !.at = "returned"]
    /\ UNCHANGED <<mInBuffer, mInIndex, mInEnd, spoilt, wire, closed>>

(* raw_read returns 0: eofError, which getall and dropall take for success, *)
(* and read for an empty answer.                                            *)
EndOfFile ==
    /\ call.at = "raw" /\ AtEof
    /\ call' = [call EXCEPT !.at = IF call.op \in {"getall", "dropall", "read"}
                                   THEN "returned" ELSE "failed"]
    /\ UNCHANGED <<mInBuffer, mInIndex, mInEnd, got, spoilt, pipe>>

(* raw_read fails, or is cancelled: the error goes to the caller.           *)
ReadFails ==
    /\ call.at = "raw"
    /\ call' = [call EXCEPT !.at = "failed"]
    /\ UNCHANGED <<mInBuffer, mInIndex, mInEnd, got, spoilt, pipe>>

Asks == \/ \E op \in {"getchar", "peekchar", "getchunk", "getall", "dropall"} :
              Ask(op, 0, <<>>)
        \/ \E op \in {"getline", "dropline"}, eol \in Eols : Ask(op, 0, eol)
        \/ \E op \in {"getn", "dropn", "getspan", "read", "tryread", "peekn"},
             n \in 1 .. Size + 1 : Ask(op, n, <<>>)

Serve == \/ GetSome \/ GetN \/ GetSpan \/ GetAll \/ FindEol \/ MatchEol
         \/ Read \/ TryRead \/ PeekN
Raw == FillBuf \/ ReadRaw \/ EndOfFile
Reader == Asks \/ Serve \/ Raw \/ ReadFails
=============================================================================
