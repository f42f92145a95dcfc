------------------------------- MODULE Stream -------------------------------
(***************************************************************************)
(* Two coroutines at the ends of a pipe, each with its BorrowedStream: one *)
(* puts the bytes 1, 2, ... in calls of any kind, the other gets them.     *)
(***************************************************************************)
EXTENDS OutStream, InStream

vars == <<pipe, out, in>>

Init == PipeInit /\ OutInit /\ InInit

Next == \/ Writer /\ UNCHANGED in
        \/ Reader /\ UNCHANGED out

(* The loop resumes a reader whose raw_read has an answer.                  *)
Fairness == WF_vars(Serve /\ UNCHANGED out) /\ WF_vars(Raw /\ UNCHANGED out)

Spec == Init /\ [][Next]_vars /\ Fairness
-----------------------------------------------------------------------------
Increasing(s) == \A i \in 1 .. Len(s) - 1 : s[i] < s[i + 1]

(* Bytes go through both buffers once and in order, however calls are mixed *)
(* and however short the raw reads and writes are, except after a write     *)
(* past a full buffer, a flush that failed half-way, or a peekn that filled *)
(* the buffer over unread bytes; that one loses them, but turns none round. *)
EndToEnd ==
    /\ ~bypassed /\ ~resent => given = wire \o Unsent /\ Increasing(got \o Unread)
    /\ ~spoilt => SubSeq(wire, 1, taken) = got \o Unread

(* Even after a failed flush or a write past the buffer nothing that the    *)
(* stream took over is lost while the buffer is there, and what a repeated  *)
(* flush sends again comes after its first time (at least once): before a   *)
(* byte comes for the first time, each that was taken over earlier has come.*)
AtLeastOnce ==
    LET all == wire \o Buffered
    IN  /\ Range(all) = Range(given)
        /\ ~bypassed =>
             \A m \in DOMAIN given, j \in DOMAIN all : all[j] = given[m] =>
                 \A k \in 1 .. m - 1 : \E i \in 1 .. j - 1 : all[i] = given[k]

Used == Len(got) - call.from
Ahead(k) == SubSeq(wire, call.from + 1, call.from + k)
EolAt(i) == /\ i + Len(call.eol) <= Len(got)
            /\ \A j \in 1 .. Len(call.eol) : Text[got[i + j]] = call.eol[j]

LineEnds == {i \in call.from .. Len(got) : EolAt(i)}

\* The first character of a line end comes again only as its last: getline
\* overlooks "aab" at the end of "aaab".
Plain(eol) == \A j \in 2 .. Len(eol) - 1 : eol[j] # eol[1]

(* What every call but getspan returns, and what it has consumed, is what   *)
(* its comment says, and getline and dropline have consumed a line up to a  *)
(* line end, which may have come in pieces; a plain one is the first there  *)
(* is.  Of getspan, and of a line end like "aab", the code does not hold it.*)
CallsAnswer ==
    call.at = "returned" /\ ~spoilt =>
        CASE call.op = "getchar" -> call.s = Ahead(1) /\ Used = 1
          [] call.op = "peekchar" -> call.s = Ahead(1) /\ Used = 0
          [] call.op = "getn" -> call.s = Ahead(call.want) /\ Used = call.want
          [] call.op = "dropn" -> Used = call.want
          [] call.op = "peekn" -> call.s = Ahead(call.want) /\ Used = 0
          [] call.op = "getchunk" -> call.s = Ahead(Used) /\ Used > 0
          [] call.op \in {"read", "tryread"} -> call.s = Ahead(Used) /\ Used <= call.want
          [] call.op = "getall" -> call.s = Ahead(Used) /\ AtEof /\ bufempty
          [] call.op = "dropall" -> AtEof /\ bufempty
          [] call.op \in {"getline", "dropline"} ->
               /\ Len(got) - Len(call.eol) \in LineEnds
               /\ Plain(call.eol) => LineEnds = {Len(got) - Len(call.eol)}
               /\ call.op = "getline" => call.s = Ahead(Used - Len(call.eol))
          [] OTHER -> TRUE

(* "Asynchronously read s.size() bytes from stream into s": a call returns  *)
(* with just the span filled and just these bytes consumed.  The code       *)
(* forgets to count what it copied before a refill, and writes past the     *)
(* span.                                                                    *)
SpanIsFilled ==
    call.at = "returned" /\ ~spoilt /\ call.op = "getspan" =>
        call.s = Ahead(call.want) /\ Used = call.want

(* When the writer has closed its end no call waits for ever: each comes to *)
(* an end on what is left in the pipe, or on the end of the file.           *)
ReadsEnd == closed ~> call.at \in {"returned", "failed"}
=============================================================================
