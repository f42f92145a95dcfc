------------------------------- MODULE Pipe -------------------------------
(***************************************************************************)
(* The raw streams under two buffered streams: FileStream (file_stream.cpp)*)
(* at the two ends of a pipe (pipe.hpp).  Reads and writes may be short,   *)
(* may fail, for instance when they are cancelled, and a read returns 0 at *)
(* the end of the file.                                                    *)
(***************************************************************************)
EXTENDS Naturals, Sequences, Functions

CONSTANTS PipeSize,        \* what the pipe holds
          Size,            \* kStreamBufferSize
          Text             \* Text[b] is the character of byte b

ASSUME PipeAssumption ==
    PipeSize \in Nat /\ Size \in Nat \ {0} /\ Text \in Seq(STRING)

VARIABLES wire,            \* every byte the pipe has taken in, in order
          taken,           \* how many of them it has handed out
          closed           \* the writer has closed its end

pipe == <<wire, taken, closed>>

PipeInit == wire = <<>> /\ taken = 0 /\ closed = FALSE

AtMost(n, m) == IF n < m THEN n ELSE m

\* What a raw_read into len bytes may return: some bytes; 0 is the end of file.
ReadSizes(len) == 1 .. AtMost(len, Len(wire) - taken)
AtEof == closed /\ taken = Len(wire)

\* What a raw_write of len bytes may return.
WriteSizes(len) == 1 .. AtMost(len, PipeSize - (Len(wire) - taken))

Incoming(n) == SubSeq(wire, taken + 1, taken + n)
=============================================================================
