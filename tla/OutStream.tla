----------------------------- MODULE OutStream -----------------------------
(***************************************************************************)
(* The output half of BorrowedStream (stream_base.hpp): characters, spans  *)
(* and lines go into mOutBuffer, and flush hands it to the raw stream in   *)
(* as many writes as that takes.  One coroutine writes.                    *)
(***************************************************************************)
EXTENDS Pipe

CONSTANT MaxFailures       \* bound: raw writes that fail

VARIABLES mOutBuffer,      \* the memory, or <<>> when it is not allocated
          mOutIndex,
          todo,            \* what the pending call has still to do
          sent,            \* of the flush in progress, the bytes written
          offered,         \* bytes that the caller has passed to some call
          given,           \* the bytes the stream took over, in order
          failures,
          resent,          \* a flush failed after part of it was written
          bypassed         \* a write has overtaken bytes in the buffer

out == <<mOutBuffer, mOutIndex, todo, sent, offered, given, failures,
         resent, bypassed>>

Byte == 1 .. Len(Text)

OutInit ==
    /\ mOutBuffer = <<>> /\ mOutIndex = 0
    /\ todo = <<>> /\ sent = 0 /\ offered = 0 /\ given = <<>>
    /\ failures = 0 /\ resent = FALSE /\ bypassed = FALSE

\* The parts of a call: bytes to copy as a span or as a character, a flush,
\* and the raw write of write().
Put(k, s) == [do |-> k, bytes |-> s]
FlushAll == Put("flush", <<>>)
Begun(k) == todo # <<>> /\ Head(todo).do = k
Bytes == Head(todo).bytes

buffull == mOutIndex = Len(mOutBuffer)
Room == Len(mOutBuffer) - mOutIndex
Buffered == SubSeq(mOutBuffer, 1, mOutIndex)
Unsent == SubSeq(mOutBuffer, sent + 1, mOutIndex)

\* The first n bytes of the span at hand go to mOutBuffer + mOutIndex.
Store(n) ==
    /\ mOutBuffer' = [i \in DOMAIN mOutBuffer |->
                        IF i \in mOutIndex + 1 .. mOutIndex + n
                        THEN Bytes[i - mOutIndex] ELSE mOutBuffer[i]]
    /\ mOutIndex' = mOutIndex + n
    /\ given' = given \o SubSeq(Bytes, 1, n)

-----------------------------------------------------------------------------
(* A slip the properties must notice; no specification uses it.             *)
FlushOnce ==               \* takes a short write for a whole one
    /\ Begun("flush") /\ mOutIndex > 0
    /\ \E n \in WriteSizes(mOutIndex) : wire' = wire \o SubSeq(Buffered, 1, n)
    /\ mOutIndex' = 0 /\ todo' = Tail(todo)
    /\ UNCHANGED <<mOutBuffer, sent, offered, given, failures, resent, bypassed,
                   taken, closed>>

-----------------------------------------------------------------------------
(* A call begins: the next n bytes that the caller has.                     *)
Call(n, parts) ==
    /\ todo = <<>> /\ ~closed
    /\ offered + n <= Len(Text)
    /\ todo' = parts
    /\ offered' = offered + n
    /\ UNCHANGED <<mOutBuffer, mOutIndex, sent, given, failures, resent, bypassed>>
    /\ UNCHANGED pipe

Offer(n) == [i \in 1 .. n |-> offered + i]

putchar == Call(1, <<Put("char", Offer(1))>>)
putspan(n) == Call(n, <<Put("span", Offer(n))>>)
flush == Call(0, <<FlushAll>>)
putchunk(n) == Call(n, <<Put("span", Offer(n)), FlushAll>>)
putline(n) ==
    /\ offered + n < Len(Text) /\ Text[offered + n + 1] = "n"
    /\ Call(n + 1, <<Put("span", Offer(n)),
                     Put("char", <<offered + n + 1>>), FlushAll>>)
trywrite(n) == Call(n, <<Put("try", Offer(n))>>)
write(n) ==
    IF buffull THEN Call(n, <<Put("raw", Offer(n))>>)
    ELSE Call(AtMost(Room, n), <<Put("span", Offer(AtMost(Room, n)))>>)

-----------------------------------------------------------------------------
(* putchar with room; a full buffer is flushed first.                       *)
StoreChar ==
    /\ Begun("char")
    /\ IF buffull
       THEN todo' = <<FlushAll>> \o todo /\ UNCHANGED <<mOutBuffer, mOutIndex, given>>
       ELSE Store(1) /\ todo' = Tail(todo)
    /\ UNCHANGED <<sent, offered, failures, resent, bypassed, pipe>>

(* putspan: what fits; the rest follows when the full buffer is flushed.    *)
StoreSpan ==
    /\ Begun("span")
    /\ IF Len(Bytes) <= Room
       THEN Store(Len(Bytes)) /\ todo' = Tail(todo)
       ELSE /\ Store(Room)
            /\ todo' = <<FlushAll, Put("span", SubSeq(Bytes, Room + 1, Len(Bytes)))>>
                       \o Tail(todo)
    /\ UNCHANGED <<sent, offered, failures, resent, bypassed, pipe>>

(* trywrite: what fits, and no more; it allocates the buffer itself.        *)
StoreSome ==
    /\ Begun("try")
    /\ IF mOutBuffer = <<>>
       THEN mOutBuffer' = [i \in 1 .. Size |-> 0] /\ UNCHANGED <<mOutIndex, given, todo>>
       ELSE Store(AtMost(Room, Len(Bytes))) /\ todo' = Tail(todo)
    /\ UNCHANGED <<sent, offered, failures, resent, bypassed, pipe>>

(* flush of a buffer that is not allocated, or empty.                       *)
FlushNothing ==
    /\ Begun("flush")
    /\ mOutIndex = 0
    /\ mOutBuffer' = IF mOutBuffer = <<>> THEN [i \in 1 .. Size |-> 0] ELSE mOutBuffer
    /\ todo' = Tail(todo)
    /\ UNCHANGED <<mOutIndex, sent, offered, given, failures, resent, bypassed, pipe>>

(* raw_write takes n of the bytes; the last of them empties the buffer.     *)
FlushSome ==
    /\ Begun("flush") /\ mOutIndex > 0
    /\ \E n \in WriteSizes(mOutIndex - sent) :
        /\ wire' = wire \o SubSeq(Unsent, 1, n)
        /\ IF sent + n = mOutIndex
           THEN mOutIndex' = 0 /\ sent' = 0 /\ todo' = Tail(todo)
           ELSE sent' = sent + n /\ UNCHANGED <<mOutIndex, todo>>
    /\ UNCHANGED <<mOutBuffer, offered, given, failures, resent, bypassed, taken, closed>>

(* raw_write fails: so do flush and the call, and the buffer stays as it is.*)
FlushFails ==
    /\ Begun("flush") /\ mOutIndex > 0
    /\ failures < MaxFailures /\ failures' = failures + 1
    /\ todo' = <<>> /\ sent' = 0
    /\ resent' = (resent \/ sent > 0)
    /\ UNCHANGED <<mOutBuffer, mOutIndex, offered, given, bypassed, pipe>>

(* write() on a full buffer, or on none: straight to the raw stream.        *)
WriteRaw ==
    /\ Begun("raw")
    /\ \E n \in WriteSizes(Len(Bytes)) :
        /\ wire' = wire \o SubSeq(Bytes, 1, n)
        /\ given' = given \o SubSeq(Bytes, 1, n)
    /\ bypassed' = (bypassed \/ mOutIndex > 0)
    /\ todo' = Tail(todo)
    /\ UNCHANGED <<mOutBuffer, mOutIndex, sent, offered, failures, resent, taken, closed>>

WriteRawFails ==
    /\ Begun("raw")
    /\ failures < MaxFailures /\ failures' = failures + 1
    /\ todo' = <<>>
    /\ UNCHANGED <<mOutBuffer, mOutIndex, sent, offered, given, resent, bypassed, pipe>>

(* close does not flush.                                                    *)
close ==
    /\ todo = <<>> /\ ~closed
    /\ closed' = TRUE
    /\ UNCHANGED <<wire, taken, out>>

Writer == \/ putchar \/ flush \/ close
          \/ \E n \in 1 .. Size + 1 :
                putspan(n) \/ putchunk(n) \/ putline(n) \/ trywrite(n) \/ write(n)
          \/ StoreChar \/ StoreSpan \/ StoreSome
          \/ FlushNothing \/ FlushSome \/ FlushFails \/ WriteRaw \/ WriteRawFails
=============================================================================
