---------------------------- MODULE StreamProofs ----------------------------
(***************************************************************************)
(* Stream, for every text, every size of the buffers and of the pipe, any  *)
(* number of failures and every mix of calls: what the writer's stream has *)
(* taken over reaches the reader's calls, in order.                        *)
(***************************************************************************)
EXTENDS Stream, SequenceTheorems, WellFoundedInduction, TLAPS

USE PipeAssumption

Bytestring == Seq(Nat)

\* Predicates on strings of bytes; the lemmas of the first part are about them.
Rising(s) == \A i, j \in DOMAIN s : i < j => s[i] < s[j]
Below(s, t) == \A i \in DOMAIN s, j \in DOMAIN t : s[i] < t[j]
UpTo(s, n) == \A i \in DOMAIN s : s[i] <= n

-----------------------------------------------------------------------------
(* Strings of bytes.                                                        *)
LEMMA Piece ==
    ASSUME NEW s \in Bytestring, NEW a \in Nat, NEW b \in Nat, a <= b, b <= Len(s)
    PROVE  /\ SubSeq(s, a + 1, b) \in Bytestring
           /\ Len(SubSeq(s, a + 1, b)) = b - a
           /\ \A i \in 1 .. b - a : SubSeq(s, a + 1, b)[i] = s[a + i]
<1>1. \A i \in a + 1 .. b : s[i] \in Nat
  BY DEF Bytestring
<1>2. /\ SubSeq(s, a + 1, b) \in Bytestring
      /\ Len(SubSeq(s, a + 1, b)) = IF a + 1 <= b THEN b - (a + 1) + 1 ELSE 0
      /\ \A i \in 1 .. b - (a + 1) + 1 :
            SubSeq(s, a + 1, b)[i] = s[a + 1 + i - 1]
  BY <1>1, SubSeqProperties DEF Bytestring
<1>3. Len(SubSeq(s, a + 1, b)) = b - a
  BY <1>2
<1>4. ASSUME NEW i \in 1 .. b - a PROVE SubSeq(s, a + 1, b)[i] = s[a + i]
  <2>1. i \in 1 .. b - (a + 1) + 1 /\ a + 1 + i - 1 = a + i
    OBVIOUS
  <2> QED  BY <1>2, <2>1
<1> QED  BY <1>2, <1>3, <1>4

LEMMA Joined ==
    ASSUME NEW s \in Bytestring, NEW t \in Bytestring
    PROVE  /\ s \o t \in Bytestring
           /\ Len(s \o t) = Len(s) + Len(t)
           /\ \A i \in 1 .. Len(s) : (s \o t)[i] = s[i]
           /\ \A i \in 1 .. Len(t) : (s \o t)[Len(s) + i] = t[i]
<1>1. /\ s \o t \in Bytestring /\ Len(s \o t) = Len(s) + Len(t)
      /\ \A i \in 1 .. Len(s) + Len(t) :
            (s \o t)[i] = IF i <= Len(s) THEN s[i] ELSE t[i - Len(s)]
  BY ConcatProperties DEF Bytestring
<1>2. Len(s) \in Nat /\ Len(t) \in Nat
  BY DEF Bytestring
<1>3. ASSUME NEW i \in 1 .. Len(s) PROVE (s \o t)[i] = s[i]
  BY <1>1, <1>2
<1>4. ASSUME NEW i \in 1 .. Len(t) PROVE (s \o t)[Len(s) + i] = t[i]
  <2>1. Len(s) + i \in 1 .. Len(s) + Len(t) /\ ~(Len(s) + i <= Len(s))
        /\ Len(s) + i - Len(s) = i
    BY <1>2
  <2> QED  BY <1>1, <2>1
<1> QED  BY <1>1, <1>3, <1>4

LEMMA Positions ==
    ASSUME NEW s \in Bytestring
    PROVE  Len(s) \in Nat /\ DOMAIN s = 1 .. Len(s) /\ \A i \in 1 .. Len(s) : s[i] \in Nat
BY DEF Bytestring

LEMMA IsBytestring ==
    ASSUME NEW n \in Nat, NEW f \in [1 .. n -> Nat]
    PROVE  f \in Bytestring /\ Len(f) = n
<1>1. f = [i \in 1 .. n |-> f[i]] /\ \A i \in 1 .. n : f[i] \in Nat
  OBVIOUS
<1>2. f \in Seq(Nat)
  BY <1>1
<1> QED  BY <1>1, <1>2 DEF Bytestring

\* A position of s \o t is one of s or one of t.
LEMMA WhichPart ==
    ASSUME NEW s \in Bytestring, NEW t \in Bytestring, NEW i \in 1 .. Len(s) + Len(t)
    PROVE  \/ i \in 1 .. Len(s) /\ (s \o t)[i] = s[i]
           \/ i - Len(s) \in 1 .. Len(t) /\ (s \o t)[i] = t[i - Len(s)]
<1>1. Len(s) \in Nat /\ Len(t) \in Nat
  BY Positions
<1>2. CASE i <= Len(s)
  BY <1>1, <1>2, Joined
<1>3. CASE i > Len(s)
  <2>1. i - Len(s) \in 1 .. Len(t) /\ Len(s) + (i - Len(s)) = i
    BY <1>1, <1>3
  <2> QED  BY <2>1, Joined
<1> QED  BY <1>1, <1>2, <1>3

LEMMA RisingJoined ==
    ASSUME NEW s \in Bytestring, NEW t \in Bytestring,
           Rising(s), Rising(t), Below(s, t)
    PROVE  Rising(s \o t)
<1>1. Len(s) \in Nat /\ Len(t) \in Nat
      /\ DOMAIN s = 1 .. Len(s) /\ DOMAIN t = 1 .. Len(t)
      /\ DOMAIN (s \o t) = 1 .. Len(s) + Len(t)
  BY Joined, Positions
<1> SUFFICES ASSUME NEW i \in 1 .. Len(s) + Len(t), NEW j \in 1 .. Len(s) + Len(t), i < j
             PROVE  (s \o t)[i] < (s \o t)[j]
  BY <1>1 DEF Rising
<1>2. \/ i \in 1 .. Len(s) /\ (s \o t)[i] = s[i]
      \/ i - Len(s) \in 1 .. Len(t) /\ (s \o t)[i] = t[i - Len(s)]
  BY WhichPart
<1>3. \/ j \in 1 .. Len(s) /\ (s \o t)[j] = s[j]
      \/ j - Len(s) \in 1 .. Len(t) /\ (s \o t)[j] = t[j - Len(s)]
  BY WhichPart
<1>4. CASE i \in 1 .. Len(s) /\ (s \o t)[i] = s[i]
  BY <1>1, <1>3, <1>4 DEF Rising, Below
<1>5. CASE i - Len(s) \in 1 .. Len(t) /\ (s \o t)[i] = t[i - Len(s)]
  <2>1. j - Len(s) \in 1 .. Len(t) /\ (s \o t)[j] = t[j - Len(s)] /\ i - Len(s) < j - Len(s)
    BY <1>1, <1>3, <1>5
  <2> QED  BY <1>1, <1>5, <2>1 DEF Rising
<1> QED  BY <1>2, <1>4, <1>5

LEMMA RisingParts ==
    ASSUME NEW s \in Bytestring, NEW t \in Bytestring, Rising(s \o t)
    PROVE  Rising(s) /\ Rising(t) /\ Below(s, t)
<1>1. Len(s) \in Nat /\ Len(t) \in Nat
      /\ DOMAIN s = 1 .. Len(s) /\ DOMAIN t = 1 .. Len(t)
      /\ DOMAIN (s \o t) = 1 .. Len(s) + Len(t)
  BY Joined, Positions
<1>2. /\ \A i \in 1 .. Len(s) : i \in DOMAIN (s \o t) /\ (s \o t)[i] = s[i]
      /\ \A i \in 1 .. Len(t) : Len(s) + i \in DOMAIN (s \o t)
                                /\ (s \o t)[Len(s) + i] = t[i]
  BY <1>1, Joined
<1>3. Rising(s)
  BY <1>1, <1>2 DEF Rising
<1>4. ASSUME NEW i \in DOMAIN t, NEW j \in DOMAIN t, i < j PROVE t[i] < t[j]
  <2>1. Len(s) + i < Len(s) + j
    BY <1>1, <1>4
  <2> QED  BY <1>1, <1>2, <2>1 DEF Rising
<1>5. ASSUME NEW i \in DOMAIN s, NEW j \in DOMAIN t PROVE s[i] < t[j]
  <2>1. i < Len(s) + j
    BY <1>1, <1>5
  <2> QED  BY <1>1, <1>2, <2>1 DEF Rising
<1> QED  BY <1>3, <1>4, <1>5 DEF Rising, Below

LEMMA Front ==
    ASSUME NEW s \in Bytestring, NEW n \in Nat, n <= Len(s)
    PROVE  /\ SubSeq(s, 1, n) \in Bytestring
           /\ Len(SubSeq(s, 1, n)) = n
           /\ \A i \in 1 .. n : SubSeq(s, 1, n)[i] = s[i]
<1>1. \A i \in 1 .. n : s[i] \in Nat
  BY Positions
<1>2. /\ SubSeq(s, 1, n) \in Bytestring
      /\ Len(SubSeq(s, 1, n)) = IF 1 <= n THEN n - 1 + 1 ELSE 0
      /\ \A i \in 1 .. n - 1 + 1 : SubSeq(s, 1, n)[i] = s[1 + i - 1]
  BY <1>1, SubSeqProperties DEF Bytestring
<1>3. Len(SubSeq(s, 1, n)) = n
  BY <1>2
<1>4. ASSUME NEW i \in 1 .. n PROVE SubSeq(s, 1, n)[i] = s[i]
  <2>1. i \in 1 .. n - 1 + 1 /\ 1 + i - 1 = i
    OBVIOUS
  <2> QED  BY <1>2, <2>1
<1> QED  BY <1>2, <1>3, <1>4

\* A string in two at n.
LEMMA Split ==
    ASSUME NEW s \in Bytestring, NEW n \in Nat, n <= Len(s)
    PROVE  /\ SubSeq(s, 1, n) \in Bytestring /\ Len(SubSeq(s, 1, n)) = n
           /\ SubSeq(s, n + 1, Len(s)) \in Bytestring
           /\ Len(SubSeq(s, n + 1, Len(s))) = Len(s) - n
           /\ SubSeq(s, 1, n) \o SubSeq(s, n + 1, Len(s)) = s
<1>1. Len(s) \in Nat
  BY Positions
<1>2. SubSeq(s, 1, n) \in Bytestring /\ Len(SubSeq(s, 1, n)) = n
  BY <1>1, Front
<1>3. /\ SubSeq(s, n + 1, Len(s)) \in Bytestring
      /\ Len(SubSeq(s, n + 1, Len(s))) = Len(s) - n
  BY <1>1, Piece
<1>4. SubSeq(s, 1, n) \o SubSeq(s, n + 1, Len(s)) = SubSeq(s, 1, Len(s))
  <2>1. 1 \in 1 .. Len(s) + 1 /\ n \in 1 - 1 .. Len(s) /\ Len(s) \in n .. Len(s)
    BY <1>1
  <2> QED  BY <2>1, ConcatAdjacentSubSeq DEF Bytestring
<1>5. SubSeq(s, 1, Len(s)) = s
  BY SubSeqFull DEF Bytestring
<1> QED  BY <1>2, <1>3, <1>4, <1>5

\* The same in the middle of a string.
LEMMA SplitPiece ==
    ASSUME NEW s \in Bytestring, NEW a \in Nat, NEW n \in Nat, NEW b \in Nat,
           a <= n, n <= b, b <= Len(s)
    PROVE  SubSeq(s, a + 1, n) \o SubSeq(s, n + 1, b) = SubSeq(s, a + 1, b)
<1>1. /\ Len(s) \in Nat /\ a + 1 \in 1 .. Len(s) + 1
      /\ n \in (a + 1) - 1 .. Len(s) /\ b \in n .. Len(s)
  BY Positions
<1> QED  BY <1>1, ConcatAdjacentSubSeq DEF Bytestring

\* The first n bytes of a piece.
LEMMA FirstOfPiece ==
    ASSUME NEW s \in Bytestring, NEW a \in Nat, NEW b \in Nat, NEW c \in Nat,
           NEW n \in Nat, c = a + n, c <= b, b <= Len(s)
    PROVE  SubSeq(SubSeq(s, a + 1, b), 1, n) = SubSeq(s, a + 1, c)
<1> DEFINE p == SubSeq(s, a + 1, b)
           q == SubSeq(p, 1, n)
           r == SubSeq(s, a + 1, c)
<1>1. Len(s) \in Nat
  BY Positions
<1>2. p \in Bytestring /\ Len(p) = b - a /\ \A i \in 1 .. b - a : p[i] = s[a + i]
  BY <1>1, Piece
<1>3. r \in Bytestring /\ Len(r) = c - a /\ \A i \in 1 .. c - a : r[i] = s[a + i]
  BY <1>1, Piece
<1> HIDE DEF p
<1>4. q \in Bytestring /\ Len(q) = n /\ \A i \in 1 .. n : q[i] = p[i]
  <2>1. n <= Len(p)
    BY <1>2
  <2> QED  BY <1>2, <2>1, Front
<1> HIDE DEF q, r
<1>5. ASSUME NEW i \in 1 .. n PROVE q[i] = r[i]
  <2>1. i \in 1 .. b - a /\ i \in 1 .. c - a
    BY <1>1
  <2> QED  BY <1>2, <1>3, <1>4, <2>1
<1>6. Len(q) = Len(r)
  BY <1>3, <1>4
<1>7. q = r
  BY <1>3, <1>4, <1>5, <1>6, SeqEqual DEF Bytestring
<1> QED  BY <1>7 DEF p, q, r

LEMMA NoBytes ==
    ASSUME NEW s \in Bytestring
    PROVE  /\ <<>> \in Bytestring /\ Len(<<>>) = 0 /\ Rising(<<>>)
           /\ s \o <<>> = s /\ <<>> \o s = s
           /\ Below(<<>>, s) /\ Below(s, <<>>)
           /\ \A a, b \in Nat : b <= a => SubSeq(s, a + 1, b) = <<>>
<1>1. ASSUME NEW a \in Nat, NEW b \in Nat, b <= a PROVE SubSeq(s, a + 1, b) = <<>>
  BY <1>1, SubSeqEmpty
<1>2. s \o <<>> = s /\ <<>> \o s = s
  BY ConcatEmptySeq DEF Bytestring
<1> QED  BY <1>1, <1>2 DEF Bytestring, Rising, Below

LEMMA Joins3 ==
    ASSUME NEW s \in Bytestring, NEW t \in Bytestring, NEW u \in Bytestring
    PROVE  (s \o t) \o u = s \o (t \o u)
<1> DEFINE left == (s \o t) \o u
           right == s \o (t \o u)
<1>1. left \in Bytestring /\ right \in Bytestring /\ Len(left) = Len(right)
  BY DEF Bytestring
<1>2. \A i \in 1 .. Len(left) : left[i] = right[i]
  BY DEF Bytestring
<1> HIDE DEF left, right
<1>3. left = right
  BY <1>1, <1>2, SeqEqual DEF Bytestring
<1> QED  BY <1>3 DEF left, right

LEMMA Least ==
    ASSUME NEW S \in SUBSET Nat, S # {}
    PROVE  \E i \in S : \A j \in S : i <= j
<1>1. IsWellFoundedOn(OpToRel(<, Nat), Nat)
  BY NatLessThanWellFounded, Zenon
<1>2. PICK i \in S : \A j \in S : ~ (<<j, i>> \in OpToRel(<, Nat))
  BY <1>1, WFMin, Zenon
<1>3. \A j \in S : ~ (j < i)
  BY <1>2 DEF OpToRel
<1> QED  BY <1>3

LEMMA RangeJoined ==
    ASSUME NEW s \in Bytestring, NEW t \in Bytestring
    PROVE  Range(s \o t) = Range(s) \cup Range(t)
BY RangeConcatenation DEF Bytestring

-----------------------------------------------------------------------------
(* The writer: what its calls have still to put, what it has taken over,    *)
(* what is in its buffer and what is in the pipe.                           *)
PipeTypeOK == wire \in Bytestring /\ taken \in 0 .. Len(wire) /\ closed \in BOOLEAN

Part == [do : {"char", "span", "try", "flush", "raw"}, bytes : Bytestring]

OutTypeOK ==
    /\ mOutBuffer \in Bytestring /\ mOutIndex \in 0 .. Len(mOutBuffer)
    /\ sent \in 0 .. mOutIndex
    /\ todo \in Seq(Part) /\ given \in Bytestring /\ offered \in Nat
    /\ resent \in BOOLEAN /\ bypassed \in BOOLEAN

\* A part of a call whose bytes come after all that was taken over.
InPlace(part, g, o) ==
    /\ Rising(part.bytes) /\ UpTo(part.bytes, o) /\ Below(g, part.bytes)
    /\ part.do = "char" => Len(part.bytes) = 1

\* The parts t of a call, the bytes g taken over and the o bytes offered.
Ordered(t, g, o) ==
    /\ Rising(g) /\ UpTo(g, o)
    /\ \A k \in DOMAIN t : InPlace(t[k], g, o)
    /\ \A k, l \in DOMAIN t : k < l => Below(t[k].bytes, t[l].bytes)

\* Only a flush under way has written a part of the buffer.
Flushing ==
    /\ sent > 0 => Begun("flush")
    /\ closed => todo = <<>>

\* In the pipe w and the buffer b, of which n bytes are written, is all of g;
KeptAll(w, b, n, g) ==
    /\ Range(w \o b) = Range(g)
    /\ \A i \in 1 .. n : b[i] \in Range(w)
\* when nothing was written twice or past the buffer, once and in order;
Exact(w, b, n, g) == g = w \o SubSeq(b, n + 1, Len(b))
\* and else, a byte comes first after those that were taken over before it.
InTurn(all, g) ==
    \A m \in DOMAIN g, j \in DOMAIN all : g[m] < all[j] =>
        \E i \in 1 .. j - 1 : all[i] = g[m]

OutInv ==
    /\ OutTypeOK /\ Ordered(todo, given, offered) /\ Flushing
    /\ KeptAll(wire, Buffered, sent, given)
    /\ ~bypassed /\ ~resent => Exact(wire, Buffered, sent, given)
    /\ ~bypassed => InTurn(wire \o Buffered, given)

-----------------------------------------------------------------------------
(* The reader: what it has received, and how far the call has come.         *)
Received == got \o Unread
Consumed == SubSeq(got, call.from + 1, Len(got))

Op == {"none", "getchar", "peekchar", "getchunk", "getall", "dropall", "getline",
       "dropline", "getn", "dropn", "getspan", "read", "tryread", "peekn"}
CallRecord == [op : Op, n : Nat, eol : Seq(STRING), p : Nat, s : Bytestring, from : Nat,
          want : Nat, at : {"buffer", "raw", "returned", "failed"}]

InTypeOK ==
    /\ mInBuffer \in Bytestring /\ mInEnd \in 0 .. Len(mInBuffer)
    /\ mInIndex \in 0 .. mInEnd
    /\ call \in CallRecord /\ got \in Bytestring /\ call.from <= Len(got)
    /\ spoilt \in BOOLEAN

\* r is made of the first n bytes of w, and as w is in order, so is r;
Heard(w, n, r) ==
    /\ \A i \in DOMAIN r : \E j \in 1 .. n : r[i] = w[j]
    /\ Rising(w) => Rising(r)
\* unless peekn spoilt the buffer, it is just these bytes.
Tracks == ~spoilt => SubSeq(wire, 1, taken) = Received

Copies == {"getchar", "getchunk", "getn", "getspan", "getall", "read", "tryread"}
Answered == call.at = "returned"
Peeked == IF call.op = "peekchar" THEN 1 ELSE call.want

\* fillbuf and read go to the raw stream when the buffer is empty.
RawWhenEmpty == call.at = "raw" => bufempty \/ call.op = "peekn"

\* What the calls without line ends have copied and counted so far.
Counts ==
    /\ call.op \in Copies => call.s = Consumed
    /\ call.op = "getchar" => Used = IF Answered THEN 1 ELSE 0
    /\ call.op = "getchunk" => Used > 0 \/ ~Answered
    /\ call.op \in {"getn", "dropn"} => IF Answered THEN Used = call.want
                                                    ELSE Used + call.n = call.want
    /\ call.op \in {"getspan", "read", "tryread", "peekn"} => call.n = call.want
    /\ call.op = "getspan" => Used >= call.want \/ ~Answered
    /\ call.op \in {"read", "tryread"} => IF Answered THEN Used <= call.want ELSE Used = 0
    /\ call.op \in {"peekchar", "peekn"} =>
         /\ Used = 0
         /\ IF Answered THEN Peeked <= Has /\ call.s = SubSeq(Unread, 1, Peeked)
                        ELSE call.s = <<>>
    /\ call.op \in {"getall", "dropall"} => ~Answered \/ (AtEof /\ bufempty)

\* No line end begins with the byte behind the first i that were received.
Fails(i) == \E j \in 1 .. Len(call.eol) :
                i + j <= Len(Received) /\ Text[Received[i + j]] # call.eol[j]

\* The first p characters of eol are the last p consumed; no plain line end
\* begins before them, and what is before them is the line.
Line ==
    call.op \in {"getline", "dropline"} =>
        /\ call.eol \in Eols
        /\ call.p <= Used
        /\ \A j \in 1 .. call.p : Text[got[Len(got) - call.p + j]] = call.eol[j]
        /\ Plain(call.eol) => \A i \in call.from .. Len(got) - call.p - 1 : Fails(i)
        /\ IF call.at = "returned" THEN call.p = Len(call.eol)
                                   ELSE call.p < Len(call.eol)
        /\ call.op = "getline" => Consumed = call.s \o Matched

InInv ==
    /\ InTypeOK /\ Heard(wire, taken, Received) /\ Tracks
    /\ RawWhenEmpty /\ Counts /\ Line

IInv == PipeTypeOK /\ OutInv /\ InInv

-----------------------------------------------------------------------------
(* The order of what a call has still to put.                               *)
LEMMA BelowJoined ==
    ASSUME NEW s \in Bytestring, NEW t \in Bytestring, NEW u \in Bytestring
    PROVE  /\ Below(s \o t, u) <=> Below(s, u) /\ Below(t, u)
           /\ Below(u, s \o t) <=> Below(u, s) /\ Below(u, t)
<1>1. Len(s) \in Nat /\ Len(t) \in Nat
      /\ DOMAIN s = 1 .. Len(s) /\ DOMAIN t = 1 .. Len(t)
      /\ DOMAIN (s \o t) = 1 .. Len(s) + Len(t)
  BY Joined, Positions
<1>2. /\ \A i \in DOMAIN s : i \in DOMAIN (s \o t) /\ (s \o t)[i] = s[i]
      /\ \A i \in DOMAIN t : Len(s) + i \in DOMAIN (s \o t)
                             /\ (s \o t)[Len(s) + i] = t[i]
  BY <1>1, Joined
<1>3. \A i \in DOMAIN (s \o t) :
          \/ i \in DOMAIN s /\ (s \o t)[i] = s[i]
          \/ i - Len(s) \in DOMAIN t /\ (s \o t)[i] = t[i - Len(s)]
  BY <1>1, WhichPart
<1>4. Below(s \o t, u) => Below(s, u) /\ Below(t, u)
  BY <1>2 DEF Below
<1>5. Below(u, s \o t) => Below(u, s) /\ Below(u, t)
  BY <1>2 DEF Below
<1>6. Below(s, u) /\ Below(t, u) => Below(s \o t, u)
  BY <1>3 DEF Below
<1>7. Below(u, s) /\ Below(u, t) => Below(u, s \o t)
  BY <1>3 DEF Below
<1> QED  BY <1>4, <1>5, <1>6, <1>7

LEMMA UpToJoined ==
    ASSUME NEW s \in Bytestring, NEW t \in Bytestring, NEW n \in Nat
    PROVE  UpTo(s \o t, n) <=> UpTo(s, n) /\ UpTo(t, n)
<1>1. Len(s) \in Nat /\ Len(t) \in Nat
      /\ DOMAIN s = 1 .. Len(s) /\ DOMAIN t = 1 .. Len(t)
      /\ DOMAIN (s \o t) = 1 .. Len(s) + Len(t)
  BY Joined, Positions
<1>2. /\ \A i \in DOMAIN s : i \in DOMAIN (s \o t) /\ (s \o t)[i] = s[i]
      /\ \A i \in DOMAIN t : Len(s) + i \in DOMAIN (s \o t)
                             /\ (s \o t)[Len(s) + i] = t[i]
  BY <1>1, Joined
<1>3. \A i \in DOMAIN (s \o t) :
          \/ i \in DOMAIN s /\ (s \o t)[i] = s[i]
          \/ i - Len(s) \in DOMAIN t /\ (s \o t)[i] = t[i - Len(s)]
  BY <1>1, WhichPart
<1>4. UpTo(s \o t, n) => UpTo(s, n) /\ UpTo(t, n)
  BY <1>2 DEF UpTo
<1>5. UpTo(s, n) /\ UpTo(t, n) => UpTo(s \o t, n)
  BY <1>3 DEF UpTo
<1> QED  BY <1>4, <1>5

LEMMA PartOf ==
    ASSUME NEW t \in Seq(Part), NEW k \in DOMAIN t
    PROVE  t[k] \in Part /\ t[k].bytes \in Bytestring
<1>1. t[k] \in Part
  BY ElementOfSeq
<1> QED  BY <1>1 DEF Part

\* One more part in front.
LEMMA OrderedPut ==
    ASSUME NEW t \in Seq(Part), NEW g \in Bytestring, NEW o \in Nat, NEW x \in Part,
           Ordered(t, g, o), InPlace(x, g, o),
           \A k \in DOMAIN t : Below(x.bytes, t[k].bytes)
    PROVE  <<x>> \o t \in Seq(Part) /\ Ordered(<<x>> \o t, g, o)
<1> DEFINE r == <<x>> \o t
<1>1. /\ r \in Seq(Part) /\ Len(r) = Len(t) + 1 /\ r[1] = x
      /\ \A k \in 1 .. Len(t) : r[k + 1] = t[k]
  OBVIOUS
<1>2. Len(t) \in Nat /\ DOMAIN t = 1 .. Len(t) /\ DOMAIN r = 1 .. Len(t) + 1
  BY <1>1
<1> HIDE DEF r
<1>3. \A k \in DOMAIN r : k = 1 \/ (k - 1 \in DOMAIN t /\ r[k] = t[k - 1])
  BY <1>1, <1>2
<1>4. \A k \in DOMAIN r : InPlace(r[k], g, o)
  BY <1>1, <1>3 DEF Ordered
<1>5. ASSUME NEW k \in DOMAIN r, NEW l \in DOMAIN r, k < l
      PROVE  Below(r[k].bytes, r[l].bytes)
  <2>1. l - 1 \in DOMAIN t /\ r[l] = t[l - 1]
    BY <1>2, <1>3, <1>5
  <2>2. CASE k = 1
    BY <1>1, <2>1, <2>2
  <2>3. CASE k # 1
    <3>1. k - 1 \in DOMAIN t /\ r[k] = t[k - 1] /\ k - 1 < l - 1
      BY <1>2, <1>3, <1>5, <2>3
    <3> QED  BY <2>1, <3>1 DEF Ordered
  <2> QED  BY <2>2, <2>3
<1>6. Ordered(r, g, o)
  BY <1>4, <1>5 DEF Ordered
<1> QED  BY <1>1, <1>6 DEF r

LEMMA FlushIsPart ==
    FlushAll \in Part /\ FlushAll.bytes = <<>> /\ FlushAll.do = "flush"
BY DEF FlushAll, Put, Part, Bytestring

LEMMA FlushInPlace ==
    ASSUME NEW g \in Bytestring, NEW o \in Nat
    PROVE  InPlace(FlushAll, g, o)
BY FlushIsPart, NoBytes DEF InPlace, UpTo

\* Behind any other part a flush is in order.
LEMMA BelowFlush ==
    ASSUME NEW s \in Bytestring
    PROVE  /\ Below(s, FlushAll.bytes)
           /\ \A k \in DOMAIN <<FlushAll>> : Below(s, <<FlushAll>>[k].bytes)
<1>1. Below(s, FlushAll.bytes)
  BY FlushIsPart, NoBytes
<1>2. \A k \in DOMAIN <<FlushAll>> : <<FlushAll>>[k] = FlushAll
  OBVIOUS
<1> QED  BY <1>1, <1>2

LEMMA Tuples ==
    ASSUME NEW x \in Part, NEW y \in Part, NEW z \in Part
    PROVE  /\ <<x>> \o <<>> = <<x>>
           /\ <<x>> \o <<y>> = <<x, y>>
           /\ <<x>> \o <<y, z>> = <<x, y, z>>
           /\ \A k \in DOMAIN <<y, z>> : <<y, z>>[k] = y \/ <<y, z>>[k] = z
<1>1. <<x>> \o <<>> = <<x>>
  OBVIOUS
<1>2. <<x>> \o <<y>> = <<x, y>>
  <2> DEFINE s == <<x>> \o <<y>>
             t == <<x, y>>
  <2>1. s \in Seq(Part) /\ Len(s) = 2 /\ s[1] = x /\ s[2] = y
    OBVIOUS
  <2>2. t \in Seq(Part) /\ Len(t) = 2 /\ t[1] = x /\ t[2] = y
    OBVIOUS
  <2> HIDE DEF s, t
  <2>3. \A i \in 1 .. Len(s) : s[i] = t[i]
    BY <2>1, <2>2
  <2>4. s = t
    BY <2>1, <2>2, <2>3, SeqEqual
  <2> QED  BY <2>4 DEF s, t
<1>3. <<x>> \o <<y, z>> = <<x, y, z>>
  <2> DEFINE s == <<x>> \o <<y, z>>
             t == <<x, y, z>>
  <2>1. s \in Seq(Part) /\ Len(s) = 3 /\ s[1] = x /\ s[2] = y /\ s[3] = z
    OBVIOUS
  <2>2. t \in Seq(Part) /\ Len(t) = 3 /\ t[1] = x /\ t[2] = y /\ t[3] = z
    OBVIOUS
  <2> HIDE DEF s, t
  <2>3. \A i \in 1 .. Len(s) : s[i] = t[i]
    BY <2>1, <2>2
  <2>4. s = t
    BY <2>1, <2>2, <2>3, SeqEqual
  <2> QED  BY <2>4 DEF s, t
<1>4. \A k \in DOMAIN <<y, z>> : <<y, z>>[k] = y \/ <<y, z>>[k] = z
  OBVIOUS
<1> QED  BY <1>1, <1>2, <1>3, <1>4

LEMMA OrderedFlush ==
    ASSUME NEW t \in Seq(Part), NEW g \in Bytestring, NEW o \in Nat, Ordered(t, g, o)
    PROVE  <<FlushAll>> \o t \in Seq(Part) /\ Ordered(<<FlushAll>> \o t, g, o)
<1>1. \A k \in DOMAIN t : t[k].bytes \in Bytestring
  BY PartOf
<1>2. \A k \in DOMAIN t : Below(FlushAll.bytes, t[k].bytes)
  BY <1>1, FlushIsPart, NoBytes
<1> QED  BY <1>2, FlushIsPart, FlushInPlace, OrderedPut

\* The first part is done, or its first bytes u are.
LEMMA OrderedTaken ==
    ASSUME NEW t \in Seq(Part), t # <<>>, NEW g \in Bytestring, NEW o \in Nat,
           Ordered(t, g, o),
           NEW u \in Bytestring, NEW v \in Bytestring, Head(t).bytes = u \o v
    PROVE  /\ Tail(t) \in Seq(Part)
           /\ Ordered(Tail(t), g \o u, o)
           /\ InPlace(Put("span", v), g \o u, o)
           /\ \A k \in DOMAIN Tail(t) : Below(v, Tail(t)[k].bytes)
<1> DEFINE r == Tail(t)
<1>1. /\ r \in Seq(Part) /\ Len(r) = Len(t) - 1
      /\ \A k \in 1 .. Len(r) : r[k] = t[k + 1]
  BY HeadTailProperties
<1>2. Len(t) \in Nat \ {0} /\ DOMAIN t = 1 .. Len(t) /\ Head(t) = t[1]
      /\ DOMAIN r = 1 .. Len(r) /\ 1 \in DOMAIN t
  BY <1>1, EmptySeq
<1> HIDE DEF r
<1>3. \A k \in DOMAIN r : k + 1 \in DOMAIN t /\ 1 < k + 1 /\ r[k] = t[k + 1]
  BY <1>1, <1>2
<1>4. Rising(u \o v) /\ UpTo(u \o v, o) /\ Below(g, u \o v) /\ Rising(g) /\ UpTo(g, o)
  BY <1>2 DEF Ordered, InPlace
<1>5. /\ Rising(u) /\ Rising(v) /\ Below(u, v) /\ UpTo(u, o) /\ UpTo(v, o)
      /\ Below(g, u) /\ Below(g, v)
  BY <1>4, RisingParts, BelowJoined, UpToJoined
<1>6. g \o u \in Bytestring /\ Rising(g \o u) /\ UpTo(g \o u, o) /\ Below(g \o u, v)
  BY <1>4, <1>5, Joined, RisingJoined, BelowJoined, UpToJoined
<1>7. ASSUME NEW k \in DOMAIN r
      PROVE  InPlace(r[k], g \o u, o) /\ Below(v, r[k].bytes)
  <2>1. r[k].bytes \in Bytestring
    BY <1>1, PartOf
  <2>2. InPlace(r[k], g, o) /\ Below(u \o v, r[k].bytes)
    BY <1>2, <1>3 DEF Ordered
  <2>3. Below(g, r[k].bytes) /\ Below(u, r[k].bytes) /\ Below(v, r[k].bytes)
    BY <2>1, <2>2, BelowJoined DEF InPlace
  <2>4. Below(g \o u, r[k].bytes)
    BY <2>1, <2>3, BelowJoined
  <2> QED  BY <2>2, <2>3, <2>4 DEF InPlace
<1>8. ASSUME NEW k \in DOMAIN r, NEW l \in DOMAIN r, k < l
      PROVE  Below(r[k].bytes, r[l].bytes)
  <2>1. k + 1 < l + 1
    BY <1>2, <1>8
  <2> QED  BY <1>3, <2>1 DEF Ordered
<1>9. Ordered(r, g \o u, o)
  BY <1>6, <1>7, <1>8 DEF Ordered
<1>10. InPlace(Put("span", v), g \o u, o)
  BY <1>5, <1>6 DEF InPlace, Put
<1> QED  BY <1>1, <1>7, <1>9, <1>10 DEF r

\* ... and the rest is put again, behind a flush.
LEMMA OrderedRest ==
    ASSUME NEW t \in Seq(Part), t # <<>>, NEW g \in Bytestring, NEW o \in Nat,
           Ordered(t, g, o),
           NEW u \in Bytestring, NEW v \in Bytestring, Head(t).bytes = u \o v
    PROVE  /\ <<FlushAll, Put("span", v)>> \o Tail(t) \in Seq(Part)
           /\ Ordered(<<FlushAll, Put("span", v)>> \o Tail(t), g \o u, o)
<1> DEFINE r == <<Put("span", v)>> \o Tail(t)
<1>1. Put("span", v) \in Part /\ Put("span", v).bytes = v
  BY DEF Put, Part
<1>2. g \o u \in Bytestring
  BY Joined
<1>3. /\ Tail(t) \in Seq(Part) /\ Ordered(Tail(t), g \o u, o)
      /\ InPlace(Put("span", v), g \o u, o)
      /\ \A k \in DOMAIN Tail(t) : Below(v, Tail(t)[k].bytes)
  BY OrderedTaken
<1>4. r \in Seq(Part) /\ Ordered(r, g \o u, o)
  BY <1>1, <1>2, <1>3, OrderedPut
<1>5. <<FlushAll, Put("span", v)>> \o Tail(t) = <<FlushAll>> \o r
  <2>1. FlushAll \in Part
    BY FlushIsPart
  <2> QED  BY <1>1, <1>3, <2>1
<1> HIDE DEF r
<1>6. <<FlushAll>> \o r \in Seq(Part) /\ Ordered(<<FlushAll>> \o r, g \o u, o)
  BY <1>2, <1>4, OrderedFlush
<1> QED  BY <1>5, <1>6

\* The parts of a call that begins: n bytes, behind all that was offered.
LEMMA OfferIs ==
    ASSUME OutTypeOK, Ordered(<<>>, given, offered), NEW n \in Nat, NEW k \in
           {"char", "span", "try", "raw"}, k = "char" => n = 1
    PROVE  /\ Put(k, Offer(n)) \in Part /\ Put(k, Offer(n)).bytes = Offer(n)
           /\ InPlace(Put(k, Offer(n)), given, offered + n)
           /\ UpTo(Offer(n), offered + n)
<1>1. /\ Offer(n) \in Bytestring /\ Len(Offer(n)) = n /\ DOMAIN Offer(n) = 1 .. n
      /\ \A i \in 1 .. n : Offer(n)[i] = offered + i
  BY DEF Offer, Bytestring, OutTypeOK
<1>2. /\ given \in Bytestring /\ offered \in Nat
      /\ \A i \in DOMAIN given : given[i] <= offered /\ given[i] \in Nat
  BY Positions DEF OutTypeOK, Ordered, UpTo
<1>3. Rising(Offer(n)) /\ UpTo(Offer(n), offered + n)
  BY <1>1, <1>2 DEF Rising, UpTo
<1>4. Below(given, Offer(n))
  BY <1>1, <1>2 DEF Below
<1> QED  BY <1>1, <1>3, <1>4 DEF Put, Part, InPlace

LEMMA OfferedMore ==
    ASSUME OutTypeOK, Ordered(<<>>, given, offered), NEW n \in Nat
    PROVE  Ordered(<<>>, given, offered + n)
<1>1. given \in Bytestring /\ offered \in Nat
  BY DEF OutTypeOK
<1>2. \A i \in DOMAIN given : given[i] \in Nat /\ given[i] <= offered
  BY <1>1, Positions DEF Ordered, UpTo
<1>3. \A i \in DOMAIN given : given[i] <= offered + n
  BY <1>1, <1>2
<1> QED  BY <1>3 DEF Ordered, UpTo

\* A call that begins: its parts are in order, and nothing else changes.
Started ==
    /\ todo = <<>> /\ ~closed
    /\ todo' \in Seq(Part) /\ offered' \in Nat /\ Ordered(todo', given, offered')
    /\ UNCHANGED <<mOutBuffer, mOutIndex, sent, given, failures, resent, bypassed>>
    /\ UNCHANGED pipe

LEMMA StartsWithOne ==
    ASSUME OutTypeOK, Ordered(todo, given, offered), NEW n \in Nat,
           NEW k \in {"char", "span", "try", "raw"}, k = "char" => n = 1,
           Call(n, <<Put(k, Offer(n))>>)
    PROVE  Started
<1> DEFINE x == Put(k, Offer(n))
<1>1. /\ offered \in Nat /\ given \in Bytestring /\ todo = <<>>
      /\ Ordered(<<>>, given, offered) /\ offered + n \in Nat
  BY DEF OutTypeOK, Call
<1>2. x \in Part /\ InPlace(x, given, offered + n)
  BY <1>1, OfferIs
<1>3. Ordered(<<>>, given, offered + n)
  BY <1>1, OfferedMore
<1> HIDE DEF x
<1>4. <<>> \in Seq(Part) /\ DOMAIN <<>> = {} /\ <<x>> \o <<>> = <<x>>
  BY <1>2
<1>5. <<x>> \in Seq(Part) /\ Ordered(<<x>>, given, offered + n)
  <2>1. <<x>> \o <<>> \in Seq(Part) /\ Ordered(<<x>> \o <<>>, given, offered + n)
    BY <1>1, <1>2, <1>3, <1>4, OrderedPut
  <2> QED  BY <1>4, <2>1
<1>6. todo' = <<x>> /\ offered' = offered + n
  BY DEF x, Call
<1> QED  BY <1>1, <1>5, <1>6 DEF Call, Started

LEMMA StartsWithFlush ==
    ASSUME OutTypeOK, Ordered(todo, given, offered), Call(0, <<FlushAll>>)
    PROVE  Started
<1>1. offered \in Nat /\ given \in Bytestring /\ todo = <<>>
  BY DEF OutTypeOK, Call
<1>2. <<FlushAll>> \o todo = <<FlushAll>> /\ todo \in Seq(Part)
  BY <1>1, FlushIsPart
<1>3. <<FlushAll>> \o todo \in Seq(Part) /\ Ordered(<<FlushAll>> \o todo, given, offered)
  BY <1>1, <1>2, OrderedFlush
<1>4. offered' = offered /\ todo' = <<FlushAll>>
  BY <1>1 DEF Call
<1>5. todo' \in Seq(Part) /\ Ordered(todo', given, offered')
  BY <1>2, <1>3, <1>4
<1> QED  BY <1>1, <1>4, <1>5 DEF Call, Started

LEMMA StartsWithChunk ==
    ASSUME OutTypeOK, Ordered(todo, given, offered), NEW n \in Nat,
           Call(n, <<Put("span", Offer(n)), FlushAll>>)
    PROVE  Started
<1> DEFINE x == Put("span", Offer(n))
<1>1. /\ offered \in Nat /\ given \in Bytestring /\ todo = <<>>
      /\ Ordered(<<>>, given, offered) /\ offered + n \in Nat
  BY DEF OutTypeOK, Call
<1>2. x \in Part /\ InPlace(x, given, offered + n) /\ x.bytes \in Bytestring
  BY <1>1, OfferIs DEF Part
<1>3. <<FlushAll>> \in Seq(Part) /\ Ordered(<<FlushAll>>, given, offered + n)
  <2>1. <<FlushAll>> \o <<>> = <<FlushAll>> /\ <<>> \in Seq(Part)
    BY FlushIsPart
  <2>2. Ordered(<<>>, given, offered + n)
    BY <1>1, OfferedMore
  <2>3. <<FlushAll>> \o <<>> \in Seq(Part)
        /\ Ordered(<<FlushAll>> \o <<>>, given, offered + n)
    BY <1>1, <2>1, <2>2, OrderedFlush
  <2> QED  BY <2>1, <2>3
<1> HIDE DEF x
<1>4. \A k \in DOMAIN <<FlushAll>> : Below(x.bytes, <<FlushAll>>[k].bytes)
  BY <1>2, BelowFlush
<1>5. <<x>> \o <<FlushAll>> = <<x, FlushAll>>
  BY <1>2, FlushIsPart, Tuples
<1>6. <<x>> \o <<FlushAll>> \in Seq(Part)
      /\ Ordered(<<x>> \o <<FlushAll>>, given, offered + n)
  BY <1>1, <1>2, <1>3, <1>4, OrderedPut
<1>7. todo' = <<x, FlushAll>> /\ offered' = offered + n
  BY DEF x, Call
<1>8. todo' \in Seq(Part) /\ Ordered(todo', given, offered')
  BY <1>5, <1>6, <1>7
<1> QED  BY <1>1, <1>7, <1>8 DEF Call, Started

LEMMA StartsWithLine ==
    ASSUME OutTypeOK, Ordered(todo, given, offered), NEW n \in Nat,
           Call(n + 1, <<Put("span", Offer(n)), Put("char", <<offered + n + 1>>), FlushAll>>)
    PROVE  Started
<1> DEFINE x == Put("span", Offer(n))
           c == Put("char", <<offered + n + 1>>)
           o == offered + n + 1
<1>1. /\ offered \in Nat /\ given \in Bytestring /\ todo = <<>> /\ o \in Nat
      /\ Ordered(<<>>, given, offered) /\ o = offered + (n + 1)
  BY DEF OutTypeOK, Call
<1>2. /\ x \in Part /\ InPlace(x, given, offered + n) /\ x.bytes = Offer(n)
      /\ x.do = "span" /\ UpTo(Offer(n), offered + n)
  BY <1>1, OfferIs DEF Put
<1>3. /\ Offer(n) \in Bytestring /\ DOMAIN Offer(n) = 1 .. n
      /\ \A i \in 1 .. n : Offer(n)[i] = offered + i
  BY <1>1 DEF Offer, Bytestring
<1>4. InPlace(x, given, o)
  <2>1. UpTo(Offer(n), o)
    BY <1>1, <1>3 DEF UpTo
  <2> QED  BY <1>2, <2>1 DEF InPlace
<1>5. Ordered(<<>>, given, o)
  BY <1>1, OfferedMore
<1>6. /\ c \in Part /\ c.bytes = <<o>> /\ c.bytes \in Bytestring /\ InPlace(c, given, o)
      /\ Below(x.bytes, c.bytes)
  <2>1. c \in Part /\ c.bytes = <<o>> /\ <<o>> \in Bytestring /\ Len(<<o>>) = 1
    BY <1>1 DEF Put, Part, Bytestring
  <2>2. Rising(<<o>>) /\ UpTo(<<o>>, o)
    BY <1>1 DEF Rising, UpTo
  <2>3. \A i \in DOMAIN given : given[i] \in Nat /\ given[i] <= offered
    BY <1>1, Positions DEF Ordered, UpTo
  <2>4. Below(given, <<o>>)
    BY <1>1, <2>3 DEF Below
  <2>5. Below(Offer(n), <<o>>)
    BY <1>1, <1>3 DEF Below
  <2> HIDE DEF o
  <2> QED  BY <1>2, <2>1, <2>2, <2>4, <2>5 DEF InPlace
<1> HIDE DEF x, c, o
<1>7. <<FlushAll>> \in Seq(Part) /\ Ordered(<<FlushAll>>, given, o)
  <2>1. <<FlushAll>> \o <<>> = <<FlushAll>> /\ <<>> \in Seq(Part)
    BY FlushIsPart
  <2>2. <<FlushAll>> \o <<>> \in Seq(Part) /\ Ordered(<<FlushAll>> \o <<>>, given, o)
    BY <1>1, <1>5, <2>1, OrderedFlush
  <2> QED  BY <2>1, <2>2
<1>8. <<c, FlushAll>> \in Seq(Part) /\ Ordered(<<c, FlushAll>>, given, o)
  <2>1. \A k \in DOMAIN <<FlushAll>> : Below(c.bytes, <<FlushAll>>[k].bytes)
    BY <1>6, BelowFlush
  <2>2. <<c>> \o <<FlushAll>> = <<c, FlushAll>>
    BY <1>6, FlushIsPart, Tuples
  <2>3. <<c>> \o <<FlushAll>> \in Seq(Part) /\ Ordered(<<c>> \o <<FlushAll>>, given, o)
    BY <1>1, <1>6, <1>7, <2>1, OrderedPut
  <2> QED  BY <2>2, <2>3
<1>9. <<x, c, FlushAll>> \in Seq(Part) /\ Ordered(<<x, c, FlushAll>>, given, o)
  <2>1. x.bytes \in Bytestring
    BY <1>2, <1>3
  <2>2. Below(x.bytes, FlushAll.bytes)
    BY <2>1, BelowFlush
  <2>3. \A k \in DOMAIN <<c, FlushAll>> : Below(x.bytes, <<c, FlushAll>>[k].bytes)
    <3>1. \A k \in DOMAIN <<c, FlushAll>> :
              <<c, FlushAll>>[k] = c \/ <<c, FlushAll>>[k] = FlushAll
      BY <1>6, FlushIsPart, Tuples
    <3> QED  BY <1>6, <2>2, <3>1
  <2>4. <<x>> \o <<c, FlushAll>> = <<x, c, FlushAll>>
    BY <1>2, <1>6, FlushIsPart, Tuples
  <2>5. <<x>> \o <<c, FlushAll>> \in Seq(Part)
        /\ Ordered(<<x>> \o <<c, FlushAll>>, given, o)
    BY <1>1, <1>2, <1>4, <1>8, <2>3, OrderedPut
  <2> QED  BY <2>4, <2>5
<1>10. todo' = <<x, c, FlushAll>> /\ offered' = o
  BY <1>1 DEF x, c, o, Call
<1>11. todo' \in Seq(Part) /\ Ordered(todo', given, offered')
  BY <1>9, <1>10
<1> QED  BY <1>1, <1>10, <1>11 DEF Call, Started

\* Whatever the call.
Calls(n) == putchar \/ flush \/ putspan(n) \/ putchunk(n) \/ putline(n)
            \/ trywrite(n) \/ write(n)

LEMMA CallStarts ==
    ASSUME OutTypeOK, Ordered(todo, given, offered), NEW n \in 1 .. Size + 1, Calls(n)
    PROVE  Started
<1>1. n \in Nat /\ AtMost(Room, n) \in Nat
  <2>1. Len(mOutBuffer) \in Nat /\ mOutIndex \in 0 .. Len(mOutBuffer)
    BY Positions DEF OutTypeOK
  <2> QED  BY <2>1 DEF AtMost, Room
<1>2. CASE putchar
  BY <1>2, StartsWithOne DEF putchar
<1>3. CASE flush
  BY <1>3, StartsWithFlush DEF flush
<1>4. CASE putspan(n)
  BY <1>1, <1>4, StartsWithOne DEF putspan
<1>5. CASE putchunk(n)
  BY <1>1, <1>5, StartsWithChunk DEF putchunk
<1>6. CASE putline(n)
  BY <1>1, <1>6, StartsWithLine DEF putline
<1>7. CASE trywrite(n)
  BY <1>1, <1>7, StartsWithOne DEF trywrite
<1>8. CASE write(n)
  <2>1. CASE buffull
    BY <1>1, <1>8, <2>1, StartsWithOne DEF write
  <2>2. CASE ~buffull
    BY <1>1, <1>8, <2>2, StartsWithOne DEF write
  <2> QED  BY <2>1, <2>2
<1> QED  BY <1>2, <1>3, <1>4, <1>5, <1>6, <1>7, <1>8 DEF Calls

-----------------------------------------------------------------------------
(* What a store and a write do to the pipe, the buffer and what they hold.  *)
LEMMA InRange ==
    ASSUME NEW s \in Bytestring, NEW x
    PROVE  x \in Range(s) <=> \E i \in 1 .. Len(s) : s[i] = x
BY Positions DEF Range

\* Bytes taken over go behind all the others, in the buffer or in the pipe.
LEMMA TurnKept ==
    ASSUME NEW a \in Bytestring, NEW g \in Bytestring, NEW u \in Bytestring,
           Range(a) = Range(g), InTurn(a, g), Rising(g \o u)
    PROVE  InTurn(a \o u, g \o u)
<1>1. /\ Len(a) \in Nat /\ DOMAIN a = 1 .. Len(a)
      /\ Len(g) \in Nat /\ DOMAIN g = 1 .. Len(g)
      /\ Len(u) \in Nat /\ DOMAIN u = 1 .. Len(u)
      /\ DOMAIN (a \o u) = 1 .. Len(a) + Len(u)
      /\ DOMAIN (g \o u) = 1 .. Len(g) + Len(u)
  BY Joined, Positions
<1>2. Rising(u) /\ Below(g, u)
  BY RisingParts
<1>3. /\ \A i \in 1 .. Len(a) : (a \o u)[i] = a[i]
      /\ \A i \in 1 .. Len(u) : (a \o u)[Len(a) + i] = u[i]
  BY Joined
<1>4. /\ \A i \in 1 .. Len(a) : a[i] \in Nat
      /\ \A i \in 1 .. Len(g) : g[i] \in Nat
      /\ \A i \in 1 .. Len(u) : u[i] \in Nat
  BY Positions
<1> SUFFICES ASSUME NEW m \in DOMAIN (g \o u), NEW j \in DOMAIN (a \o u),
                    (g \o u)[m] < (a \o u)[j]
             PROVE  \E i \in 1 .. j - 1 : (a \o u)[i] = (g \o u)[m]
  BY DEF InTurn
<1>5. \/ j \in 1 .. Len(a) /\ (a \o u)[j] = a[j]
      \/ j - Len(a) \in 1 .. Len(u) /\ (a \o u)[j] = u[j - Len(a)]
  BY <1>1, WhichPart
<1>6. \/ m \in 1 .. Len(g) /\ (g \o u)[m] = g[m]
      \/ m - Len(g) \in 1 .. Len(u) /\ (g \o u)[m] = u[m - Len(g)]
  BY <1>1, WhichPart
<1>7. CASE j \in 1 .. Len(a) /\ (a \o u)[j] = a[j]
  <2>1. PICK l \in 1 .. Len(g) : g[l] = a[j]
    BY <1>7, InRange
  <2>2. CASE m \in 1 .. Len(g) /\ (g \o u)[m] = g[m]
    <3>1. PICK i \in 1 .. j - 1 : a[i] = g[m]
      BY <1>1, <1>7, <2>2 DEF InTurn
    <3>2. i \in 1 .. Len(a)
      BY <1>1, <1>7
    <3> QED  BY <1>3, <2>2, <3>1, <3>2
  <2>3. CASE m - Len(g) \in 1 .. Len(u) /\ (g \o u)[m] = u[m - Len(g)]
    <3>1. g[l] < u[m - Len(g)]
      BY <1>1, <1>2, <2>1, <2>3 DEF Below
    <3>2. g[l] \in Nat /\ u[m - Len(g)] \in Nat
      BY <1>4, <2>1, <2>3
    <3> QED  BY <1>7, <2>1, <2>3, <3>1, <3>2
  <2> QED  BY <1>6, <2>2, <2>3
<1>8. CASE j - Len(a) \in 1 .. Len(u) /\ (a \o u)[j] = u[j - Len(a)]
  <2>1. CASE m \in 1 .. Len(g) /\ (g \o u)[m] = g[m]
    <3>1. PICK i \in 1 .. Len(a) : a[i] = g[m]
      BY <2>1, InRange
    <3>2. i \in 1 .. j - 1
      BY <1>1, <1>8
    <3> QED  BY <1>3, <2>1, <3>1, <3>2
  <2>2. CASE m - Len(g) \in 1 .. Len(u) /\ (g \o u)[m] = u[m - Len(g)]
    <3> DEFINE x == m - Len(g)
               y == j - Len(a)
    <3>1. x \in DOMAIN u /\ y \in DOMAIN u /\ u[x] < u[y]
      BY <1>1, <1>8, <2>2
    <3>2. x < y
      <4>1. u[x] \in Nat /\ u[y] \in Nat /\ x \in Nat /\ y \in Nat
        BY <1>1, <1>4, <3>1
      <4>2. y < x => u[y] < u[x]
        BY <1>2, <3>1 DEF Rising
      <4>3. y = x => u[x] = u[y]
        OBVIOUS
      <4> HIDE DEF x, y
      <4> QED  BY <3>1, <4>1, <4>2, <4>3
    <3>3. Len(a) + x \in 1 .. j - 1 /\ (a \o u)[Len(a) + x] = u[x]
      BY <1>1, <1>3, <1>8, <3>1, <3>2
    <3> QED  BY <2>2, <3>3
  <2> QED  BY <1>6, <2>1, <2>2
<1> QED  BY <1>5, <1>7, <1>8

LEMMA PutKept ==
    ASSUME NEW w \in Bytestring, NEW b \in Bytestring, NEW g \in Bytestring,
           NEW u \in Bytestring, KeptAll(w, b, 0, g), Rising(g \o u)
    PROVE  /\ KeptAll(w, b \o u, 0, g \o u)
           /\ Exact(w, b, 0, g) => Exact(w, b \o u, 0, g \o u)
           /\ InTurn(w \o b, g) => InTurn(w \o (b \o u), g \o u)
<1>1. w \o (b \o u) = (w \o b) \o u
  BY Joins3
<1>2. w \o b \in Bytestring /\ b \o u \in Bytestring
  BY Joined
<1>3. Range((w \o b) \o u) = Range(g \o u)
  <2>1. Range((w \o b) \o u) = Range(w \o b) \cup Range(u)
    BY <1>2, RangeJoined
  <2>2. Range(g \o u) = Range(g) \cup Range(u)
    BY RangeJoined
  <2> QED  BY <2>1, <2>2 DEF KeptAll
<1>4. KeptAll(w, b \o u, 0, g \o u)
  BY <1>1, <1>3 DEF KeptAll
<1>5. SubSeq(b, 0 + 1, Len(b)) = b /\ SubSeq(b \o u, 0 + 1, Len(b \o u)) = b \o u
  BY <1>2, SubSeqFull DEF Bytestring
<1>6. ASSUME Exact(w, b, 0, g) PROVE Exact(w, b \o u, 0, g \o u)
  <2>1. g = w \o b
    BY <1>5, <1>6 DEF Exact
  <2>2. g \o u = w \o (b \o u)
    BY <1>1, <2>1
  <2> QED  BY <1>5, <2>2 DEF Exact
<1>7. ASSUME InTurn(w \o b, g) PROVE InTurn(w \o (b \o u), g \o u)
  BY <1>1, <1>2, <1>7, TurnKept DEF KeptAll
<1> QED  BY <1>4, <1>6, <1>7

LEMMA RawKept ==
    ASSUME NEW w \in Bytestring, NEW b \in Bytestring, NEW g \in Bytestring,
           NEW u \in Bytestring, KeptAll(w, b, 0, g), Rising(g \o u)
    PROVE  /\ KeptAll(w \o u, b, 0, g \o u)
           /\ b = <<>> /\ Exact(w, b, 0, g) => Exact(w \o u, b, 0, g \o u)
           /\ b = <<>> /\ InTurn(w \o b, g) => InTurn((w \o u) \o b, g \o u)
<1>1. w \o u \in Bytestring /\ w \o b \in Bytestring
  BY Joined
<1>2. Range((w \o u) \o b) = Range(g \o u)
  <2>1. Range((w \o u) \o b) = Range(w \o u) \cup Range(b)
    BY <1>1, RangeJoined
  <2>2. Range(w \o u) = Range(w) \cup Range(u)
    BY RangeJoined
  <2>3. Range(w \o b) = Range(w) \cup Range(b) /\ Range(g \o u) = Range(g) \cup Range(u)
    BY RangeJoined
  <2> QED  BY <2>1, <2>2, <2>3 DEF KeptAll
<1>3. KeptAll(w \o u, b, 0, g \o u)
  BY <1>2 DEF KeptAll
<1>4. ASSUME b = <<>> PROVE w \o b = w /\ (w \o u) \o b = w \o u
  BY <1>1, <1>4, NoBytes
<1>5. ASSUME b = <<>>, Exact(w, b, 0, g) PROVE Exact(w \o u, b, 0, g \o u)
  <2>1. SubSeq(b, 0 + 1, Len(b)) = b
    BY SubSeqFull DEF Bytestring
  <2> QED  BY <1>4, <1>5, <2>1 DEF Exact
<1>6. ASSUME b = <<>>, InTurn(w \o b, g) PROVE InTurn((w \o u) \o b, g \o u)
  <2>1. InTurn(w, g) /\ Range(w) = Range(g)
    BY <1>4, <1>6 DEF KeptAll
  <2> QED  BY <1>4, <1>6, <2>1, TurnKept
<1> QED  BY <1>3, <1>5, <1>6

\* A string in turn is in turn up to any point.
LEMMA TurnFront ==
    ASSUME NEW a \in Bytestring, NEW b \in Bytestring, NEW g, InTurn(a \o b, g)
    PROVE  InTurn(a, g)
<1>1. /\ Len(a) \in Nat /\ DOMAIN a = 1 .. Len(a)
      /\ \A i \in 1 .. Len(a) : i \in DOMAIN (a \o b) /\ (a \o b)[i] = a[i]
  BY Joined, Positions
<1> SUFFICES ASSUME NEW m \in DOMAIN g, NEW j \in DOMAIN a, g[m] < a[j]
             PROVE  \E i \in 1 .. j - 1 : a[i] = g[m]
  BY DEF InTurn
<1>2. PICK i \in 1 .. j - 1 : (a \o b)[i] = g[m]
  BY <1>1 DEF InTurn
<1>3. i \in 1 .. Len(a)
  BY <1>1
<1> QED  BY <1>1, <1>2, <1>3

\* A flush writes on, from the n-th byte of the buffer to the c-th.
LEMMA WrittenKept ==
    ASSUME NEW w \in Bytestring, NEW b \in Bytestring, NEW g \in Bytestring,
           NEW n \in Nat, NEW c \in Nat, n <= c, c <= Len(b), KeptAll(w, b, n, g)
    PROVE  KeptAll(w \o SubSeq(b, n + 1, c), b, c, g)
<1> DEFINE u == SubSeq(b, n + 1, c)
<1>1. u \in Bytestring /\ Len(u) = c - n /\ \A i \in 1 .. c - n : u[i] = b[n + i]
  BY Piece
<1> HIDE DEF u
<1>2. w \o u \in Bytestring /\ w \o b \in Bytestring
  BY <1>1, Joined
<1>3. ASSUME NEW x \in Range(u) PROVE x \in Range(b)
  <2>1. PICK i \in 1 .. Len(u) : u[i] = x
    BY <1>1, <1>3, InRange
  <2>2. n + i \in 1 .. Len(b) /\ b[n + i] = x
    BY <1>1, <2>1, Positions
  <2> QED  BY <2>2, InRange
<1>4. Range((w \o u) \o b) = Range(g)
  <2>1. Range((w \o u) \o b) = Range(w \o u) \cup Range(b)
    BY <1>2, RangeJoined
  <2>2. Range(w \o u) = Range(w) \cup Range(u)
    BY <1>1, RangeJoined
  <2>3. Range(w \o b) = Range(w) \cup Range(b)
    BY RangeJoined
  <2> QED  BY <1>3, <2>1, <2>2, <2>3 DEF KeptAll
<1>5. ASSUME NEW i \in 1 .. c PROVE b[i] \in Range(w \o u)
  <2>1. Range(w \o u) = Range(w) \cup Range(u)
    BY <1>1, RangeJoined
  <2>2. CASE i <= n
    BY <2>1, <2>2 DEF KeptAll
  <2>3. CASE i > n
    <3>1. i - n \in 1 .. Len(u) /\ u[i - n] = b[i]
      BY <1>1, <2>3
    <3>2. b[i] \in Range(u)
      BY <1>1, <3>1, InRange
    <3> QED  BY <2>1, <3>2
  <2> QED  BY <2>2, <2>3
<1>6. KeptAll(w \o u, b, c, g)
  BY <1>4, <1>5 DEF KeptAll
<1> QED  BY <1>6 DEF u

LEMMA WrittenExact ==
    ASSUME NEW w \in Bytestring, NEW b \in Bytestring, NEW g \in Bytestring,
           NEW n \in Nat, NEW c \in Nat, n <= c, c <= Len(b), Exact(w, b, n, g)
    PROVE  Exact(w \o SubSeq(b, n + 1, c), b, c, g)
<1> DEFINE u == SubSeq(b, n + 1, c)
           v == SubSeq(b, c + 1, Len(b))
<1>1. Len(b) \in Nat
  BY Positions
<1>2. u \in Bytestring /\ v \in Bytestring
  BY <1>1, Piece
<1>3. u \o v = SubSeq(b, n + 1, Len(b))
  <2>1. n + 1 \in 1 .. Len(b) + 1 /\ c \in (n + 1) - 1 .. Len(b) /\ Len(b) \in c .. Len(b)
    BY <1>1
  <2> QED  BY <2>1, ConcatAdjacentSubSeq DEF Bytestring
<1> HIDE DEF u, v
<1>4. (w \o u) \o v = w \o (u \o v)
  BY <1>2, Joins3
<1>5. g = (w \o u) \o v
  BY <1>3, <1>4 DEF Exact
<1> QED  BY <1>5 DEF Exact, u, v

LEMMA WrittenTurn ==
    ASSUME NEW w \in Bytestring, NEW b \in Bytestring, NEW g \in Bytestring,
           NEW n \in Nat, NEW c \in Nat, n <= c, c <= Len(b), KeptAll(w, b, n, g),
           InTurn(w \o b, g)
    PROVE  InTurn((w \o SubSeq(b, n + 1, c)) \o b, g)
<1> DEFINE u == SubSeq(b, n + 1, c)
           W == Len(w)
           L == Len(b)
           d == c - n
           old == w \o b
           all == (w \o u) \o b
<1>1. /\ u \in Bytestring /\ Len(u) = d /\ \A i \in 1 .. d : u[i] = b[n + i]
      /\ W \in Nat /\ L \in Nat /\ d \in Nat /\ n + d <= L
  BY Piece, Positions
<1> HIDE DEF u, d
<1>2. w \o u \in Bytestring /\ Len(w \o u) = W + d
  BY <1>1, Joined
<1>3. old \in Bytestring /\ DOMAIN old = 1 .. W + L
  BY <1>1, Joined, Positions
<1>4. all \in Bytestring /\ DOMAIN all = 1 .. W + d + L
  <2>1. all \in Bytestring /\ Len(all) = Len(w \o u) + L
    BY <1>2, Joined
  <2> HIDE DEF all
  <2> QED  BY <1>2, <2>1, Positions
<1>5. \A i \in 1 .. W : old[i] = w[i]
  BY Joined
<1>6. \A i \in 1 .. L : old[W + i] = b[i]
  BY Joined
<1>7. \A i \in 1 .. W + d : all[i] = (w \o u)[i]
  BY <1>2, Joined
<1>8. \A i \in 1 .. L : all[W + d + i] = b[i]
  BY <1>2, Joined
<1>9. \A i \in 1 .. W : all[i] = w[i]
  <2>1. \A i \in 1 .. W : i \in 1 .. W + d /\ (w \o u)[i] = w[i]
    BY <1>1, Joined
  <2> QED  BY <1>7, <2>1
<1>10. \A i \in 1 .. d : all[W + i] = b[n + i]
  <2>1. \A i \in 1 .. d : W + i \in 1 .. W + d /\ (w \o u)[W + i] = u[i]
    BY <1>1, Joined
  <2> QED  BY <1>1, <1>7, <2>1
<1>11. \A i \in 1 .. n : \E l \in 1 .. W : w[l] = b[i]
  BY InRange DEF KeptAll
<1>12. \A m \in DOMAIN g, j \in 1 .. W + L : g[m] < old[j] =>
           \E i \in 1 .. j - 1 : old[i] = g[m]
  BY <1>3 DEF InTurn
<1> HIDE DEF all, old, W, L
<1> SUFFICES ASSUME NEW m \in DOMAIN g, NEW j \in 1 .. W + d + L, g[m] < all[j]
             PROVE  \E i \in 1 .. j - 1 : all[i] = g[m]
  BY <1>4 DEF InTurn, all, u
<1>13. CASE j <= W
  <2>1. j \in 1 .. W /\ j \in 1 .. W + L
    BY <1>1, <1>13
  <2>2. PICK i \in 1 .. j - 1 : old[i] = g[m]
    BY <1>5, <1>9, <1>12, <2>1
  <2>3. i \in 1 .. W
    BY <1>1, <2>1
  <2> QED  BY <1>5, <1>9, <2>2, <2>3
<1>14. CASE W < j /\ j <= W + d
  <2>1. PICK k \in 1 .. d : j = W + k /\ n + k \in 1 .. L /\ j + n \in 1 .. W + L
    <3>1. j - W \in 1 .. d /\ j = W + (j - W)
      BY <1>1, <1>14
    <3>2. n + (j - W) \in 1 .. L /\ j + n \in 1 .. W + L
      BY <1>1, <1>14
    <3> QED  BY <3>1, <3>2
  <2>2. all[j] = old[j + n]
    <3>1. j + n = W + (n + k)
      BY <1>1, <2>1
    <3> QED  BY <1>6, <1>10, <2>1, <3>1
  <2>3. PICK i \in 1 .. j + n - 1 : old[i] = g[m]
    BY <1>12, <2>1, <2>2
  <2>4. CASE i <= W
    <3>1. i \in 1 .. W /\ i \in 1 .. j - 1
      BY <1>1, <1>14, <2>4
    <3> QED  BY <1>5, <1>9, <2>3, <3>1
  <2>5. CASE W < i /\ i <= W + n
    <3>1. i - W \in 1 .. n /\ i - W \in 1 .. L /\ W + (i - W) = i
      BY <1>1, <2>5
    <3>2. PICK l \in 1 .. W : w[l] = g[m]
      BY <1>6, <1>11, <2>3, <3>1
    <3>3. l \in 1 .. j - 1
      BY <1>1, <1>14
    <3> QED  BY <1>9, <3>2, <3>3
  <2>6. CASE W + n < i
    <3>1. PICK q \in 1 .. k - 1 : i = W + (n + q)
      <4>1. i - W - n \in 1 .. k - 1 /\ i = W + (n + (i - W - n))
        BY <1>1, <2>1, <2>6
      <4> QED  BY <4>1
    <3>2. q \in 1 .. d /\ n + q \in 1 .. L /\ W + q \in 1 .. j - 1
      BY <1>1, <2>1, <3>1
    <3>3. all[W + q] = b[n + q] /\ b[n + q] = g[m]
      BY <1>6, <1>10, <2>3, <3>1, <3>2
    <3> QED  BY <3>2, <3>3
  <2> QED  BY <1>1, <2>4, <2>5, <2>6
<1>15. CASE W + d < j
  <2>1. PICK k \in 1 .. L : j = W + d + k
    <3>1. j - W - d \in 1 .. L /\ j = W + d + (j - W - d)
      BY <1>1, <1>15
    <3> QED  BY <3>1
  <2>2. W + k \in 1 .. W + L /\ old[W + k] = all[j]
    <3>1. old[W + k] = b[k]
      BY <1>6
    <3>2. all[W + d + k] = b[k]
      BY <1>8
    <3>3. W + k \in 1 .. W + L
      BY <1>1
    <3> QED  BY <2>1, <3>1, <3>2, <3>3
  <2>3. PICK i \in 1 .. W + k - 1 : old[i] = g[m]
    <3>1. PICK x \in 1 .. W + L : x = W + k
      BY <2>2
    <3>2. \E i \in 1 .. x - 1 : old[i] = g[m]
      BY <1>12, <2>2, <3>1
    <3>3. 1 .. x - 1 = 1 .. W + k - 1
      BY <1>1, <3>1
    <3> QED  BY <3>2, <3>3
  <2>4. CASE i <= W
    <3>1. i \in 1 .. W /\ i \in 1 .. j - 1
      BY <1>1, <1>15, <2>4
    <3> QED  BY <1>5, <1>9, <2>3, <3>1
  <2>5. CASE W < i
    <3>1. PICK q \in 1 .. L : i = W + q /\ W + d + q \in 1 .. j - 1
      <4>1. i - W \in 1 .. L /\ i = W + (i - W)
        BY <1>1, <2>1, <2>5
      <4>2. W + d + (i - W) \in 1 .. j - 1
        BY <1>1, <2>1, <2>5
      <4> QED  BY <4>1, <4>2
    <3>2. all[W + d + q] = b[q] /\ old[i] = b[q]
      BY <1>6, <1>8, <3>1
    <3> QED  BY <2>3, <3>1, <3>2
  <2> QED  BY <1>1, <2>4, <2>5
<1> QED  BY <1>1, <1>13, <1>14, <1>15

\* When the last byte of the buffer is written, the buffer is empty.
LEMMA WrittenWhole ==
    ASSUME NEW w \in Bytestring, NEW b \in Bytestring, NEW g \in Bytestring,
           KeptAll(w, b, Len(b), g)
    PROVE  /\ KeptAll(w, <<>>, 0, g)
           /\ Exact(w, b, Len(b), g) => Exact(w, <<>>, 0, g)
           /\ InTurn(w \o b, g) => InTurn(w \o <<>>, g)
<1>1. w \o <<>> = w /\ <<>> \in Bytestring /\ Len(<<>>) = 0 /\ Len(b) \in Nat
  BY NoBytes, Positions
<1>2. Range(w) = Range(g)
  <2>1. Range(b) \subseteq Range(w)
    BY InRange DEF KeptAll
  <2>2. Range(w \o b) = Range(w) \cup Range(b)
    BY RangeJoined
  <2> QED  BY <2>1, <2>2 DEF KeptAll
<1>3. KeptAll(w, <<>>, 0, g)
  BY <1>1, <1>2 DEF KeptAll
<1>4. SubSeq(b, Len(b) + 1, Len(b)) = <<>> /\ SubSeq(<<>>, 0 + 1, 0) = <<>>
  BY <1>1, NoBytes
<1>5. ASSUME Exact(w, b, Len(b), g) PROVE Exact(w, <<>>, 0, g)
  BY <1>1, <1>4, <1>5 DEF Exact
<1>6. ASSUME InTurn(w \o b, g) PROVE InTurn(w \o <<>>, g)
  BY <1>1, <1>6, TurnFront
<1> QED  BY <1>3, <1>5, <1>6

-----------------------------------------------------------------------------
(* The steps of the writer.                                                 *)
LEMMA PieceOfFront ==
    ASSUME NEW s \in Bytestring, NEW n \in Nat, NEW a \in Nat, NEW b \in Nat,
           a <= b, b <= n, n <= Len(s)
    PROVE  SubSeq(SubSeq(s, 1, n), a + 1, b) = SubSeq(s, a + 1, b)
<1> DEFINE f == SubSeq(s, 1, n)
           q == SubSeq(f, a + 1, b)
           r == SubSeq(s, a + 1, b)
<1>1. Len(s) \in Nat /\ b <= Len(s)
  BY Positions
<1>2. f \in Bytestring /\ Len(f) = n /\ \A i \in 1 .. n : f[i] = s[i]
  BY Front
<1>3. r \in Bytestring /\ Len(r) = b - a /\ \A i \in 1 .. b - a : r[i] = s[a + i]
  BY <1>1, Piece
<1> HIDE DEF f
<1>4. q \in Bytestring /\ Len(q) = b - a /\ \A i \in 1 .. b - a : q[i] = f[a + i]
  BY <1>2, Piece
<1> HIDE DEF q, r
<1>5. ASSUME NEW i \in 1 .. b - a PROVE q[i] = r[i]
  <2>1. a + i \in 1 .. n
    OBVIOUS
  <2> QED  BY <1>2, <1>3, <1>4, <2>1
<1>6. q = r
  BY <1>3, <1>4, <1>5, SeqEqual DEF Bytestring
<1> QED  BY <1>6 DEF f, q, r

LEMMA BufferedIs ==
    ASSUME OutTypeOK
    PROVE  /\ Buffered \in Bytestring /\ Len(Buffered) = mOutIndex
           /\ \A i \in 1 .. mOutIndex : Buffered[i] = mOutBuffer[i]
           /\ Unsent = SubSeq(Buffered, sent + 1, Len(Buffered))
<1>1. /\ mOutIndex \in Nat /\ sent \in Nat /\ sent <= mOutIndex
      /\ mOutIndex <= Len(mOutBuffer) /\ Len(mOutBuffer) \in Nat
      /\ mOutBuffer \in Bytestring
  BY Positions DEF OutTypeOK
<1>2. /\ Buffered \in Bytestring /\ Len(Buffered) = mOutIndex
      /\ \A i \in 1 .. mOutIndex : Buffered[i] = mOutBuffer[i]
  BY <1>1, Front DEF Buffered
<1>3. SubSeq(Buffered, sent + 1, mOutIndex) = SubSeq(mOutBuffer, sent + 1, mOutIndex)
  BY <1>1, PieceOfFront DEF Buffered
<1> QED  BY <1>2, <1>3 DEF Unsent

LEMMA UnsentFront ==
    ASSUME OutTypeOK, NEW n \in Nat, NEW c \in Nat, c = sent + n, c <= mOutIndex
    PROVE  SubSeq(Unsent, 1, n) = SubSeq(Buffered, sent + 1, c)
<1>1. /\ mOutIndex \in Nat /\ sent \in Nat /\ sent <= c
      /\ mOutIndex <= Len(mOutBuffer) /\ Len(mOutBuffer) \in Nat
      /\ mOutBuffer \in Bytestring
  BY Positions DEF OutTypeOK
<1>2. SubSeq(Unsent, 1, n) = SubSeq(mOutBuffer, sent + 1, c)
  BY <1>1, FirstOfPiece DEF Unsent
<1>3. SubSeq(Buffered, sent + 1, c) = SubSeq(mOutBuffer, sent + 1, c)
  BY <1>1, PieceOfFront DEF Buffered
<1> QED  BY <1>2, <1>3

LEMMA HeadIs ==
    ASSUME OutTypeOK, todo # <<>>
    PROVE  /\ Head(todo) \in Part /\ Bytes \in Bytestring /\ Len(Bytes) \in Nat
           /\ 1 \in DOMAIN todo /\ Head(todo) = todo[1]
           /\ Tail(todo) \in Seq(Part)
<1>1. Head(todo) \in Part /\ Tail(todo) \in Seq(Part)
  BY HeadTailProperties DEF OutTypeOK
<1>2. Bytes \in Bytestring
  BY <1>1 DEF Bytes, Part
<1>3. 1 \in DOMAIN todo /\ Head(todo) = todo[1]
  BY EmptySeq DEF OutTypeOK
<1> QED  BY <1>1, <1>2, <1>3, Positions

\* Store(n) puts the first n bytes behind those in the buffer.
LEMMA StoreIs ==
    ASSUME OutTypeOK, todo # <<>>, NEW n \in Nat, n <= Len(Bytes), n <= Room, Store(n)
    PROVE  /\ mOutBuffer' \in Bytestring /\ mOutIndex' \in 0 .. Len(mOutBuffer')
           /\ Buffered' = Buffered \o SubSeq(Bytes, 1, n)
           /\ Buffered' \in Bytestring /\ SubSeq(Bytes, 1, n) \in Bytestring
           /\ given' = given \o SubSeq(Bytes, 1, n) /\ given' \in Bytestring
<1> DEFINE u == SubSeq(Bytes, 1, n)
           joined == Buffered \o u
<1>1. /\ mOutIndex \in Nat /\ mOutIndex + n <= Len(mOutBuffer)
      /\ Len(mOutBuffer) \in Nat /\ DOMAIN mOutBuffer = 1 .. Len(mOutBuffer)
      /\ mOutBuffer \in Bytestring /\ given \in Bytestring
      /\ \A i \in 1 .. Len(mOutBuffer) : mOutBuffer[i] \in Nat
  BY Positions DEF OutTypeOK, Room
<1>2. /\ Bytes \in Bytestring /\ Len(Bytes) \in Nat
      /\ \A i \in 1 .. Len(Bytes) : Bytes[i] \in Nat
  BY HeadIs, Positions
<1>3. u \in Bytestring /\ Len(u) = n /\ \A i \in 1 .. n : u[i] = Bytes[i]
  BY <1>2, Front
<1>4. /\ mOutBuffer' = [i \in 1 .. Len(mOutBuffer) |->
                          IF i \in mOutIndex + 1 .. mOutIndex + n
                          THEN Bytes[i - mOutIndex] ELSE mOutBuffer[i]]
      /\ mOutIndex' = mOutIndex + n /\ given' = given \o u
  BY <1>1 DEF Store
<1> HIDE DEF u
<1>5. ASSUME NEW i \in 1 .. Len(mOutBuffer)
      PROVE  /\ mOutBuffer'[i] \in Nat
             /\ i <= mOutIndex => mOutBuffer'[i] = mOutBuffer[i]
             /\ i \in mOutIndex + 1 .. mOutIndex + n => mOutBuffer'[i] = Bytes[i - mOutIndex]
  <2>1. CASE i \in mOutIndex + 1 .. mOutIndex + n
    <3>1. i - mOutIndex \in 1 .. Len(Bytes) /\ ~(i <= mOutIndex)
      BY <1>1, <1>2, <2>1
    <3>2. mOutBuffer'[i] = Bytes[i - mOutIndex]
      BY <1>4, <2>1
    <3> QED  BY <1>2, <3>1, <3>2
  <2>2. CASE i \notin mOutIndex + 1 .. mOutIndex + n
    BY <1>1, <1>4, <2>2
  <2> QED  BY <2>1, <2>2
<1>6. mOutBuffer' \in Bytestring /\ Len(mOutBuffer') = Len(mOutBuffer)
  <2>1. mOutBuffer' \in [1 .. Len(mOutBuffer) -> Nat]
    BY <1>4, <1>5
  <2> QED  BY <1>1, <2>1, IsBytestring
<1>7. /\ Buffered' \in Bytestring /\ Len(Buffered') = mOutIndex + n
      /\ \A i \in 1 .. mOutIndex + n : Buffered'[i] = mOutBuffer'[i]
  <2>1. mOutIndex + n \in Nat /\ mOutIndex + n <= Len(mOutBuffer')
    BY <1>1, <1>6
  <2>2. Buffered' = SubSeq(mOutBuffer', 1, mOutIndex + n)
    BY <1>4 DEF Buffered
  <2> QED  BY <1>6, <2>1, <2>2, Front
<1>8. Buffered \in Bytestring /\ Len(Buffered) = mOutIndex
      /\ \A i \in 1 .. mOutIndex : Buffered[i] = mOutBuffer[i]
  BY BufferedIs
<1>9. /\ joined \in Bytestring /\ Len(joined) = mOutIndex + n
      /\ \A i \in 1 .. mOutIndex : joined[i] = Buffered[i]
      /\ \A i \in 1 .. n : joined[mOutIndex + i] = u[i]
  BY <1>3, <1>8, Joined
<1> HIDE DEF joined
<1>10. ASSUME NEW i \in 1 .. mOutIndex + n PROVE Buffered'[i] = joined[i]
  <2>1. i \in 1 .. Len(mOutBuffer)
    BY <1>1
  <2>2. CASE i <= mOutIndex
    <3>1. i \in 1 .. mOutIndex
      BY <1>1, <2>2
    <3> QED  BY <1>5, <1>7, <1>8, <1>9, <2>1, <2>2, <3>1
  <2>3. CASE i > mOutIndex
    <3>1. PICK k \in 1 .. n : i = mOutIndex + k
      <4>1. i - mOutIndex \in 1 .. n /\ i = mOutIndex + (i - mOutIndex)
        BY <1>1, <2>3
      <4> QED  BY <4>1
    <3>2. i - mOutIndex = k /\ i \in mOutIndex + 1 .. mOutIndex + n
      BY <1>1, <3>1
    <3>3. mOutBuffer'[i] = Bytes[k]
      BY <1>5, <2>1, <3>2
    <3> QED  BY <1>3, <1>7, <1>9, <3>1, <3>3
  <2> QED  BY <1>1, <2>2, <2>3
<1>11. Buffered' = joined
  BY <1>7, <1>9, <1>10, SeqEqual DEF Bytestring
<1>12. given' \in Bytestring
  BY <1>1, <1>3, <1>4, Joined
<1>13. mOutIndex' \in 0 .. Len(mOutBuffer')
  BY <1>1, <1>4, <1>6
<1> QED  BY <1>3, <1>4, <1>6, <1>7, <1>11, <1>12, <1>13 DEF joined, u

\* A step that leaves the buffer, the pipe and given alone.
LEMMA OnlyTodo ==
    ASSUME OutInv, UNCHANGED <<mOutIndex, Buffered, given, wire, bypassed>>,
           mOutBuffer' \in Bytestring, mOutIndex' \in 0 .. Len(mOutBuffer'),
           sent' = sent \/ sent' = 0,
           todo' \in Seq(Part), offered' \in Nat, Ordered(todo', given, offered'),
           resent' \in BOOLEAN, resent \/ sent # sent' => resent',
           sent' > 0 => Head(todo').do = "flush" /\ todo' # <<>>,
           closed' => todo' = <<>>
    PROVE  OutInv'
<1>1. OutTypeOK'
  BY DEF OutInv, OutTypeOK
<1>2. Flushing'
  BY DEF Flushing, Begun
<1>3. KeptAll(wire', Buffered', sent', given')
  <2>1. sent \in Nat
    BY DEF OutInv, OutTypeOK
  <2>2. sent' \in Nat /\ sent' <= sent
    BY <2>1
  <2>3. \A i \in 1 .. sent' : i \in 1 .. sent
    BY <2>1, <2>2
  <2> QED  BY <2>3 DEF KeptAll, OutInv
<1>4. ASSUME ~bypassed', ~resent' PROVE Exact(wire', Buffered', sent', given')
  BY <1>4 DEF OutInv, OutTypeOK
<1>5. ASSUME ~bypassed' PROVE InTurn((wire \o Buffered)', given')
  BY <1>5 DEF OutInv
<1>6. Ordered(todo', given', offered')
  OBVIOUS
<1> QED  BY <1>1, <1>2, <1>3, <1>4, <1>5, <1>6 DEF OutInv

LEMMA StartedInv == ASSUME PipeTypeOK, OutInv, Started PROVE OutInv'
<1>1. sent = 0
  BY DEF Started, OutInv, OutTypeOK, Flushing, Begun
<1>2. UNCHANGED <<mOutIndex, mOutBuffer, Buffered, given, wire, bypassed, resent, closed, sent>>
  BY DEF Started, pipe, Buffered
<1>3. mOutBuffer' \in Bytestring /\ mOutIndex' \in 0 .. Len(mOutBuffer') /\ resent' \in BOOLEAN
  BY <1>2 DEF OutInv, OutTypeOK
<1>4. todo' \in Seq(Part) /\ offered' \in Nat /\ Ordered(todo', given, offered') /\ ~closed'
  BY <1>2 DEF Started
<1> QED  BY <1>1, <1>2, <1>3, <1>4, OnlyTodo

\* The first n bytes of the part at hand go to the buffer.
LEMMA StoredInv ==
    ASSUME PipeTypeOK, OutInv, todo # <<>>, Head(todo).do # "flush",
           NEW n \in Nat, n <= Len(Bytes), n <= Room, Store(n),
           UNCHANGED <<sent, offered, resent, bypassed, pipe>>,
           todo' \in Seq(Part), Ordered(todo', given \o SubSeq(Bytes, 1, n), offered)
    PROVE  OutInv'
<1> DEFINE u == SubSeq(Bytes, 1, n)
<1>1. OutTypeOK /\ sent = 0 /\ ~closed
  BY DEF OutInv, OutTypeOK, Flushing, Begun
<1>2. /\ mOutBuffer' \in Bytestring /\ mOutIndex' \in 0 .. Len(mOutBuffer')
      /\ Buffered' = Buffered \o u /\ Buffered' \in Bytestring /\ u \in Bytestring
      /\ given' = given \o u /\ given' \in Bytestring
  BY <1>1, StoreIs
<1> HIDE DEF u
<1>3. wire' = wire /\ closed' = closed
  BY DEF pipe
<1>4. OutTypeOK'
  BY <1>1, <1>2 DEF OutTypeOK
<1>5. Flushing'
  BY <1>1, <1>3 DEF Flushing
<1>6. Ordered(todo', given', offered')
  BY <1>2 DEF u
<1>7. Rising(given \o u)
  BY <1>2, <1>6 DEF Ordered
<1>8. Buffered \in Bytestring /\ given \in Bytestring
  BY <1>1, BufferedIs DEF OutTypeOK
<1>9. /\ KeptAll(wire, Buffered, 0, given) /\ wire \in Bytestring
      /\ ~bypassed /\ ~resent => Exact(wire, Buffered, 0, given)
      /\ ~bypassed => InTurn(wire \o Buffered, given)
  BY <1>1 DEF PipeTypeOK, OutInv
<1>10. /\ KeptAll(wire, Buffered \o u, 0, given \o u)
       /\ Exact(wire, Buffered, 0, given) => Exact(wire, Buffered \o u, 0, given \o u)
       /\ InTurn(wire \o Buffered, given) => InTurn(wire \o (Buffered \o u), given \o u)
  BY <1>2, <1>7, <1>8, <1>9, PutKept
<1>11. /\ KeptAll(wire', Buffered', sent', given')
       /\ ~bypassed' /\ ~resent' => Exact(wire', Buffered', sent', given')
       /\ ~bypassed' => InTurn((wire \o Buffered)', given')
  BY <1>1, <1>2, <1>3, <1>9, <1>10
<1> QED  BY <1>4, <1>5, <1>6, <1>11 DEF OutInv

LEMMA StoreCharInv == ASSUME PipeTypeOK, OutInv, StoreChar PROVE OutInv'
<1>1. OutTypeOK /\ todo # <<>> /\ Head(todo).do = "char" /\ todo \in Seq(Part)
  BY DEF StoreChar, Begun, OutInv, OutTypeOK
<1>2. /\ Ordered(todo, given, offered) /\ offered \in Nat /\ given \in Bytestring
      /\ Bytes \in Bytestring /\ Len(Bytes) = 1 /\ sent = 0 /\ ~closed
  BY <1>1, HeadIs DEF OutInv, OutTypeOK, Flushing, Begun, Ordered, InPlace, Bytes
<1>3. CASE buffull
  <2>1. /\ todo' = <<FlushAll>> \o todo
        /\ UNCHANGED <<mOutBuffer, mOutIndex, given, sent, offered, resent, bypassed>>
        /\ wire' = wire /\ closed' = closed
    BY <1>3 DEF StoreChar, pipe
  <2>2. todo' \in Seq(Part) /\ Ordered(todo', given, offered')
    BY <1>1, <1>2, <2>1, OrderedFlush
  <2>3. Buffered' = Buffered
    BY <2>1 DEF Buffered
  <2>4. /\ mOutBuffer' \in Bytestring /\ mOutIndex' \in 0 .. Len(mOutBuffer')
        /\ offered' \in Nat /\ resent' \in BOOLEAN
    BY <1>1, <2>1 DEF OutTypeOK
  <2> QED  BY <1>2, <2>1, <2>2, <2>3, <2>4, OnlyTodo
<1>4. CASE ~buffull
  <2> DEFINE n == 1
  <2>1. Store(n) /\ todo' = Tail(todo) /\ UNCHANGED <<sent, offered, resent, bypassed, pipe>>
    BY <1>4 DEF StoreChar
  <2>2. n \in Nat /\ n <= Len(Bytes) /\ n <= Room
    BY <1>1, <1>2, <1>4, Positions DEF Room, buffull, OutTypeOK
  <2> HIDE DEF n
  <2>3. /\ SubSeq(Bytes, 1, n) \in Bytestring /\ SubSeq(Bytes, n + 1, Len(Bytes)) \in Bytestring
        /\ SubSeq(Bytes, 1, n) \o SubSeq(Bytes, n + 1, Len(Bytes)) = Bytes
    BY <1>2, <2>2, Split
  <2>4. todo' \in Seq(Part) /\ Ordered(todo', given \o SubSeq(Bytes, 1, n), offered)
    BY <1>1, <1>2, <2>1, <2>3, OrderedTaken DEF Bytes
  <2> QED  BY <1>1, <2>1, <2>2, <2>4, StoredInv
<1> QED  BY <1>3, <1>4

LEMMA StoreSpanInv == ASSUME PipeTypeOK, OutInv, StoreSpan PROVE OutInv'
<1>1. OutTypeOK /\ todo # <<>> /\ Head(todo).do = "span" /\ todo \in Seq(Part)
  BY DEF StoreSpan, Begun, OutInv, OutTypeOK
<1>2. /\ Ordered(todo, given, offered) /\ offered \in Nat /\ given \in Bytestring
      /\ Bytes \in Bytestring /\ Len(Bytes) \in Nat /\ Room \in Nat
      /\ UNCHANGED <<sent, offered, resent, bypassed, pipe>>
  BY <1>1, HeadIs, Positions DEF OutInv, OutTypeOK, StoreSpan, Room
<1>3. CASE Len(Bytes) <= Room
  <2> DEFINE n == Len(Bytes)
  <2>1. /\ Store(n) /\ todo' = Tail(todo)
        /\ n \in Nat /\ n <= Len(Bytes) /\ n <= Room
    BY <1>2, <1>3 DEF StoreSpan
  <2> HIDE DEF n
  <2>2. /\ SubSeq(Bytes, 1, n) \in Bytestring /\ SubSeq(Bytes, n + 1, Len(Bytes)) \in Bytestring
        /\ SubSeq(Bytes, 1, n) \o SubSeq(Bytes, n + 1, Len(Bytes)) = Bytes
    BY <1>2, <2>1, Split
  <2>3. todo' \in Seq(Part) /\ Ordered(todo', given \o SubSeq(Bytes, 1, n), offered)
    BY <1>1, <1>2, <2>1, <2>2, OrderedTaken DEF Bytes
  <2> QED  BY <1>1, <1>2, <2>1, <2>3, StoredInv
<1>4. CASE ~(Len(Bytes) <= Room)
  <2> DEFINE n == Room
             v == SubSeq(Bytes, n + 1, Len(Bytes))
  <2>1. /\ Store(n) /\ todo' = <<FlushAll, Put("span", v)>> \o Tail(todo)
        /\ n \in Nat /\ n <= Len(Bytes) /\ n <= Room
    BY <1>2, <1>4 DEF StoreSpan
  <2> HIDE DEF n
  <2>2. /\ SubSeq(Bytes, 1, n) \in Bytestring /\ v \in Bytestring
        /\ SubSeq(Bytes, 1, n) \o v = Bytes
    BY <1>2, <2>1, Split
  <2>3. todo' \in Seq(Part) /\ Ordered(todo', given \o SubSeq(Bytes, 1, n), offered)
    BY <1>1, <1>2, <2>1, <2>2, OrderedRest DEF Bytes
  <2> QED  BY <1>1, <1>2, <2>1, <2>3, StoredInv
<1> QED  BY <1>3, <1>4

LEMMA StoreSomeInv == ASSUME PipeTypeOK, OutInv, StoreSome PROVE OutInv'
<1>1. OutTypeOK /\ todo # <<>> /\ Head(todo).do = "try" /\ todo \in Seq(Part)
  BY DEF StoreSome, Begun, OutInv, OutTypeOK
<1>2. /\ Ordered(todo, given, offered) /\ offered \in Nat /\ given \in Bytestring
      /\ Bytes \in Bytestring /\ Len(Bytes) \in Nat /\ Room \in Nat
      /\ UNCHANGED <<sent, offered, resent, bypassed, pipe>>
      /\ sent = 0 /\ ~closed
  BY <1>1, HeadIs, Positions DEF OutInv, OutTypeOK, StoreSome, Room, Flushing, Begun
<1>3. CASE mOutBuffer = <<>>
  <2>1. /\ mOutBuffer' = [i \in 1 .. Size |-> 0] /\ UNCHANGED <<mOutIndex, given, todo>>
        /\ wire' = wire /\ closed' = closed
    BY <1>3 DEF StoreSome, pipe
  <2>2. mOutIndex = 0
    BY <1>1, <1>3, EmptySeq DEF OutTypeOK
  <2>3. mOutBuffer' \in Bytestring /\ Len(mOutBuffer') = Size
    <3>1. mOutBuffer' \in [1 .. Size -> Nat]
      BY <2>1
    <3> QED  BY <3>1, IsBytestring
  <2>4. Buffered' = Buffered
    BY <2>1, <2>2, SubSeqEmpty DEF Buffered
  <2>5. /\ mOutIndex' \in 0 .. Len(mOutBuffer')
        /\ offered' \in Nat /\ resent' \in BOOLEAN
    BY <1>1, <1>2, <2>1, <2>2, <2>3 DEF OutTypeOK
  <2> QED  BY <1>1, <1>2, <2>1, <2>3, <2>4, <2>5, OnlyTodo
<1>4. CASE mOutBuffer # <<>>
  <2> DEFINE n == AtMost(Room, Len(Bytes))
  <2>1. Store(n) /\ todo' = Tail(todo)
    BY <1>4 DEF StoreSome
  <2>2. n \in Nat /\ n <= Room /\ n <= Len(Bytes)
    BY <1>2 DEF AtMost
  <2> HIDE DEF n
  <2>3. /\ SubSeq(Bytes, 1, n) \in Bytestring /\ SubSeq(Bytes, n + 1, Len(Bytes)) \in Bytestring
        /\ SubSeq(Bytes, 1, n) \o SubSeq(Bytes, n + 1, Len(Bytes)) = Bytes
    BY <1>2, <2>2, Split
  <2>4. todo' \in Seq(Part) /\ Ordered(todo', given \o SubSeq(Bytes, 1, n), offered)
    BY <1>1, <1>2, <2>1, <2>3, OrderedTaken DEF Bytes
  <2> QED  BY <1>1, <1>2, <2>1, <2>2, <2>4, StoredInv
<1> QED  BY <1>3, <1>4

LEMMA FlushNothingInv == ASSUME PipeTypeOK, OutInv, FlushNothing PROVE OutInv'
<1>1. /\ OutTypeOK /\ todo # <<>> /\ Head(todo).do = "flush" /\ todo \in Seq(Part)
      /\ Ordered(todo, given, offered) /\ offered \in Nat /\ given \in Bytestring
      /\ Bytes \in Bytestring /\ ~closed
  BY HeadIs DEF FlushNothing, Begun, OutInv, OutTypeOK, Flushing
<1>2. /\ mOutIndex = 0 /\ sent = 0 /\ todo' = Tail(todo)
      /\ UNCHANGED <<mOutIndex, sent, offered, given, resent, bypassed>>
      /\ wire' = wire /\ closed' = closed
      /\ mOutBuffer' = IF mOutBuffer = <<>> THEN [i \in 1 .. Size |-> 0] ELSE mOutBuffer
  BY <1>1 DEF FlushNothing, OutTypeOK, pipe
<1>3. mOutBuffer' \in Bytestring /\ Len(mOutBuffer') \in Nat
  <2>1. [i \in 1 .. Size |-> 0] \in [1 .. Size -> Nat]
    OBVIOUS
  <2>2. [i \in 1 .. Size |-> 0] \in Bytestring
    BY <2>1, IsBytestring
  <2>3. mOutBuffer' \in Bytestring
    BY <1>1, <1>2, <2>2 DEF OutTypeOK
  <2> QED  BY <2>3, Positions
<1>4. Buffered' = Buffered
  BY <1>2, SubSeqEmpty DEF Buffered
<1>5. todo' \in Seq(Part) /\ Ordered(todo', given, offered')
  <2>1. <<>> \o Bytes = Bytes /\ given \o <<>> = given /\ <<>> \in Bytestring
    BY <1>1, NoBytes
  <2>2. Tail(todo) \in Seq(Part) /\ Ordered(Tail(todo), given \o <<>>, offered)
    BY <1>1, <2>1, OrderedTaken DEF Bytes
  <2> QED  BY <1>2, <2>1, <2>2
<1>6. mOutIndex' \in 0 .. Len(mOutBuffer') /\ offered' \in Nat /\ resent' \in BOOLEAN
  BY <1>1, <1>2, <1>3 DEF OutTypeOK
<1> QED  BY <1>1, <1>2, <1>3, <1>4, <1>5, <1>6, OnlyTodo

LEMMA OrderedNone ==
    ASSUME NEW t, NEW g, NEW o, Ordered(t, g, o) PROVE Ordered(<<>>, g, o)
BY DEF Ordered

LEMMA FlushFailsInv == ASSUME PipeTypeOK, OutInv, FlushFails PROVE OutInv'
<1>1. OutTypeOK /\ Ordered(todo, given, offered) /\ sent \in Nat /\ todo # <<>> /\ ~closed
  BY DEF OutInv, OutTypeOK, FlushFails, Begun, Flushing
<1>2. /\ UNCHANGED <<mOutBuffer, mOutIndex, offered, given, bypassed>>
      /\ wire' = wire /\ closed' = closed /\ Buffered' = Buffered
      /\ todo' = <<>> /\ sent' = 0 /\ resent' = (resent \/ sent > 0)
  BY DEF FlushFails, pipe, Buffered
<1>3. /\ todo' \in Seq(Part) /\ Ordered(todo', given, offered')
      /\ mOutBuffer' \in Bytestring /\ mOutIndex' \in 0 .. Len(mOutBuffer')
      /\ offered' \in Nat /\ resent' \in BOOLEAN
  BY <1>1, <1>2, OrderedNone DEF OutTypeOK
<1>4. resent \/ sent # sent' => resent'
  <2>1. sent # sent' => sent > 0
    BY <1>1, <1>2
  <2>2. resent' <=> resent \/ sent > 0
    BY <1>2, Zenon
  <2> QED  BY <2>1, <2>2, Zenon
<1> QED  BY <1>1, <1>2, <1>3, <1>4, OnlyTodo

LEMMA WriteRawFailsInv == ASSUME PipeTypeOK, OutInv, WriteRawFails PROVE OutInv'
<1>1. OutTypeOK /\ Ordered(todo, given, offered) /\ sent = 0 /\ todo # <<>> /\ ~closed
  BY DEF OutInv, OutTypeOK, WriteRawFails, Begun, Flushing
<1>2. /\ UNCHANGED <<mOutBuffer, mOutIndex, sent, offered, given, resent, bypassed>>
      /\ wire' = wire /\ closed' = closed /\ Buffered' = Buffered
      /\ todo' = <<>>
  BY DEF WriteRawFails, pipe, Buffered
<1>3. /\ todo' \in Seq(Part) /\ Ordered(todo', given, offered')
      /\ mOutBuffer' \in Bytestring /\ mOutIndex' \in 0 .. Len(mOutBuffer')
      /\ offered' \in Nat /\ resent' \in BOOLEAN
  BY <1>1, <1>2, OrderedNone DEF OutTypeOK
<1> QED  BY <1>1, <1>2, <1>3, OnlyTodo

LEMMA CloseInv == ASSUME PipeTypeOK, OutInv, close PROVE OutInv'
<1>1. OutTypeOK /\ Ordered(todo, given, offered) /\ sent = 0 /\ todo = <<>>
  BY DEF OutInv, OutTypeOK, close, Begun, Flushing
<1>2. /\ UNCHANGED <<mOutBuffer, mOutIndex, todo, sent, offered, given, resent, bypassed>>
      /\ wire' = wire /\ Buffered' = Buffered
  BY DEF close, out, Buffered
<1>3. /\ todo' \in Seq(Part) /\ Ordered(todo', given, offered')
      /\ mOutBuffer' \in Bytestring /\ mOutIndex' \in 0 .. Len(mOutBuffer')
      /\ offered' \in Nat /\ resent' \in BOOLEAN
  BY <1>1, <1>2 DEF OutTypeOK
<1> QED  BY <1>1, <1>2, <1>3, OnlyTodo

LEMMA FlushSomeInv == ASSUME PipeTypeOK, OutInv, FlushSome PROVE OutInv' /\ wire' \in Bytestring
<1>1. /\ OutTypeOK /\ todo # <<>> /\ Head(todo).do = "flush" /\ todo \in Seq(Part)
      /\ Ordered(todo, given, offered) /\ offered \in Nat /\ given \in Bytestring
      /\ Bytes \in Bytestring /\ ~closed /\ wire \in Bytestring /\ taken \in 0 .. Len(wire)
      /\ sent \in Nat /\ mOutIndex \in Nat /\ sent <= mOutIndex
  BY HeadIs DEF FlushSome, Begun, OutInv, OutTypeOK, Flushing, PipeTypeOK
<1>2. /\ Buffered \in Bytestring /\ Len(Buffered) = mOutIndex
  BY <1>1, BufferedIs
<1>3. PICK n \in WriteSizes(mOutIndex - sent) :
        /\ wire' = wire \o SubSeq(Unsent, 1, n)
        /\ IF sent + n = mOutIndex
           THEN mOutIndex' = 0 /\ sent' = 0 /\ todo' = Tail(todo)
           ELSE sent' = sent + n /\ UNCHANGED <<mOutIndex, todo>>
  BY DEF FlushSome
<1>4. PICK c \in Nat : c = sent + n /\ n \in Nat /\ sent <= c /\ c <= mOutIndex
  <2>1. n \in Nat /\ n <= mOutIndex - sent
    BY <1>1, Positions DEF WriteSizes, AtMost
  <2>2. sent + n \in Nat /\ sent <= sent + n /\ sent + n <= mOutIndex
    BY <1>1, <2>1
  <2> QED  BY <2>1, <2>2
<1>5. wire' = wire \o SubSeq(Buffered, sent + 1, c)
  BY <1>1, <1>3, <1>4, UnsentFront
<1>6. /\ KeptAll(wire, Buffered, sent, given)
      /\ ~bypassed /\ ~resent => Exact(wire, Buffered, sent, given)
      /\ ~bypassed => InTurn(wire \o Buffered, given)
  BY DEF OutInv
<1>7. KeptAll(wire', Buffered, c, given) /\ wire' \in Bytestring
  BY <1>1, <1>2, <1>4, <1>5, <1>6, WrittenKept, Piece, Joined
<1>8. ~bypassed /\ ~resent => Exact(wire', Buffered, c, given)
  BY <1>1, <1>2, <1>4, <1>5, <1>6, WrittenExact
<1>9. ~bypassed => InTurn(wire' \o Buffered, given)
  BY <1>1, <1>2, <1>4, <1>5, <1>6, WrittenTurn
<1>10. UNCHANGED <<mOutBuffer, offered, given, resent, bypassed, closed>>
  BY DEF FlushSome
<1>11. CASE c # mOutIndex
  <2>1. sent' = c /\ UNCHANGED <<mOutIndex, todo>> /\ Buffered' = Buffered
    BY <1>3, <1>4, <1>10, <1>11 DEF Buffered
  <2>2. OutTypeOK'
    BY <1>1, <1>4, <1>10, <2>1 DEF OutTypeOK
  <2>3. Flushing' /\ Ordered(todo', given', offered')
    BY <1>1, <1>10, <2>1 DEF Flushing, Begun
  <2>4. /\ KeptAll(wire', Buffered', sent', given')
        /\ ~bypassed' /\ ~resent' => Exact(wire', Buffered', sent', given')
        /\ ~bypassed' => InTurn((wire \o Buffered)', given')
    BY <1>7, <1>8, <1>9, <1>10, <2>1
  <2> QED  BY <1>7, <2>2, <2>3, <2>4 DEF OutInv
<1>12. CASE c = mOutIndex
  <2>1. sent' = 0 /\ mOutIndex' = 0 /\ todo' = Tail(todo)
    BY <1>3, <1>4, <1>12
  <2>2. Buffered' = <<>>
    BY <1>10, <2>1, SubSeqEmpty DEF Buffered
  <2>3. todo' \in Seq(Part) /\ Ordered(todo', given', offered')
    <3>1. <<>> \o Bytes = Bytes /\ given \o <<>> = given /\ <<>> \in Bytestring
      BY <1>1, NoBytes
    <3>2. Tail(todo) \in Seq(Part) /\ Ordered(Tail(todo), given \o <<>>, offered)
      BY <1>1, <3>1, OrderedTaken DEF Bytes
    <3> QED  BY <1>10, <2>1, <3>1, <3>2
  <2>4. OutTypeOK'
    BY <1>1, <1>10, <2>1, <2>3, Positions DEF OutTypeOK
  <2>5. Flushing'
    BY <1>1, <1>10, <2>1 DEF Flushing
  <2>6. /\ KeptAll(wire', <<>>, 0, given)
        /\ ~bypassed /\ ~resent => Exact(wire', <<>>, 0, given)
        /\ ~bypassed => InTurn(wire' \o <<>>, given)
    BY <1>1, <1>2, <1>7, <1>8, <1>9, <1>12, WrittenWhole
  <2>7. /\ KeptAll(wire', Buffered', sent', given')
        /\ ~bypassed' /\ ~resent' => Exact(wire', Buffered', sent', given')
        /\ ~bypassed' => InTurn((wire \o Buffered)', given')
    BY <1>10, <2>1, <2>2, <2>6
  <2> QED  BY <1>7, <2>3, <2>4, <2>5, <2>7 DEF OutInv
<1> QED  BY <1>11, <1>12

LEMMA WriteRawInv == ASSUME PipeTypeOK, OutInv, WriteRaw PROVE OutInv' /\ wire' \in Bytestring
<1>1. /\ OutTypeOK /\ todo # <<>> /\ Head(todo).do = "raw" /\ todo \in Seq(Part)
      /\ Ordered(todo, given, offered) /\ offered \in Nat /\ given \in Bytestring
      /\ Bytes \in Bytestring /\ Len(Bytes) \in Nat
      /\ ~closed /\ wire \in Bytestring /\ taken \in 0 .. Len(wire)
      /\ sent = 0 /\ mOutIndex \in Nat
  BY HeadIs DEF WriteRaw, Begun, OutInv, OutTypeOK, Flushing, PipeTypeOK
<1>2. /\ Buffered \in Bytestring /\ Len(Buffered) = mOutIndex
  BY <1>1, BufferedIs
<1>3. PICK n \in WriteSizes(Len(Bytes)) :
        /\ wire' = wire \o SubSeq(Bytes, 1, n)
        /\ given' = given \o SubSeq(Bytes, 1, n)
  BY DEF WriteRaw
<1>4. n \in Nat /\ n <= Len(Bytes)
  BY <1>1, Positions DEF WriteSizes, AtMost
<1> DEFINE u == SubSeq(Bytes, 1, n)
<1>5. /\ u \in Bytestring /\ SubSeq(Bytes, n + 1, Len(Bytes)) \in Bytestring
      /\ u \o SubSeq(Bytes, n + 1, Len(Bytes)) = Bytes
  BY <1>1, <1>4, Split
<1>6. Tail(todo) \in Seq(Part) /\ Ordered(Tail(todo), given \o u, offered)
  BY <1>1, <1>5, OrderedTaken DEF Bytes
<1> HIDE DEF u
<1>7. wire' = wire \o u /\ given' = given \o u /\ wire' \in Bytestring /\ given' \in Bytestring
  BY <1>1, <1>3, <1>5, Joined DEF u
<1>8. /\ UNCHANGED <<mOutBuffer, mOutIndex, sent, offered, resent, closed>>
      /\ todo' = Tail(todo) /\ bypassed' = (bypassed \/ mOutIndex > 0) /\ Buffered' = Buffered
  BY DEF WriteRaw, Buffered
<1>9. OutTypeOK' /\ Flushing' /\ Ordered(todo', given', offered')
  BY <1>1, <1>6, <1>7, <1>8 DEF OutTypeOK, Flushing
<1>10. Rising(given \o u)
  BY <1>6 DEF Ordered
<1>11. /\ KeptAll(wire, Buffered, 0, given)
       /\ ~bypassed /\ ~resent => Exact(wire, Buffered, 0, given)
       /\ ~bypassed => InTurn(wire \o Buffered, given)
  BY <1>1 DEF OutInv
<1>12. /\ KeptAll(wire \o u, Buffered, 0, given \o u)
       /\ Buffered = <<>> /\ Exact(wire, Buffered, 0, given)
            => Exact(wire \o u, Buffered, 0, given \o u)
       /\ Buffered = <<>> /\ InTurn(wire \o Buffered, given)
            => InTurn((wire \o u) \o Buffered, given \o u)
  BY <1>1, <1>2, <1>5, <1>10, <1>11, RawKept
<1>13. ~bypassed' => ~bypassed /\ Buffered = <<>>
  <2>1. mOutIndex = 0 => Buffered = <<>>
    BY <1>1, SubSeqEmpty DEF Buffered
  <2>2. ~bypassed' => ~bypassed /\ ~(mOutIndex > 0)
    BY <1>8, Zenon
  <2> QED  BY <1>1, <2>1, <2>2
<1>14. /\ KeptAll(wire', Buffered', sent', given')
       /\ ~bypassed' /\ ~resent' => Exact(wire', Buffered', sent', given')
       /\ ~bypassed' => InTurn((wire \o Buffered)', given')
  BY <1>1, <1>7, <1>8, <1>11, <1>12, <1>13
<1> QED  BY <1>7, <1>9, <1>14 DEF OutInv

\* The pipe takes more bytes in and hands none out, nothing more when closed.
WireGrows ==
    /\ taken' = taken
    /\ \E u \in Bytestring : wire' = wire \o u
    /\ closed => closed' /\ wire' = wire

LEMMA PipeGrows ==
    ASSUME PipeTypeOK, UNCHANGED <<wire, taken>>, closed' \in BOOLEAN, closed => closed'
    PROVE  PipeTypeOK' /\ WireGrows
<1>1. wire \o <<>> = wire /\ <<>> \in Bytestring
  BY NoBytes DEF PipeTypeOK
<1> QED  BY <1>1 DEF PipeTypeOK, WireGrows

LEMMA WireWritten ==
    ASSUME PipeTypeOK, NEW u \in Bytestring, wire' = wire \o u,
           UNCHANGED <<taken, closed>>, ~closed
    PROVE  PipeTypeOK' /\ WireGrows
<1>1. wire' \in Bytestring /\ Len(wire') = Len(wire) + Len(u) /\ Len(u) \in Nat
      /\ Len(wire) \in Nat
  BY Joined, Positions DEF PipeTypeOK
<1>2. taken' \in 0 .. Len(wire') /\ closed' \in BOOLEAN
  BY <1>1 DEF PipeTypeOK
<1>3. \E v \in Bytestring : wire' = wire \o v
  OBVIOUS
<1>4. closed => closed' /\ wire' = wire
  OBVIOUS
<1> QED  BY <1>1, <1>2, <1>3, <1>4, Zenon DEF PipeTypeOK, WireGrows

LEMMA WriterStep ==
    ASSUME PipeTypeOK, OutInv, Writer PROVE PipeTypeOK' /\ OutInv' /\ WireGrows
<1>1. ASSUME UNCHANGED pipe PROVE PipeTypeOK' /\ WireGrows
  <2>1. wire' = wire /\ taken' = taken /\ closed' = closed
    BY <1>1 DEF pipe
  <2>2. closed' \in BOOLEAN /\ (closed => closed')
    BY <2>1 DEF PipeTypeOK
  <2> QED  BY <2>1, <2>2, PipeGrows
<1>2. ASSUME NEW n \in 1 .. Size + 1, Calls(n) PROVE OutInv' /\ UNCHANGED pipe
  <2>1. OutTypeOK /\ Ordered(todo, given, offered)
    BY DEF OutInv
  <2>2. Started
    BY <1>2, <2>1, CallStarts
  <2> QED  BY <2>2, StartedInv DEF Started
<1>3. CASE putchar \/ flush
  <2>1. 1 \in 1 .. Size + 1
    OBVIOUS
  <2> QED  BY <1>1, <1>2, <1>3, <2>1 DEF Calls
<1>4. CASE \E n \in 1 .. Size + 1 :
              putspan(n) \/ putchunk(n) \/ putline(n) \/ trywrite(n) \/ write(n)
  BY <1>1, <1>2, <1>4 DEF Calls
<1>5. CASE close
  BY <1>5, CloseInv, PipeGrows DEF close, PipeTypeOK
<1>6. CASE StoreChar
  BY <1>1, <1>6, StoreCharInv DEF StoreChar
<1>7. CASE StoreSpan
  BY <1>1, <1>7, StoreSpanInv DEF StoreSpan
<1>8. CASE StoreSome
  BY <1>1, <1>8, StoreSomeInv DEF StoreSome
<1>9. CASE FlushNothing
  BY <1>1, <1>9, FlushNothingInv DEF FlushNothing
<1>10. CASE FlushFails
  BY <1>1, <1>10, FlushFailsInv DEF FlushFails
<1>11. CASE WriteRawFails
  BY <1>1, <1>11, WriteRawFailsInv DEF WriteRawFails
<1>12. CASE FlushSome
  <2>1. OutTypeOK /\ ~closed
    BY <1>12 DEF OutInv, Flushing, FlushSome, Begun
  <2>2. PICK n \in WriteSizes(mOutIndex - sent) : wire' = wire \o SubSeq(Unsent, 1, n)
    BY <1>12 DEF FlushSome
  <2>3. /\ n \in Nat /\ n <= mOutIndex - sent /\ mOutIndex \in Nat /\ sent \in Nat
        /\ sent <= mOutIndex
    BY <2>1, Positions DEF WriteSizes, AtMost, PipeTypeOK, OutTypeOK
  <2>4. Unsent \in Bytestring /\ Len(Unsent) = mOutIndex - sent
    <3>1. mOutBuffer \in Bytestring /\ mOutIndex <= Len(mOutBuffer)
      BY <2>1, Positions DEF OutTypeOK
    <3> QED  BY <2>3, <3>1, Piece DEF Unsent
  <2>5. SubSeq(Unsent, 1, n) \in Bytestring
    BY <2>3, <2>4, Front
  <2> QED  BY <1>12, <2>1, <2>2, <2>5, WireWritten, FlushSomeInv DEF FlushSome
<1>13. CASE WriteRaw
  <2>1. OutTypeOK /\ ~closed /\ todo # <<>>
    BY <1>13 DEF OutInv, Flushing, WriteRaw, Begun
  <2>2. PICK n \in WriteSizes(Len(Bytes)) : wire' = wire \o SubSeq(Bytes, 1, n)
    BY <1>13 DEF WriteRaw
  <2>3. Bytes \in Bytestring /\ Len(Bytes) \in Nat
    BY <2>1, HeadIs
  <2>4. n \in Nat /\ n <= Len(Bytes)
    BY <2>3, Positions DEF WriteSizes, AtMost, PipeTypeOK
  <2>5. SubSeq(Bytes, 1, n) \in Bytestring
    BY <2>3, <2>4, Front
  <2> QED  BY <1>13, <2>1, <2>2, <2>5, WireWritten, WriteRawInv DEF WriteRaw
<1> QED  BY <1>3, <1>4, <1>5, <1>6, <1>7, <1>8, <1>9, <1>10, <1>11, <1>12, <1>13
         DEF Writer

-----------------------------------------------------------------------------
(* What the reader has received.                                            *)
LEMMA InputIs ==
    ASSUME InTypeOK
    PROVE  /\ mInBuffer \in Bytestring /\ Len(mInBuffer) \in Nat
           /\ mInIndex \in Nat /\ mInEnd \in Nat /\ mInIndex <= mInEnd
           /\ mInEnd <= Len(mInBuffer)
           /\ Has \in Nat /\ Unread \in Bytestring /\ Len(Unread) = Has
           /\ \A i \in 1 .. Has : Unread[i] = mInBuffer[mInIndex + i]
           /\ got \in Bytestring /\ Len(got) \in Nat
           /\ call.from \in Nat /\ call.from <= Len(got) /\ Used \in Nat
           /\ Consumed \in Bytestring /\ Len(Consumed) = Used
           /\ Received \in Bytestring /\ Len(Received) = Len(got) + Has
           /\ bufempty <=> Has = 0
<1>1. /\ mInBuffer \in Bytestring /\ Len(mInBuffer) \in Nat
      /\ mInIndex \in Nat /\ mInEnd \in Nat /\ mInIndex <= mInEnd
      /\ mInEnd <= Len(mInBuffer) /\ Has \in Nat /\ (bufempty <=> Has = 0)
  BY Positions DEF InTypeOK, Has, bufempty
<1>2. /\ Unread \in Bytestring /\ Len(Unread) = Has
      /\ \A i \in 1 .. Has : Unread[i] = mInBuffer[mInIndex + i]
  BY <1>1, Piece DEF Unread, Has
<1>3. /\ got \in Bytestring /\ Len(got) \in Nat
      /\ call.from \in Nat /\ call.from <= Len(got) /\ Used \in Nat
  BY Positions DEF InTypeOK, CallRecord, Used
<1>4. Consumed \in Bytestring /\ Len(Consumed) = Used
  BY <1>3, Piece DEF Consumed, Used
<1>5. Received \in Bytestring /\ Len(Received) = Len(got) + Has
  BY <1>2, <1>3, Joined DEF Received
<1> QED  BY <1>1, <1>2, <1>3, <1>4, <1>5

\* The piece of a longer string is the piece and what was added.
LEMMA PieceGrows ==
    ASSUME NEW s \in Bytestring, NEW u \in Bytestring, NEW a \in Nat, a <= Len(s)
    PROVE  /\ SubSeq(s \o u, a + 1, Len(s \o u)) = SubSeq(s, a + 1, Len(s)) \o u
           /\ Len(s \o u) - a = Len(s) - a + Len(u)
<1> DEFINE t == s \o u
           p == SubSeq(s, a + 1, Len(s))
<1>1. PICK n \in Nat, k \in Nat, m \in Nat : n = Len(s) /\ k = Len(u) /\ n = a + m
  <2>1. Len(s) \in Nat /\ Len(u) \in Nat /\ Len(s) - a \in Nat /\ Len(s) = a + (Len(s) - a)
    BY Positions
  <2> QED  BY <2>1
<1>2. PICK e \in Nat : e = n + k
  OBVIOUS
<1>3. t \in Bytestring /\ Len(t) = e
      /\ (\A i \in 1 .. n : t[i] = s[i]) /\ \A i \in 1 .. k : t[n + i] = u[i]
  <2>1. t \in Bytestring /\ Len(t) = Len(s) + Len(u)
        /\ (\A i \in 1 .. Len(s) : t[i] = s[i])
        /\ \A i \in 1 .. Len(u) : t[Len(s) + i] = u[i]
    BY Joined
  <2> HIDE DEF t
  <2> QED  BY <1>1, <1>2, <2>1
<1>4. p \in Bytestring /\ Len(p) = m /\ \A i \in 1 .. m : p[i] = s[a + i]
  <2>1. /\ p \in Bytestring /\ Len(p) = Len(s) - a
        /\ \A i \in 1 .. Len(s) - a : p[i] = s[a + i]
    <3>1. Len(s) \in Nat
      BY Positions
    <3> QED  BY <3>1, Piece
  <2>2. Len(s) - a = m
    BY <1>1
  <2> HIDE DEF p
  <2> QED  BY <2>1, <2>2
<1> HIDE DEF t, p
<1> DEFINE q == SubSeq(t, a + 1, Len(t))
           r == p \o u
<1>5. q \in Bytestring /\ Len(q) = m + k /\ \A i \in 1 .. m + k : q[i] = t[a + i]
  <2>1. a <= e /\ e - a = m + k
    BY <1>1, <1>2
  <2> QED  BY <1>3, <2>1, Piece
<1>6. /\ r \in Bytestring /\ Len(r) = m + k
      /\ (\A i \in 1 .. m : r[i] = p[i]) /\ \A i \in 1 .. k : r[m + i] = u[i]
  BY <1>1, <1>4, Joined
<1> HIDE DEF q, r
<1>7. ASSUME NEW i \in 1 .. m + k PROVE q[i] = r[i]
  <2>1. CASE i <= m
    <3>1. i \in 1 .. m /\ a + i \in 1 .. n
      BY <1>1, <2>1
    <3> QED  BY <1>3, <1>4, <1>5, <1>6, <3>1
  <2>2. CASE i > m
    <3>1. PICK j \in 1 .. k : i = m + j /\ a + i = n + j
      <4>1. i - m \in 1 .. k /\ i = m + (i - m) /\ a + i = n + (i - m)
        BY <1>1, <2>2
      <4> QED  BY <4>1
    <3> QED  BY <1>3, <1>5, <1>6, <3>1
  <2> QED  BY <1>1, <2>1, <2>2
<1>8. q = r
  BY <1>1, <1>5, <1>6, <1>7, SeqEqual DEF Bytestring
<1>9. Len(t) - a = Len(s) - a + Len(u)
  BY <1>1, <1>2, <1>3
<1> QED  BY <1>8, <1>9 DEF q, r, p, t

\* A call consumes u, the first of the unread bytes.
LEMMA Consumes ==
    ASSUME InTypeOK, NEW u \in Bytestring, Unread' \in Bytestring,
           Unread = u \o Unread', got' = got \o u, call'.from = call.from
    PROVE  /\ Received' = Received
           /\ got' \in Bytestring /\ Len(got') = Len(got) + Len(u) /\ call'.from <= Len(got')
           /\ Consumed' = Consumed \o u /\ Used' = Used + Len(u)
<1>1. got \in Bytestring /\ Len(got) \in Nat /\ call.from \in Nat /\ call.from <= Len(got)
  BY InputIs
<1>2. Received' = Received
  BY <1>1, Joins3 DEF Received
<1>3. got' \in Bytestring /\ Len(got') = Len(got) + Len(u) /\ Len(u) \in Nat
  BY <1>1, Joined, Positions
<1>4. /\ SubSeq(got \o u, call.from + 1, Len(got \o u))
           = SubSeq(got, call.from + 1, Len(got)) \o u
      /\ Len(got \o u) - call.from = Len(got) - call.from + Len(u)
  BY <1>1, PieceGrows
<1>5. Consumed' = Consumed \o u /\ Used' = Used + Len(u)
  BY <1>4 DEF Consumed, Used
<1> QED  BY <1>1, <1>2, <1>3, <1>5

\* Take(k, s): the first k of them, and the rest stays.
LEMMA TakeIs ==
    ASSUME InTypeOK, NEW k \in Nat, k <= Has, mInIndex' = mInIndex + k,
           UNCHANGED <<mInBuffer, mInEnd>>
    PROVE  /\ SubSeq(Unread, 1, k) \in Bytestring /\ Len(SubSeq(Unread, 1, k)) = k
           /\ Unread' \in Bytestring /\ Unread = SubSeq(Unread, 1, k) \o Unread'
           /\ mInIndex' \in 0 .. mInEnd' /\ Has' = Has - k
<1>1. /\ mInBuffer \in Bytestring /\ Len(mInBuffer) \in Nat
      /\ mInIndex \in Nat /\ mInEnd \in Nat /\ mInIndex <= mInEnd
      /\ mInEnd <= Len(mInBuffer) /\ Has \in Nat /\ Unread \in Bytestring
      /\ Len(Unread) = Has
  BY InputIs
<1>2. PICK c \in Nat : c = mInIndex + k /\ mInIndex <= c /\ c <= mInEnd
  <2>1. mInIndex + k \in Nat /\ mInIndex <= mInIndex + k /\ mInIndex + k <= mInEnd
    BY <1>1 DEF Has
  <2> QED  BY <2>1
<1>3. SubSeq(Unread, 1, k) \in Bytestring /\ Len(SubSeq(Unread, 1, k)) = k
  BY <1>1, Front
<1>4. SubSeq(Unread, 1, k) = SubSeq(mInBuffer, mInIndex + 1, c)
  BY <1>1, <1>2, FirstOfPiece DEF Unread
<1>5. Unread' = SubSeq(mInBuffer, c + 1, mInEnd)
  BY <1>2 DEF Unread
<1>6. Unread' \in Bytestring
  BY <1>1, <1>2, <1>5, Piece
<1>7. SubSeq(mInBuffer, mInIndex + 1, c) \o SubSeq(mInBuffer, c + 1, mInEnd)
        = SubSeq(mInBuffer, mInIndex + 1, mInEnd)
  BY <1>1, <1>2, SplitPiece
<1>8. Unread = SubSeq(Unread, 1, k) \o Unread'
  BY <1>4, <1>5, <1>7 DEF Unread
<1>9. mInIndex' \in 0 .. mInEnd' /\ Has' = Has - k
  BY <1>1, <1>2 DEF Has
<1> QED  BY <1>3, <1>6, <1>8, <1>9

LEMMA RefillIs ==
    ASSUME InTypeOK, mInIndex' = 0, mInEnd' = 0, mInBuffer' = mInBuffer
    PROVE  /\ Unread' = <<>> /\ Unread' \in Bytestring /\ Unread = Unread \o Unread'
           /\ mInIndex' \in 0 .. mInEnd' /\ mInEnd' \in 0 .. Len(mInBuffer')
           /\ Has' = 0 /\ bufempty'
<1>1. Unread \in Bytestring /\ Len(mInBuffer) \in Nat
  BY InputIs
<1>2. Unread' = <<>>
  BY SubSeqEmpty DEF Unread
<1>3. Unread \o <<>> = Unread /\ <<>> \in Bytestring
  BY <1>1, NoBytes
<1> QED  BY <1>1, <1>2, <1>3 DEF Has, bufempty

\* Nothing more is received.
LEMMA SameReceived ==
    ASSUME InInv, Received' = Received, UNCHANGED <<wire, taken, spoilt>>
    PROVE  Heard(wire, taken, Received)' /\ Tracks'
BY DEF InInv, Heard, Tracks

\* n bytes more arrive, behind what has been received, or when peekn spoils
\* the buffer, behind what has been consumed.
LEMMA MoreReceived ==
    ASSUME PipeTypeOK, InInv, NEW n \in 1 .. Len(wire) - taken,
           Received' = got \o Incoming(n), taken' = taken + n, wire' = wire,
           spoilt' = (spoilt \/ ~bufempty)
    PROVE  /\ taken' \in 0 .. Len(wire')
           /\ Heard(wire, taken, Received)' /\ Tracks'
           /\ Incoming(n) \in Bytestring /\ Len(Incoming(n)) = n
<1>1. /\ InTypeOK /\ Heard(wire, taken, Received) /\ Tracks
      /\ wire \in Bytestring /\ Len(wire) \in Nat /\ taken \in Nat /\ taken <= Len(wire)
      /\ spoilt \in BOOLEAN
  BY Positions DEF InInv, PipeTypeOK, InTypeOK
<1>2. PICK e \in Nat : e = taken + n /\ taken <= e /\ e <= Len(wire) /\ n \in Nat
  <2>1. taken + n \in Nat /\ taken <= taken + n /\ taken + n <= Len(wire) /\ n \in Nat
    BY <1>1
  <2> QED  BY <2>1
<1> DEFINE u == SubSeq(wire, taken + 1, e)
<1>3. Incoming(n) = u
  BY <1>2 DEF Incoming
<1>4. u \in Bytestring /\ Len(u) = n /\ \A i \in 1 .. n : u[i] = wire[taken + i]
  <2>1. u \in Bytestring /\ Len(u) = e - taken /\ \A i \in 1 .. e - taken : u[i] = wire[taken + i]
    BY <1>1, <1>2, Piece
  <2>2. e - taken = n
    BY <1>1, <1>2
  <2> QED  BY <2>1, <2>2
<1> HIDE DEF u
<1>5. /\ got \in Bytestring /\ Len(got) \in Nat /\ Unread \in Bytestring
      /\ Received \in Bytestring /\ DOMAIN got = 1 .. Len(got)
  BY <1>1, InputIs, Positions
<1>6. \A i \in DOMAIN got : i \in DOMAIN Received /\ got[i] = Received[i]
  <2>1. \A i \in 1 .. Len(got) : (got \o Unread)[i] = got[i]
    BY <1>5, Joined
  <2>2. Len(got \o Unread) = Len(got) + Len(Unread) /\ Len(Unread) \in Nat
    BY <1>5, Joined, Positions
  <2>3. DOMAIN Received = 1 .. Len(got) + Len(Unread)
    BY <1>5, <2>2, Positions DEF Received
  <2> QED  BY <1>5, <2>1, <2>2, <2>3 DEF Received
<1>7. \A i \in DOMAIN got : \E j \in 1 .. taken : got[i] = wire[j]
  BY <1>1, <1>6 DEF Heard
<1>8. DOMAIN u = 1 .. n /\ DOMAIN wire = 1 .. Len(wire)
  BY <1>1, <1>4, Positions
<1>9. ASSUME Rising(wire) PROVE Rising(got \o u)
  <2>1. Rising(got)
    <3>1. Rising(Received)
      BY <1>1, <1>9 DEF Heard
    <3> QED  BY <1>6, <3>1 DEF Rising
  <2>2. Rising(u)
    <3>1. \A i \in 1 .. n : taken + i \in DOMAIN wire
      BY <1>1, <1>2, <1>8
    <3>2. \A i, j \in 1 .. n : i < j => taken + i < taken + j
      BY <1>1
    <3> QED  BY <1>4, <1>8, <1>9, <3>1, <3>2 DEF Rising
  <2>3. Below(got, u)
    <3> SUFFICES ASSUME NEW i \in DOMAIN got, NEW j \in DOMAIN u PROVE got[i] < u[j]
      BY DEF Below
    <3>1. PICK k \in 1 .. taken : got[i] = wire[k]
      BY <1>7
    <3>2. k < taken + j /\ k \in DOMAIN wire /\ taken + j \in DOMAIN wire
      BY <1>1, <1>2, <1>8
    <3> QED  BY <1>4, <1>8, <1>9, <3>1, <3>2 DEF Rising
  <2> QED  BY <1>4, <1>5, <2>1, <2>2, <2>3, RisingJoined
<1>10. \A i \in DOMAIN (got \o u) : \E j \in 1 .. e : (got \o u)[i] = wire[j]
  <2> SUFFICES ASSUME NEW i \in DOMAIN (got \o u)
               PROVE  \E j \in 1 .. e : (got \o u)[i] = wire[j]
    OBVIOUS
  <2>1. i \in 1 .. Len(got) + Len(u)
    BY <1>4, <1>5, Joined, Positions
  <2>2. \/ i \in 1 .. Len(got) /\ (got \o u)[i] = got[i]
        \/ i - Len(got) \in 1 .. Len(u) /\ (got \o u)[i] = u[i - Len(got)]
    BY <1>4, <1>5, <2>1, WhichPart
  <2>3. CASE i \in 1 .. Len(got) /\ (got \o u)[i] = got[i]
    <3>1. PICK j \in 1 .. taken : got[i] = wire[j]
      BY <1>5, <1>7, <2>3
    <3>2. j \in 1 .. e
      BY <1>1, <1>2
    <3> QED  BY <2>3, <3>1, <3>2
  <2>4. CASE i - Len(got) \in 1 .. Len(u) /\ (got \o u)[i] = u[i - Len(got)]
    <3>1. taken + (i - Len(got)) \in 1 .. e /\ u[i - Len(got)] = wire[taken + (i - Len(got))]
      BY <1>1, <1>2, <1>4, <2>4
    <3> QED  BY <2>4, <3>1
  <2> QED  BY <2>2, <2>3, <2>4
<1>11. Heard(wire, taken, Received)'
  <2>1. Received' = got \o u /\ taken' = e
    BY <1>2, <1>3
  <2> QED  BY <1>9, <1>10, <2>1 DEF Heard
<1>12. ASSUME ~spoilt' PROVE SubSeq(wire', 1, taken') = Received'
  <2>1. ~spoilt /\ bufempty
    BY <1>12, Zenon
  <2>2. SubSeq(wire, 1, taken) = Received
    BY <1>1, <2>1 DEF Tracks
  <2>3. Received = got
    <3>1. Unread = <<>>
      BY <1>1, <2>1, InputIs, SubSeqEmpty DEF Unread, bufempty
    <3> QED  BY <1>5, <3>1, NoBytes DEF Received
  <2>4. SubSeq(wire, 1, taken) \o SubSeq(wire, taken + 1, e) = SubSeq(wire, 1, e)
    <3>1. 1 \in 1 .. Len(wire) + 1 /\ taken \in 1 - 1 .. Len(wire) /\ e \in taken .. Len(wire)
      BY <1>1, <1>2
    <3> QED  BY <1>1, <3>1, ConcatAdjacentSubSeq DEF Bytestring
  <2>5. got \o u = SubSeq(wire, 1, e)
    BY <2>2, <2>3, <2>4 DEF u
  <2> QED  BY <1>2, <1>3, <2>5
<1>13. taken' \in 0 .. Len(wire')
  BY <1>1, <1>2
<1> QED  BY <1>3, <1>4, <1>11, <1>12, <1>13 DEF Tracks

(* A step of a call, seen from its record.                                  *)
CallGoes(s, n, p, a) ==
    /\ call' \in CallRecord /\ call'.op = call.op /\ call'.eol = call.eol
    /\ call'.from = call.from /\ call'.want = call.want
    /\ call'.s = s /\ call'.n = n /\ call'.p = p /\ call'.at = a

LEMMA CallIs ==
    ASSUME InTypeOK
    PROVE  /\ call.op \in Op /\ call.n \in Nat /\ call.p \in Nat /\ call.s \in Bytestring
           /\ call.from \in Nat /\ call.want \in Nat /\ call.eol \in Seq(STRING)
           /\ call.at \in {"buffer", "raw", "returned", "failed"}
BY DEF InTypeOK, CallRecord

LEMMA CallAt ==
    ASSUME InTypeOK, NEW a \in {"buffer", "raw", "returned", "failed"},
           call' = [call EXCEPT !.at = a]
    PROVE  CallGoes(call.s, call.n, call.p, a)
BY DEF InTypeOK, CallRecord, CallGoes

\* Steps that move the front of what has been received from the buffer to the
\* caller: k bytes, all of them, or none.
LEMMA StepTakes ==
    ASSUME PipeTypeOK, InInv, NEW k \in Nat, k <= Has, mInIndex' = mInIndex + k,
           got' = got \o SubSeq(Unread, 1, k), call' \in CallRecord,
           call'.from = call.from, UNCHANGED <<mInBuffer, mInEnd, spoilt, pipe>>
    PROVE  /\ PipeTypeOK' /\ InTypeOK' /\ Heard(wire, taken, Received)' /\ Tracks'
           /\ SubSeq(Unread, 1, k) \in Bytestring /\ Len(SubSeq(Unread, 1, k)) = k
           /\ Received' = Received /\ Used' = Used + k /\ Has' = Has - k
           /\ Consumed' = Consumed \o SubSeq(Unread, 1, k)
           /\ AtEof' <=> AtEof
<1>1. InTypeOK /\ wire' = wire /\ taken' = taken /\ closed' = closed
  BY DEF InInv, pipe
<1>2. /\ SubSeq(Unread, 1, k) \in Bytestring /\ Len(SubSeq(Unread, 1, k)) = k
      /\ Unread' \in Bytestring /\ Unread = SubSeq(Unread, 1, k) \o Unread'
      /\ mInIndex' \in 0 .. mInEnd' /\ Has' = Has - k
  BY <1>1, TakeIs
<1> DEFINE u == SubSeq(Unread, 1, k)
<1> HIDE DEF u
<1>3. /\ u \in Bytestring /\ Unread = u \o Unread' /\ got' = got \o u /\ Len(u) = k
  BY <1>2 DEF u
<1>4. /\ Received' = Received
      /\ got' \in Bytestring /\ Len(got') = Len(got) + Len(u) /\ call'.from <= Len(got')
      /\ Consumed' = Consumed \o u /\ Used' = Used + Len(u)
  BY <1>1, <1>2, <1>3, Consumes
<1>5. PipeTypeOK' /\ (AtEof' <=> AtEof)
  BY <1>1 DEF PipeTypeOK, AtEof
<1>6. InTypeOK'
  BY <1>1, <1>2, <1>4 DEF InTypeOK
<1>7. Heard(wire, taken, Received)' /\ Tracks'
  BY <1>1, <1>4, SameReceived
<1> QED  BY <1>2, <1>3, <1>4, <1>5, <1>6, <1>7 DEF u

LEMMA StepEmpties ==
    ASSUME PipeTypeOK, InInv, mInIndex' = 0, mInEnd' = 0, got' = got \o Unread,
           call' \in CallRecord, call'.from = call.from,
           UNCHANGED <<mInBuffer, spoilt, pipe>>
    PROVE  /\ PipeTypeOK' /\ InTypeOK' /\ Heard(wire, taken, Received)' /\ Tracks'
           /\ Unread' = <<>> /\ Has' = 0 /\ bufempty'
           /\ Received' = Received /\ Used' = Used + Has /\ Consumed' = Consumed \o Unread
<1>1. InTypeOK /\ wire' = wire /\ taken' = taken /\ closed' = closed
      /\ Unread \in Bytestring /\ Len(Unread) = Has
  BY InputIs DEF InInv, pipe
<1>2. /\ Unread' = <<>> /\ Unread' \in Bytestring /\ Unread = Unread \o Unread'
      /\ mInIndex' \in 0 .. mInEnd' /\ mInEnd' \in 0 .. Len(mInBuffer')
      /\ Has' = 0 /\ bufempty'
  BY <1>1, RefillIs
<1>3. /\ Received' = Received
      /\ got' \in Bytestring /\ call'.from <= Len(got')
      /\ Consumed' = Consumed \o Unread /\ Used' = Used + Len(Unread)
  BY <1>1, <1>2, Consumes
<1>4. PipeTypeOK' /\ InTypeOK'
  BY <1>1, <1>2, <1>3 DEF PipeTypeOK, InTypeOK
<1>5. Heard(wire, taken, Received)' /\ Tracks'
  BY <1>1, <1>3, SameReceived
<1> QED  BY <1>1, <1>2, <1>3, <1>4, <1>5

LEMMA StepKeeps ==
    ASSUME PipeTypeOK, InInv, call' \in CallRecord, call'.from \in {call.from, Len(got)},
           UNCHANGED <<mInBuffer, mInIndex, mInEnd, got, spoilt, pipe>>
    PROVE  /\ PipeTypeOK' /\ InTypeOK' /\ Heard(wire, taken, Received)' /\ Tracks'
           /\ Unread' = Unread /\ Has' = Has /\ Received' = Received
           /\ (bufempty' <=> bufempty) /\ (AtEof' <=> AtEof)
           /\ Consumed' = SubSeq(got, call'.from + 1, Len(got)) /\ Used' = Len(got) - call'.from
<1>1. InTypeOK /\ wire' = wire /\ taken' = taken /\ closed' = closed /\ Len(got) \in Nat
  BY InputIs DEF InInv, pipe
<1>2. /\ Unread' = Unread /\ Has' = Has /\ Received' = Received
      /\ (bufempty' <=> bufempty) /\ (AtEof' <=> AtEof)
  BY <1>1 DEF Unread, Has, Received, bufempty, AtEof
<1>3. PipeTypeOK' /\ InTypeOK'
  BY <1>1 DEF PipeTypeOK, InTypeOK
<1>4. Heard(wire, taken, Received)' /\ Tracks'
  BY <1>1, <1>2, SameReceived
<1>5. Consumed' = SubSeq(got, call'.from + 1, Len(got)) /\ Used' = Len(got) - call'.from
  BY DEF Consumed, Used
<1> QED  BY <1>2, <1>3, <1>4, <1>5

LEMMA TakeStep ==
    ASSUME PipeTypeOK, InInv, NEW k \in Nat, k <= Has, NEW s \in Bytestring, Take(k, s)
    PROVE  /\ PipeTypeOK' /\ InTypeOK' /\ Heard(wire, taken, Received)' /\ Tracks'
           /\ CallGoes(call.s \o s, call.n, call.p, "returned") /\ RawWhenEmpty'
           /\ Used' = Used + k /\ Consumed' = Consumed \o SubSeq(Unread, 1, k)
           /\ Has' = Has - k
<1>1. InTypeOK /\ call.n \in Nat
  BY CallIs DEF InInv
<1>2. CallGoes(call.s \o s, call.n, call.p, "returned")
  <2>1. call' = [call EXCEPT !.s = @ \o s, !.at = "returned"]
    BY DEF Take
  <2>2. call.s \o s \in Bytestring
    BY <1>1, CallIs, Joined
  <2> QED  BY <1>1, <2>1, <2>2 DEF InTypeOK, CallRecord, CallGoes
<1>3. call' \in CallRecord /\ call'.from = call.from /\ call'.at = "returned"
  BY <1>2 DEF CallGoes
<1>4. /\ mInIndex' = mInIndex + k /\ got' = got \o SubSeq(Unread, 1, k)
      /\ UNCHANGED <<mInBuffer, mInEnd, spoilt, pipe>>
  BY DEF Take
<1>5. RawWhenEmpty'
  BY <1>3 DEF RawWhenEmpty
<1> QED  BY <1>2, <1>3, <1>4, <1>5, StepTakes

LEMMA RefillStep ==
    ASSUME PipeTypeOK, InInv, NEW s \in Bytestring, NEW n \in Nat, Refill(s, n)
    PROVE  /\ PipeTypeOK' /\ InTypeOK' /\ Heard(wire, taken, Received)' /\ Tracks'
           /\ CallGoes(call.s \o s, n, call.p, "raw") /\ RawWhenEmpty'
           /\ Used' = Used + Has /\ Consumed' = Consumed \o Unread
           /\ Unread' = <<>> /\ Has' = 0 /\ Received' = Received /\ got' = got \o Unread
<1>1. InTypeOK
  BY DEF InInv
<1>2. CallGoes(call.s \o s, n, call.p, "raw")
  <2>1. call' = [call EXCEPT !.s = @ \o s, !.n = n, !.at = "raw"]
    BY DEF Refill
  <2>2. call.s \o s \in Bytestring
    BY <1>1, CallIs, Joined
  <2> QED  BY <1>1, <2>1, <2>2 DEF InTypeOK, CallRecord, CallGoes
<1>3. call' \in CallRecord /\ call'.from = call.from
  BY <1>2 DEF CallGoes
<1>4. /\ mInIndex' = 0 /\ mInEnd' = 0 /\ got' = got \o Unread
      /\ UNCHANGED <<mInBuffer, spoilt, pipe>>
  BY DEF Refill
<1>5. /\ PipeTypeOK' /\ InTypeOK' /\ Heard(wire, taken, Received)' /\ Tracks'
      /\ Unread' = <<>> /\ Has' = 0 /\ bufempty'
      /\ Received' = Received /\ Used' = Used + Has /\ Consumed' = Consumed \o Unread
  BY <1>3, <1>4, StepEmpties
<1>6. RawWhenEmpty'
  BY <1>5 DEF RawWhenEmpty
<1> QED  BY <1>2, <1>4, <1>5, <1>6

\* Each operation is of one kind.
LEMMA OneKind ==
    /\ call'.op \notin {"getline", "dropline"} => Line'
    /\ call'.op \in {"getline", "dropline"} => Counts'
BY DEF Line, Counts, Copies

\* What the lemmas on the actions start from.
LEMMA Facts ==
    ASSUME PipeTypeOK, InInv
    PROVE  /\ InTypeOK /\ call.n \in Nat /\ call.want \in Nat /\ call.s \in Bytestring
           /\ Has \in Nat /\ Used \in Nat /\ Len(got) \in Nat
           /\ Unread \in Bytestring /\ Len(Unread) = Has /\ SubSeq(Unread, 1, Has) = Unread
           /\ Consumed \in Bytestring /\ Len(Consumed) = Used
           /\ <<>> \in Bytestring /\ SubSeq(Unread, 1, 0) = <<>>
           /\ \A s \in Bytestring : s \o <<>> = s /\ <<>> \o s = s
           /\ bufempty <=> Has = 0
           /\ Has = 0 => Unread = <<>>
           /\ Used = 0 <=> Consumed = <<>>
<1>1. InTypeOK
  BY DEF InInv
<1>2. /\ Has \in Nat /\ Used \in Nat /\ Len(got) \in Nat
      /\ Unread \in Bytestring /\ Len(Unread) = Has
      /\ Consumed \in Bytestring /\ Len(Consumed) = Used
      /\ bufempty <=> Has = 0
  BY <1>1, InputIs
<1>3. call.n \in Nat /\ call.want \in Nat /\ call.s \in Bytestring
  BY <1>1, CallIs
<1>4. SubSeq(Unread, 1, Has) = Unread
  BY <1>2, SubSeqFull DEF Bytestring
<1>5. SubSeq(Unread, 1, 0) = <<>>
  BY SubSeqEmpty
<1>6. <<>> \in Bytestring /\ \A s \in Bytestring : s \o <<>> = s /\ <<>> \o s = s
  <2>1. <<>> \in Bytestring
    BY DEF Bytestring
  <2> QED  BY <2>1, NoBytes
<1>7. (Has = 0 => Unread = <<>>) /\ (Used = 0 <=> Consumed = <<>>)
  BY <1>2, EmptySeq DEF Bytestring
<1> QED  BY <1>1, <1>2, <1>3, <1>4, <1>5, <1>6, <1>7

LEMMA GetSomeInv ==
    ASSUME PipeTypeOK, InInv, GetSome PROVE PipeTypeOK' /\ InInv'
<1>1. call.op \in {"getchar", "peekchar", "getchunk"} /\ call.at = "buffer" /\ Counts
  BY DEF GetSome, Serving, InInv
<1>2. /\ call.s \in Bytestring /\ call.n \in Nat /\ Has \in Nat /\ Used \in Nat
      /\ Unread \in Bytestring /\ Len(Unread) = Has /\ SubSeq(Unread, 1, Has) = Unread
      /\ Consumed \in Bytestring
      /\ <<>> \in Bytestring /\ SubSeq(Unread, 1, 0) = <<>>
      /\ (\A s \in Bytestring : s \o <<>> = s /\ <<>> \o s = s)
      /\ (bufempty <=> Has = 0) /\ (Has = 0 => Unread = <<>>)
  BY Facts
<1>3. /\ call.op \in {"getchar", "getchunk"} => call.s = Consumed
      /\ call.op = "getchar" => Used = 0
      /\ call.op = "peekchar" => Used = 0 /\ call.s = <<>>
  BY <1>1 DEF Counts, Copies, Answered
<1>4. CASE bufempty
  <2>1. Refill(<<>>, call.n)
    BY <1>4 DEF GetSome
  <2>2. /\ PipeTypeOK' /\ InTypeOK' /\ Heard(wire, taken, Received)' /\ Tracks'
        /\ CallGoes(call.s \o <<>>, call.n, call.p, "raw") /\ RawWhenEmpty'
        /\ Used' = Used + Has /\ Consumed' = Consumed \o Unread
    BY <1>2, <2>1, RefillStep
  <2>3. call'.s = call.s /\ call'.op = call.op /\ call'.at = "raw"
    BY <1>2, <2>2 DEF CallGoes
  <2>4. Used' = Used /\ Consumed' = Consumed
    <3>1. Used' = Used
      BY <1>2, <1>4, <2>2
    <3>2. Unread = <<>> /\ Consumed \o <<>> = Consumed
      BY <1>2, <1>4
    <3> QED  BY <2>2, <3>1, <3>2
  <2>5. Counts' /\ Line'
    BY <1>1, <1>3, <2>3, <2>4 DEF Counts, Copies, Answered, Line
  <2> QED  BY <2>2, <2>5 DEF InInv
<1>5. CASE ~bufempty /\ call.op = "getchar"
  <2>1. Take(1, SubSeq(Unread, 1, 1)) /\ 1 <= Has
    BY <1>1, <1>2, <1>5 DEF GetSome
  <2>2. SubSeq(Unread, 1, 1) \in Bytestring
    BY <1>2, <2>1, Front
  <2>3. /\ PipeTypeOK' /\ InTypeOK' /\ Heard(wire, taken, Received)' /\ Tracks'
        /\ CallGoes(call.s \o SubSeq(Unread, 1, 1), call.n, call.p, "returned") /\ RawWhenEmpty'
        /\ Used' = Used + 1 /\ Consumed' = Consumed \o SubSeq(Unread, 1, 1)
    BY <2>1, <2>2, TakeStep
  <2>4. call'.s = Consumed' /\ call'.op = "getchar" /\ call'.at = "returned" /\ Used' = 1
    <3>1. call.s = Consumed /\ Used = 0
      BY <1>3, <1>5
    <3>2. Used' = 1
      BY <2>3, <3>1
    <3>3. call'.s = call.s \o SubSeq(Unread, 1, 1) /\ call'.op = "getchar" /\ call'.at = "returned"
      BY <1>5, <2>3 DEF CallGoes
    <3> QED  BY <2>3, <3>1, <3>2, <3>3
  <2>5. Counts' /\ Line'
    BY <2>4 DEF Counts, Copies, Answered, Line
  <2> QED  BY <2>3, <2>5 DEF InInv
<1>6. CASE ~bufempty /\ call.op = "peekchar"
  <2>1. Take(0, SubSeq(Unread, 1, 1)) /\ 1 <= Has
    BY <1>1, <1>2, <1>6 DEF GetSome
  <2>2. SubSeq(Unread, 1, 1) \in Bytestring
    BY <1>2, <2>1, Front
  <2>3. /\ PipeTypeOK' /\ InTypeOK' /\ Heard(wire, taken, Received)' /\ Tracks'
        /\ CallGoes(call.s \o SubSeq(Unread, 1, 1), call.n, call.p, "returned") /\ RawWhenEmpty'
        /\ Used' = Used + 0 /\ Has' = Has - 0
    BY <1>2, <2>1, <2>2, TakeStep
  <2>4. Unread' = Unread
    <3>1. mInIndex' = mInIndex /\ mInEnd' = mInEnd /\ mInBuffer' = mInBuffer
      BY <2>1, Facts, InputIs DEF Take
    <3> QED  BY <3>1 DEF Unread
  <2>5. call'.s = SubSeq(Unread', 1, 1) /\ call'.op = "peekchar" /\ Used' = 0 /\ 1 <= Has'
        /\ call'.at = "returned"
    BY <1>2, <1>3, <1>6, <2>1, <2>2, <2>3, <2>4 DEF CallGoes
  <2>6. Counts' /\ Line'
    BY <2>5 DEF Counts, Copies, Answered, Peeked, Line
  <2> QED  BY <2>3, <2>6 DEF InInv
<1>7. CASE ~bufempty /\ call.op = "getchunk"
  <2>1. Take(Has, Unread) /\ 1 <= Has
    BY <1>1, <1>2, <1>7 DEF GetSome
  <2>2. /\ PipeTypeOK' /\ InTypeOK' /\ Heard(wire, taken, Received)' /\ Tracks'
        /\ CallGoes(call.s \o Unread, call.n, call.p, "returned") /\ RawWhenEmpty'
        /\ Used' = Used + Has /\ Consumed' = Consumed \o SubSeq(Unread, 1, Has)
    BY <1>2, <2>1, TakeStep
  <2>3. call'.s = Consumed' /\ call'.op = "getchunk" /\ Used' > 0
    <3>1. Used' > 0
      BY <1>2, <2>1, <2>2
    <3>2. call'.s = call.s \o Unread /\ call'.op = "getchunk"
      BY <1>7, <2>2 DEF CallGoes
    <3>3. call.s = Consumed /\ Consumed' = Consumed \o Unread
      BY <1>2, <1>3, <1>7, <2>2
    <3> QED  BY <3>1, <3>2, <3>3
  <2>4. Counts' /\ Line'
    BY <2>3 DEF Counts, Copies, Line
  <2> QED  BY <2>2, <2>4 DEF InInv
<1> QED  BY <1>1, <1>4, <1>5, <1>6, <1>7

\* Calls that copy or drop: s is what a call keeps of the bytes u.
LEMMA CountedTake ==
    ASSUME PipeTypeOK, InInv, NEW k \in Nat, k <= Has, NEW s \in Bytestring, Take(k, s),
           call.op \in {"getn", "dropn", "getspan", "read", "tryread"},
           call.op # "dropn" => s = SubSeq(Unread, 1, k), call.at = "buffer",
           call.op \in {"getn", "dropn"} => k = call.n,
           call.op = "getspan" => k >= call.want,
           call.op \in {"read", "tryread"} => k <= call.want
    PROVE  PipeTypeOK' /\ InInv'
<1>1. /\ PipeTypeOK' /\ InTypeOK' /\ Heard(wire, taken, Received)' /\ Tracks'
      /\ CallGoes(call.s \o s, call.n, call.p, "returned") /\ RawWhenEmpty'
      /\ Used' = Used + k /\ Consumed' = Consumed \o SubSeq(Unread, 1, k)
  BY TakeStep
<1>2. Used \in Nat /\ call.n \in Nat /\ call.want \in Nat /\ Counts
  BY Facts DEF InInv
<1>3. /\ call'.op = call.op /\ call'.n = call.n /\ call'.want = call.want
      /\ call'.at = "returned" /\ call'.s = call.s \o s
  BY <1>1 DEF CallGoes
<1>4. call.op # "dropn" => call'.s = Consumed'
  <2>1. call.op # "dropn" => call.s = Consumed
    BY <1>2 DEF Counts, Copies
  <2> QED  BY <1>1, <1>3, <2>1
<1>5. call.op \in {"getn", "dropn"} => Used' = call.want
  <2>1. call.op \in {"getn", "dropn"} => Used + call.n = call.want
    BY <1>2 DEF Counts, Answered
  <2> QED  BY <1>1, <2>1
<1>6. call.op \in {"getspan", "read", "tryread"} => call.n = call.want
  BY <1>2 DEF Counts
<1>7. call.op = "getspan" => Used' >= call.want
  BY <1>1, <1>2
<1>8. call.op \in {"read", "tryread"} => Used' <= call.want
  <2>1. call.op \in {"read", "tryread"} => Used = 0
    BY <1>2 DEF Counts, Answered
  <2> QED  BY <1>1, <1>2, <2>1
<1>9. Counts' /\ Line'
  BY <1>3, <1>4, <1>5, <1>6, <1>7, <1>8 DEF Counts, Copies, Answered, Line
<1> QED  BY <1>1, <1>9 DEF InInv

LEMMA CountedRefill ==
    ASSUME PipeTypeOK, InInv, NEW s \in Bytestring, NEW n \in Nat, Refill(s, n),
           call.op \in {"getn", "dropn", "getspan", "getall", "dropall"},
           call.op \notin {"dropn", "dropall"} => s = Unread, call.at = "buffer",
           call.op \in {"getn", "dropn"} => Has + n = call.n,
           call.op = "getspan" => n = call.n
    PROVE  PipeTypeOK' /\ InInv'
<1>1. /\ PipeTypeOK' /\ InTypeOK' /\ Heard(wire, taken, Received)' /\ Tracks'
      /\ CallGoes(call.s \o s, n, call.p, "raw") /\ RawWhenEmpty'
      /\ Used' = Used + Has /\ Consumed' = Consumed \o Unread
  BY RefillStep
<1>2. Used \in Nat /\ call.n \in Nat /\ call.want \in Nat /\ Has \in Nat /\ Counts
  BY Facts DEF InInv
<1>3. /\ call'.op = call.op /\ call'.n = n /\ call'.want = call.want
      /\ call'.at = "raw" /\ call'.s = call.s \o s
  BY <1>1 DEF CallGoes
<1>4. call.op \in {"getn", "getspan", "getall"} => call'.s = Consumed'
  <2>1. call.op \in {"getn", "getspan", "getall"} => call.s = Consumed
    BY <1>2 DEF Counts, Copies
  <2> QED  BY <1>1, <1>3, <2>1
<1>5. call.op \in {"getn", "dropn"} => Used' + n = call.want
  <2>1. call.op \in {"getn", "dropn"} => Used + call.n = call.want
    BY <1>2 DEF Counts, Answered
  <2> QED  BY <1>1, <1>2, <2>1
<1>6. call.op = "getspan" => n = call.want
  BY <1>2 DEF Counts
<1>7. Counts' /\ Line'
  BY <1>3, <1>4, <1>5, <1>6 DEF Counts, Copies, Answered, Line
<1> QED  BY <1>1, <1>7 DEF InInv

LEMMA GetNInv ==
    ASSUME PipeTypeOK, InInv, GetN PROVE PipeTypeOK' /\ InInv'
<1>1. call.op \in {"getn", "dropn"} /\ call.at = "buffer"
  BY DEF GetN, Serving
<1>2. /\ call.n \in Nat /\ Has \in Nat /\ Unread \in Bytestring /\ Len(Unread) = Has
      /\ <<>> \in Bytestring
  BY Facts
<1>3. \A s \in Bytestring : /\ Kept(s) \in Bytestring
                            /\ call.op # "dropn" => Kept(s) = s
  BY <1>1, <1>2 DEF Kept
<1>4. CASE call.n <= Has
  <2>1. Take(call.n, Kept(SubSeq(Unread, 1, call.n)))
    BY <1>4 DEF GetN
  <2>2. SubSeq(Unread, 1, call.n) \in Bytestring
    BY <1>2, <1>4, Front
  <2> QED  BY <1>1, <1>2, <1>3, <1>4, <2>1, <2>2, CountedTake
<1>5. CASE ~(call.n <= Has)
  <2>1. Refill(Kept(Unread), call.n - Has)
    BY <1>5 DEF GetN
  <2>2. call.n - Has \in Nat /\ Has + (call.n - Has) = call.n
    BY <1>2, <1>5
  <2> QED  BY <1>1, <1>2, <1>3, <2>1, <2>2, CountedRefill
<1> QED  BY <1>4, <1>5

LEMMA GetSpanInv ==
    ASSUME PipeTypeOK, InInv, GetSpan PROVE PipeTypeOK' /\ InInv'
<1>1. call.op = "getspan" /\ call.at = "buffer" /\ Counts
  BY DEF GetSpan, Serving, InInv
<1>2. /\ call.n \in Nat /\ Has \in Nat /\ Unread \in Bytestring /\ Len(Unread) = Has
  BY Facts
<1>3. call.n = call.want
  BY <1>1 DEF Counts
<1>4. CASE call.n <= Has
  <2>1. Take(call.n, SubSeq(Unread, 1, call.n))
    BY <1>4 DEF GetSpan
  <2>2. SubSeq(Unread, 1, call.n) \in Bytestring /\ call.n >= call.want
    BY <1>2, <1>3, <1>4, Front
  <2> QED  BY <1>1, <1>2, <1>4, <2>1, <2>2, CountedTake
<1>5. CASE ~(call.n <= Has)
  <2>1. Refill(Unread, call.n)
    BY <1>5 DEF GetSpan
  <2> QED  BY <1>1, <1>2, <2>1, CountedRefill
<1> QED  BY <1>4, <1>5

LEMMA GetAllInv ==
    ASSUME PipeTypeOK, InInv, GetAll PROVE PipeTypeOK' /\ InInv'
<1>1. call.op \in {"getall", "dropall"} /\ call.at = "buffer"
      /\ Refill(IF call.op = "getall" THEN Unread ELSE <<>>, 0)
  BY DEF GetAll, Serving
<1>2. PICK s \in Bytestring : Refill(s, 0) /\ (call.op = "getall" => s = Unread)
  <2>1. Unread \in Bytestring /\ <<>> \in Bytestring
    BY Facts
  <2> QED  BY <1>1, <2>1
<1> QED  BY <1>1, <1>2, CountedRefill

\* A call that only waits, fails or comes to an end on what it has.
LEMMA OnlyAt ==
    ASSUME PipeTypeOK, InInv, NEW a \in {"raw", "returned", "failed"},
           call' = [call EXCEPT !.at = a],
           UNCHANGED <<mInBuffer, mInIndex, mInEnd, got, spoilt, pipe>>,
           call.at # "returned",
           a = "raw" => bufempty \/ call.op = "peekn",
           a = "returned" => \/ call.op \in {"getall", "dropall"} /\ AtEof /\ bufempty
                             \/ call.op = "read"
    PROVE  PipeTypeOK' /\ InInv'
<1>1. InTypeOK /\ Counts /\ Line
  BY DEF InInv
<1>2. CallGoes(call.s, call.n, call.p, a)
  BY <1>1, CallAt
<1>3. /\ call' \in CallRecord /\ call'.from = call.from /\ call'.at = a
      /\ call'.s = call.s /\ call'.n = call.n /\ call'.p = call.p
      /\ call'.op = call.op /\ call'.want = call.want /\ call'.eol = call.eol
  BY <1>2 DEF CallGoes
<1>4. /\ PipeTypeOK' /\ InTypeOK' /\ Heard(wire, taken, Received)' /\ Tracks'
      /\ Unread' = Unread /\ Has' = Has /\ Received' = Received
      /\ (bufempty' <=> bufempty) /\ (AtEof' <=> AtEof)
      /\ Consumed' = Consumed /\ Used' = Used
  BY <1>3, StepKeeps DEF Consumed, Used
<1>5. RawWhenEmpty'
  BY <1>3, <1>4 DEF RawWhenEmpty
<1>6. Counts'
  <2>1. call'.at = "returned" => call.op \in {"getall", "dropall", "read"}
    BY <1>3
  <2>2. call.op \in {"getall", "dropall"} => ~Answered' \/ (AtEof /\ bufempty)
    BY <1>3 DEF Answered
  <2>3. ~Answered /\ (Answered' <=> call'.at = "returned")
    BY DEF Answered
  <2>4. 0 <= call.want
    BY Facts
  <2> QED  BY <1>1, <1>3, <1>4, <2>1, <2>2, <2>3, <2>4 DEF Counts, Copies
<1>7. Line'
  <2>1. \A i : Fails(i)' <=> Fails(i)
    BY <1>3, <1>4 DEF Fails
  <2>2. got' = got /\ Len(got') = Len(got) /\ Matched' = Matched
    BY <1>3 DEF Matched
  <2>3. call.op \in {"getline", "dropline"} => call'.at # "returned"
    BY <1>3
  <2> QED  BY <1>1, <1>3, <1>4, <2>1, <2>2, <2>3 DEF Line
<1> QED  BY <1>4, <1>5, <1>6, <1>7 DEF InInv

LEMMA ReadInv ==
    ASSUME PipeTypeOK, InInv, Read PROVE PipeTypeOK' /\ InInv'
<1>1. call.op = "read" /\ call.at = "buffer" /\ Counts
  BY DEF Read, Serving, InInv
<1>2. CASE bufempty
  <2>1. call' = [call EXCEPT !.at = "raw"]
        /\ UNCHANGED <<mInBuffer, mInIndex, mInEnd, got, spoilt, pipe>>
    BY <1>2 DEF Read
  <2> QED  BY <1>1, <1>2, <2>1, OnlyAt
<1>3. CASE ~bufempty
  <2> DEFINE n == AtMost(Has, call.n)
  <2>1. Take(n, SubSeq(Unread, 1, n))
    BY <1>3 DEF Read
  <2>2. Has \in Nat /\ call.n \in Nat /\ Unread \in Bytestring /\ Len(Unread) = Has
        /\ call.n = call.want
    BY <1>1, Facts DEF Counts
  <2>3. n \in Nat /\ n <= Has /\ n <= call.want
    BY <2>2 DEF AtMost
  <2> HIDE DEF n
  <2>4. SubSeq(Unread, 1, n) \in Bytestring
    BY <2>2, <2>3, Front
  <2> QED  BY <1>1, <2>1, <2>3, <2>4, CountedTake
<1> QED  BY <1>2, <1>3

LEMMA TryReadInv ==
    ASSUME PipeTypeOK, InInv, TryRead PROVE PipeTypeOK' /\ InInv'
<1>1. call.op = "tryread" /\ call.at = "buffer" /\ Counts
  BY DEF TryRead, Serving, InInv
<1> DEFINE n == AtMost(Has, call.n)
<1>2. Take(n, SubSeq(Unread, 1, n))
  BY DEF TryRead
<1>3. Has \in Nat /\ call.n \in Nat /\ Unread \in Bytestring /\ Len(Unread) = Has
      /\ call.n = call.want
  BY <1>1, Facts DEF Counts
<1>4. n \in Nat /\ n <= Has /\ n <= call.want
  BY <1>3 DEF AtMost
<1> HIDE DEF n
<1>5. SubSeq(Unread, 1, n) \in Bytestring
  BY <1>3, <1>4, Front
<1> QED  BY <1>1, <1>2, <1>4, <1>5, CountedTake

LEMMA EndOfFileInv ==
    ASSUME PipeTypeOK, InInv, EndOfFile PROVE PipeTypeOK' /\ InInv'
<1>1. /\ call.at = "raw" /\ AtEof /\ RawWhenEmpty
      /\ UNCHANGED <<mInBuffer, mInIndex, mInEnd, got, spoilt, pipe>>
  BY DEF EndOfFile, InInv
<1>2. CASE call.op \in {"getall", "dropall", "read"}
  <2>1. call' = [call EXCEPT !.at = "returned"] /\ bufempty
    BY <1>1, <1>2 DEF EndOfFile, RawWhenEmpty
  <2> QED  BY <1>1, <1>2, <2>1, OnlyAt
<1>3. CASE call.op \notin {"getall", "dropall", "read"}
  <2>1. call' = [call EXCEPT !.at = "failed"]
    BY <1>3 DEF EndOfFile
  <2> QED  BY <1>1, <2>1, OnlyAt
<1> QED  BY <1>2, <1>3

LEMMA ReadFailsInv ==
    ASSUME PipeTypeOK, InInv, ReadFails PROVE PipeTypeOK' /\ InInv'
<1>1. /\ call.at = "raw" /\ call' = [call EXCEPT !.at = "failed"]
      /\ UNCHANGED <<mInBuffer, mInIndex, mInEnd, got, spoilt, pipe>>
  BY DEF ReadFails
<1> QED  BY <1>1, OnlyAt

\* The unread bytes move to the front of the buffer.
LEMMA PeekNMoves ==
    ASSUME PipeTypeOK, InInv, UNCHANGED <<call, got, spoilt, pipe>>,
           mInBuffer' = [i \in DOMAIN mInBuffer |->
                           IF i <= Has THEN Unread[i] ELSE mInBuffer[i]],
           mInIndex' = 0, mInEnd' = Has
    PROVE  PipeTypeOK' /\ InInv'
<1>1. /\ InTypeOK /\ Heard(wire, taken, Received) /\ Tracks
      /\ RawWhenEmpty /\ Counts /\ Line
      /\ wire' = wire /\ taken' = taken /\ closed' = closed
  BY DEF InInv, pipe
<1>2. /\ mInBuffer \in Bytestring /\ Len(mInBuffer) \in Nat
      /\ mInIndex \in Nat /\ mInEnd \in Nat /\ mInIndex <= mInEnd
      /\ mInEnd <= Len(mInBuffer)
      /\ Has \in Nat /\ Unread \in Bytestring /\ Len(Unread) = Has
      /\ (bufempty <=> Has = 0)
  BY <1>1, InputIs
<1>3. Has <= Len(mInBuffer)
  BY <1>2 DEF Has
<1>4. mInBuffer' \in Bytestring /\ Len(mInBuffer') = Len(mInBuffer)
      /\ \A i \in 1 .. Has : mInBuffer'[i] = Unread[i]
  <2>1. DOMAIN mInBuffer = 1 .. Len(mInBuffer)
        /\ (\A i \in 1 .. Len(mInBuffer) : mInBuffer[i] \in Nat)
        /\ \A i \in 1 .. Has : Unread[i] \in Nat
    BY <1>2, Positions
  <2>2. \A i \in 1 .. Len(mInBuffer) :
            (IF i <= Has THEN Unread[i] ELSE mInBuffer[i]) \in Nat
    BY <1>2, <2>1
  <2>3. mInBuffer' \in [1 .. Len(mInBuffer) -> Nat]
    BY <2>1, <2>2
  <2>4. \A i \in 1 .. Has : mInBuffer'[i] = Unread[i]
    BY <1>2, <1>3, <2>1
  <2> QED  BY <1>2, <2>3, <2>4, IsBytestring
<1>5. Unread' = Unread
  <2>1. Unread' = SubSeq(mInBuffer', 1, Has)
    <3>1. 0 + 1 = 1
      OBVIOUS
    <3> QED  BY <3>1 DEF Unread
  <2> DEFINE b == mInBuffer'
             p == SubSeq(b, 1, Has)
  <2>2. b \in Bytestring /\ Has <= Len(b) /\ \A i \in 1 .. Has : b[i] = Unread[i]
    BY <1>3, <1>4
  <2> HIDE DEF b
  <2>3. p \in Bytestring /\ Len(p) = Has /\ \A i \in 1 .. Has : p[i] = b[i]
    BY <1>2, <2>2, Front
  <2> HIDE DEF p
  <2>4. p = Unread
    BY <1>2, <2>2, <2>3, SeqEqual DEF Bytestring
  <2> QED  BY <2>1, <2>4 DEF p, b
<1>6. Has' = Has /\ (bufempty' <=> bufempty)
  <2>1. Has' = Has - 0
    BY DEF Has
  <2>2. bufempty' <=> Has = 0
    BY DEF bufempty
  <2> QED  BY <1>2, <2>1, <2>2
<1>7. Received' = Received /\ Consumed' = Consumed /\ Used' = Used /\ (AtEof' <=> AtEof)
  BY <1>1, <1>5 DEF Received, Consumed, Used, AtEof
<1>8. PipeTypeOK' /\ InTypeOK'
  BY <1>1, <1>2, <1>3, <1>4 DEF PipeTypeOK, InTypeOK
<1>9. Heard(wire, taken, Received)' /\ Tracks'
  BY <1>1, <1>7, SameReceived
<1>10. RawWhenEmpty' /\ Counts'
  BY <1>1, <1>5, <1>6, <1>7 DEF RawWhenEmpty, Counts, Answered, Peeked
<1>11. Line'
  <2>1. \A i : Fails(i)' <=> Fails(i)
    BY <1>7 DEF Fails
  <2>2. Matched' = Matched
    BY DEF Matched
  <2> QED  BY <1>1, <1>7, <2>1, <2>2 DEF Line
<1> QED  BY <1>8, <1>9, <1>10, <1>11 DEF InInv

LEMMA PeekNInv ==
    ASSUME PipeTypeOK, InInv, PeekN PROVE PipeTypeOK' /\ InInv'
<1>1. call.op = "peekn" /\ call.at = "buffer" /\ Counts /\ InTypeOK
      /\ UNCHANGED <<got, spoilt, pipe>>
  BY DEF PeekN, Serving, InInv
<1>2. CASE Len(mInBuffer) < call.n
  <2>1. call' = [call EXCEPT !.at = "failed"] /\ UNCHANGED <<mInBuffer, mInIndex, mInEnd>>
    BY <1>2 DEF PeekN
  <2> QED  BY <1>1, <2>1, OnlyAt
<1>3. CASE ~(Len(mInBuffer) < call.n) /\ Len(mInBuffer) - mInIndex < call.n
  <2>1. /\ mInBuffer' = [i \in DOMAIN mInBuffer |->
                           IF i <= Has THEN Unread[i] ELSE mInBuffer[i]]
        /\ mInIndex' = 0 /\ mInEnd' = Has /\ call' = call
    BY <1>3 DEF PeekN
  <2> QED  BY <1>1, <2>1, PeekNMoves
<1>4. CASE ~(Len(mInBuffer) < call.n) /\ ~(Len(mInBuffer) - mInIndex < call.n) /\ Has < call.n
  <2>1. call' = [call EXCEPT !.at = "raw"] /\ UNCHANGED <<mInBuffer, mInIndex, mInEnd>>
    BY <1>4 DEF PeekN
  <2> QED  BY <1>1, <2>1, OnlyAt
<1>5. CASE ~(Len(mInBuffer) < call.n) /\ ~(Len(mInBuffer) - mInIndex < call.n) /\ ~(Has < call.n)
  <2>1. call' = [call EXCEPT !.s = SubSeq(Unread, 1, call.n), !.at = "returned"]
        /\ UNCHANGED <<mInBuffer, mInIndex, mInEnd>>
    BY <1>5 DEF PeekN
  <2>2. Has \in Nat /\ call.n \in Nat /\ Unread \in Bytestring /\ Len(Unread) = Has
        /\ call.n = call.want /\ Used = 0 /\ call.n <= Has
    BY <1>1, <1>5, Facts DEF Counts
  <2>3. SubSeq(Unread, 1, call.n) \in Bytestring
    BY <2>2, Front
  <2>4. CallGoes(SubSeq(Unread, 1, call.n), call.n, call.p, "returned")
    BY <1>1, <2>1, <2>3 DEF InTypeOK, CallRecord, CallGoes
  <2>5. /\ call' \in CallRecord /\ call'.from = call.from /\ call'.at = "returned"
        /\ call'.s = SubSeq(Unread, 1, call.n) /\ call'.n = call.n
        /\ call'.op = "peekn" /\ call'.want = call.want
    BY <1>1, <2>4 DEF CallGoes
  <2>6. /\ PipeTypeOK' /\ InTypeOK' /\ Heard(wire, taken, Received)' /\ Tracks'
        /\ Unread' = Unread /\ Has' = Has /\ Used' = Used
    BY <1>1, <2>1, <2>5, StepKeeps DEF Used
  <2>7. Peeked' = call.n
    BY <2>2, <2>5 DEF Peeked
  <2>8. Counts' /\ Line' /\ RawWhenEmpty'
    BY <2>2, <2>5, <2>6, <2>7 DEF Counts, Copies, Answered, Line, RawWhenEmpty
  <2> QED  BY <2>6, <2>8 DEF InInv
<1> QED  BY <1>2, <1>3, <1>4, <1>5

LEMMA AskInv ==
    ASSUME PipeTypeOK, InInv, NEW op \in Op, NEW n \in Nat, NEW eol, Ask(op, n, eol),
           IF op \in {"getline", "dropline"} THEN eol \in Eols ELSE eol = <<>>
    PROVE  PipeTypeOK' /\ InInv'
<1>1. eol \in Seq(STRING) /\ (op \in {"getline", "dropline"} => eol \in Eols /\ Len(eol) > 0)
  <2>1. \A e \in Eols : e \in Seq(STRING) /\ e # <<>>
    BY EolsAssumption
  <2>2. eol \in Seq(STRING)
    <3>1. <<>> \in Seq(STRING)
      OBVIOUS
    <3> QED  BY <2>1, <3>1, Zenon
  <2>3. eol # <<>> => Len(eol) > 0
    BY <2>2, EmptySeq
  <2> QED  BY <2>1, <2>2, <2>3
<1>2. Len(got) \in Nat /\ <<>> \in Bytestring
  BY Facts
<1>3. /\ call' = [op |-> op, n |-> n, eol |-> eol, p |-> 0, s |-> <<>>,
                  from |-> Len(got), want |-> n, at |-> "buffer"]
      /\ UNCHANGED <<mInBuffer, mInIndex, mInEnd, got, spoilt, pipe>>
  BY DEF Ask
<1>4. /\ call' \in CallRecord /\ call'.op = op /\ call'.n = n /\ call'.eol = eol
      /\ call'.p = 0 /\ call'.s = <<>> /\ call'.from = Len(got) /\ call'.want = n
      /\ call'.at = "buffer"
  BY <1>1, <1>2, <1>3 DEF CallRecord
<1>5. /\ PipeTypeOK' /\ InTypeOK' /\ Heard(wire, taken, Received)' /\ Tracks'
      /\ Consumed' = SubSeq(got, Len(got) + 1, Len(got)) /\ Used' = Len(got) - Len(got)
  BY <1>3, <1>4, StepKeeps
<1>6. Used' = 0 /\ SubSeq(got, Len(got) + 1, Len(got)) = <<>> /\ Consumed' = <<>>
  BY <1>2, <1>5, SubSeqEmpty
<1>7. RawWhenEmpty'
  BY <1>4 DEF RawWhenEmpty
<1>8. Counts'
  BY <1>4, <1>6 DEF Counts, Answered
<1>9. Line'
  <2>1. got' = got /\ Len(got) - 0 = Len(got) /\ Len(got) .. Len(got) - 0 - 1 = {}
    BY <1>2, <1>3
  <2>2. Matched' = <<>> /\ <<>> \o <<>> = <<>>
    BY <1>2, <1>4, <1>6, <2>1, NoBytes DEF Matched
  <2> QED  BY <1>1, <1>2, <1>4, <1>6, <2>1, <2>2 DEF Line
<1> QED  BY <1>5, <1>7, <1>8, <1>9 DEF InInv

\* What is known of a byte stays known when more bytes come.
LEMMA FailsStay ==
    ASSUME Received \in Bytestring, NEW u \in Bytestring, Received' = Received \o u,
           call'.eol = call.eol, NEW i \in Nat, Fails(i)
    PROVE  Fails(i)'
<1>1. PICK j \in 1 .. Len(call.eol) :
          i + j <= Len(Received) /\ Text[Received[i + j]] # call.eol[j]
  BY DEF Fails
<1>2. /\ Len(Received \o u) = Len(Received) + Len(u) /\ Len(Received) \in Nat
      /\ Len(u) \in Nat /\ \A k \in 1 .. Len(Received) : (Received \o u)[k] = Received[k]
  BY Joined, Positions
<1>3. j \in Nat
  BY <1>1
<1>4. i + j \in 1 .. Len(Received) /\ i + j <= Len(Received')
  BY <1>1, <1>2, <1>3
<1>5. Received'[i + j] = Received[i + j]
  BY <1>2, <1>4
<1> QED  BY <1>1, <1>4, <1>5 DEF Fails

\* What raw_read brings.
LEMMA IncomingIs ==
    ASSUME PipeTypeOK, NEW n \in 1 .. Len(wire) - taken
    PROVE  /\ Incoming(n) \in Bytestring /\ Len(Incoming(n)) = n
           /\ taken + n \in 0 .. Len(wire)
<1>1. wire \in Bytestring /\ Len(wire) \in Nat /\ taken \in Nat /\ taken <= Len(wire)
  BY Positions DEF PipeTypeOK
<1>2. /\ n \in Nat /\ taken + n \in Nat /\ taken <= taken + n /\ taken + n <= Len(wire)
      /\ taken + n - taken = n
  BY <1>1
<1>3. SubSeq(wire, taken + 1, taken + n) \in Bytestring
      /\ Len(SubSeq(wire, taken + 1, taken + n)) = n
  <2> DEFINE e == taken + n
  <2>1. e \in Nat /\ taken <= e /\ e <= Len(wire) /\ e - taken = n
    BY <1>1, <1>2
  <2> HIDE DEF e
  <2>2. SubSeq(wire, taken + 1, e) \in Bytestring /\ Len(SubSeq(wire, taken + 1, e)) = e - taken
    BY <1>1, <2>1, Piece
  <2> QED  BY <2>1, <2>2 DEF e
<1>4. taken + n \in 0 .. Len(wire)
  BY <1>1, <1>2
<1> QED  BY <1>3, <1>4 DEF Incoming

LEMMA FillBufInv ==
    ASSUME PipeTypeOK, InInv, FillBuf PROVE PipeTypeOK' /\ InInv'
<1>1. /\ call.at = "raw" /\ call.op # "read" /\ InTypeOK /\ RawWhenEmpty /\ Counts /\ Line
      /\ spoilt' = (spoilt \/ ~bufempty) /\ call' = [call EXCEPT !.at = "buffer"]
      /\ UNCHANGED <<mInIndex, got, wire, closed>>
  BY DEF FillBuf, InInv
<1>2. /\ mInBuffer \in Bytestring /\ Len(mInBuffer) \in Nat
      /\ mInIndex \in Nat /\ mInEnd \in Nat /\ mInIndex <= mInEnd
      /\ mInEnd <= Len(mInBuffer) /\ Received \in Bytestring /\ Len(got) \in Nat
      /\ got \in Bytestring /\ call.from \in Nat /\ call.from <= Len(got)
  BY <1>1, InputIs
<1>3. wire \in Bytestring /\ Len(wire) \in Nat /\ taken \in Nat /\ taken <= Len(wire)
  BY Positions DEF PipeTypeOK
<1> DEFINE memory == IF mInBuffer = <<>> THEN [i \in 1 .. Size |-> 0] ELSE mInBuffer
<1>4. PICK n \in ReadSizes(Len(memory) - mInIndex) :
        /\ mInBuffer' = [i \in DOMAIN memory |->
                           IF i \in mInIndex + 1 .. mInIndex + n
                           THEN Incoming(n)[i - mInIndex] ELSE memory[i]]
        /\ mInEnd' = mInIndex + n /\ taken' = taken + n
  BY DEF FillBuf
<1>5. memory \in Bytestring
  <2>1. [i \in 1 .. Size |-> 0] \in [1 .. Size -> Nat]
    OBVIOUS
  <2> QED  BY <1>2, <2>1, IsBytestring
<1> HIDE DEF memory
<1>6. DOMAIN memory = 1 .. Len(memory) /\ Len(memory) \in Nat
      /\ \A i \in 1 .. Len(memory) : memory[i] \in Nat
  BY <1>5, Positions
<1>7. /\ n \in 1 .. Len(wire) - taken /\ n \in Nat /\ mInIndex + n <= Len(memory)
  BY <1>2, <1>3, <1>4, <1>6 DEF ReadSizes, AtMost
<1> DEFINE u == Incoming(n)
           b == mInBuffer'
<1>8. u \in Bytestring /\ Len(u) = n
  BY <1>7, IncomingIs
<1>9. b = [i \in 1 .. Len(memory) |-> IF i \in mInIndex + 1 .. mInIndex + n
                                      THEN u[i - mInIndex] ELSE memory[i]]
  BY <1>4, <1>6
<1> HIDE DEF u, b
<1>10. b \in Bytestring /\ Len(b) = Len(memory)
  <2>1. \A i \in 1 .. n : u[i] \in Nat
    BY <1>8, Positions
  <2>2. \A i \in mInIndex + 1 .. mInIndex + n : i - mInIndex \in 1 .. n
    BY <1>2, <1>7
  <2>3. \A i \in 1 .. Len(memory) :
           (IF i \in mInIndex + 1 .. mInIndex + n THEN u[i - mInIndex] ELSE memory[i]) \in Nat
    BY <1>6, <2>1, <2>2
  <2>4. b \in [1 .. Len(memory) -> Nat]
    BY <1>9, <2>3
  <2> QED  BY <1>6, <2>4, IsBytestring
<1>11. SubSeq(b, mInIndex + 1, mInIndex + n) = u
  <2> DEFINE e == mInIndex + n
             v == SubSeq(b, mInIndex + 1, e)
  <2>1. e \in Nat /\ mInIndex <= e /\ e <= Len(b) /\ e - mInIndex = n
    BY <1>2, <1>7, <1>10
  <2> HIDE DEF e
  <2>2. v \in Bytestring /\ Len(v) = n /\ \A i \in 1 .. n : v[i] = b[mInIndex + i]
    <3>1. v \in Bytestring /\ Len(v) = e - mInIndex
          /\ \A i \in 1 .. e - mInIndex : v[i] = b[mInIndex + i]
      BY <1>2, <1>10, <2>1, Piece
    <3> QED  BY <2>1, <3>1
  <2> HIDE DEF v
  <2>3. ASSUME NEW i \in 1 .. n PROVE v[i] = u[i]
    <3> DEFINE k == mInIndex + i
    <3>1. k \in mInIndex + 1 .. mInIndex + n /\ k \in 1 .. Len(memory) /\ k - mInIndex = i
      BY <1>2, <1>6, <1>7
    <3>2. v[i] = b[k]
      BY <2>2
    <3> HIDE DEF k
    <3>3. b[k] = u[k - mInIndex]
      BY <1>9, <3>1
    <3> QED  BY <3>1, <3>2, <3>3
  <2>4. v = u
    BY <1>8, <2>2, <2>3, SeqEqual DEF Bytestring
  <2> QED  BY <2>4 DEF v, e
<1>12. Received' = got \o Incoming(n)
  <2>1. Unread' = u
    BY <1>1, <1>4, <1>11 DEF Unread, b
  <2> QED  BY <1>1, <2>1 DEF Received, u
<1>13. CallGoes(call.s, call.n, call.p, "buffer")
  BY <1>1, CallAt
<1>14. /\ call' \in CallRecord /\ call'.op = call.op /\ call'.eol = call.eol
       /\ call'.from = call.from /\ call'.want = call.want
       /\ call'.s = call.s /\ call'.n = call.n /\ call'.p = call.p /\ call'.at = "buffer"
  BY <1>13 DEF CallGoes
<1>15. Heard(wire, taken, Received)' /\ Tracks'
  BY <1>1, <1>4, <1>7, <1>12, MoreReceived
<1>16. PipeTypeOK'
  BY <1>1, <1>3, <1>4, <1>7 DEF PipeTypeOK
<1>17. InTypeOK'
  <2>1. mInBuffer' \in Bytestring /\ mInEnd' \in 0 .. Len(mInBuffer') /\ mInIndex' \in 0 .. mInEnd'
    BY <1>1, <1>2, <1>4, <1>6, <1>7, <1>10 DEF b
  <2>2. spoilt' \in BOOLEAN
    BY <1>1, Zenon
  <2> QED  BY <1>1, <1>2, <1>14, <2>1, <2>2 DEF InTypeOK
<1>18. RawWhenEmpty'
  BY <1>14 DEF RawWhenEmpty
<1>19. Counts'
  <2>1. Consumed' = Consumed /\ Used' = Used
    BY <1>1, <1>14 DEF Consumed, Used
  <2> QED  BY <1>1, <1>14, <2>1 DEF Counts, Answered, Copies
<1>20. Line'
  <2> SUFFICES ASSUME call.op \in {"getline", "dropline"} PROVE Line'
    BY <1>14 DEF Line
  <2>1. Received = got
    <3>1. bufempty
      BY <1>1 DEF RawWhenEmpty
    <3>2. Unread = <<>>
      BY <1>2, <3>1, SubSeqEmpty DEF Unread, bufempty
    <3> QED  BY <1>2, <3>2, NoBytes DEF Received
  <2>2. ASSUME Plain(call.eol)
        PROVE  \A i \in call.from .. Len(got) - call.p - 1 : Fails(i)'
    <3>1. \A i \in call.from .. Len(got) - call.p - 1 : Fails(i) /\ i \in Nat
      BY <1>1, <1>2, <2>2, CallIs DEF Line
    <3>2. Received' = Received \o u
      BY <1>12, <2>1 DEF u
    <3> QED  BY <1>2, <1>8, <1>14, <3>1, <3>2, FailsStay
  <2>3. got' = got /\ Used' = Used /\ Consumed' = Consumed /\ Matched' = Matched
    BY <1>1, <1>14 DEF Used, Consumed, Matched
  <2> QED  BY <1>1, <1>14, <2>2, <2>3 DEF Line
<1> QED  BY <1>15, <1>16, <1>17, <1>18, <1>19, <1>20 DEF InInv

LEMMA ReadRawInv ==
    ASSUME PipeTypeOK, InInv, ReadRaw PROVE PipeTypeOK' /\ InInv'
<1>1. /\ call.at = "raw" /\ call.op = "read" /\ InTypeOK /\ RawWhenEmpty /\ Counts
      /\ UNCHANGED <<mInBuffer, mInIndex, mInEnd, spoilt, wire, closed>>
  BY DEF ReadRaw, InInv
<1>2. PICK n \in ReadSizes(call.n) :
        /\ taken' = taken + n /\ got' = got \o Incoming(n)
        /\ call' = [call EXCEPT !.s = Incoming(n), !.at = "returned"]
  BY DEF ReadRaw
<1>3. /\ got \in Bytestring /\ Len(got) \in Nat /\ Has \in Nat
      /\ call.from \in Nat /\ call.from <= Len(got) /\ Consumed \in Bytestring
      /\ mInBuffer \in Bytestring /\ mInIndex \in Nat /\ spoilt \in BOOLEAN
  BY <1>1, InputIs DEF InTypeOK
<1>4. wire \in Bytestring /\ Len(wire) \in Nat /\ taken \in Nat /\ taken <= Len(wire)
  BY Positions DEF PipeTypeOK
<1>5. call.n \in Nat /\ call.n = call.want /\ Used = 0 /\ Consumed = <<>>
  BY <1>1, Facts DEF Counts, Answered
<1>6. n \in 1 .. Len(wire) - taken /\ n \in Nat /\ n <= call.want
  BY <1>4, <1>5 DEF ReadSizes, AtMost
<1> DEFINE u == Incoming(n)
<1>7. u \in Bytestring /\ Len(u) = n
  BY <1>6, IncomingIs
<1> HIDE DEF u
<1>8. CallGoes(u, call.n, call.p, "returned")
  <2>1. call' = [call EXCEPT !.s = u, !.at = "returned"]
    BY <1>2 DEF u
  <2> QED  BY <1>1, <1>7, <2>1 DEF InTypeOK, CallRecord, CallGoes
<1>9. /\ call' \in CallRecord /\ call'.op = "read" /\ call'.from = call.from
      /\ call'.want = call.want /\ call'.s = u /\ call'.n = call.n /\ call'.at = "returned"
  BY <1>1, <1>8 DEF CallGoes
<1>10. got' = got \o u /\ got' \in Bytestring /\ Len(got') = Len(got) + n
  BY <1>2, <1>3, <1>7, Joined DEF u
<1>11. bufempty /\ Unread' = <<>>
  <2>1. bufempty
    BY <1>1 DEF RawWhenEmpty
  <2>2. SubSeq(mInBuffer, mInIndex + 1, mInIndex) = <<>>
    BY <1>3, SubSeqEmpty
  <2>3. Unread' = SubSeq(mInBuffer, mInIndex + 1, mInIndex)
    BY <1>1, <2>1 DEF Unread, bufempty
  <2> QED  BY <2>1, <2>2, <2>3
<1>12. Received' = got \o Incoming(n)
  BY <1>10, <1>11, NoBytes DEF Received, u
<1>13. spoilt' = (spoilt \/ ~bufempty)
  <2>1. spoilt' = spoilt
    BY <1>1
  <2> QED  BY <1>3, <1>11, <2>1
<1>14. Heard(wire, taken, Received)' /\ Tracks'
  BY <1>1, <1>2, <1>6, <1>12, <1>13, MoreReceived
<1>15. PipeTypeOK'
  BY <1>1, <1>2, <1>4, <1>6 DEF PipeTypeOK
<1>16. InTypeOK'
  <2>1. call'.from <= Len(got')
    BY <1>3, <1>6, <1>9, <1>10
  <2> QED  BY <1>1, <1>9, <1>10, <2>1 DEF InTypeOK
<1>17. RawWhenEmpty'
  BY <1>9 DEF RawWhenEmpty
<1>18. Counts' /\ Line'
  <2>1. /\ SubSeq(got \o u, call.from + 1, Len(got \o u))
             = SubSeq(got, call.from + 1, Len(got)) \o u
        /\ Len(got \o u) - call.from = Len(got) - call.from + Len(u)
    BY <1>3, <1>7, PieceGrows
  <2>2. Consumed' = Consumed \o u /\ Used' = Used + n
    BY <1>7, <1>9, <1>10, <2>1 DEF Consumed, Used
  <2>3. Consumed' = u
    BY <1>5, <1>7, <2>2, NoBytes
  <2>4. Used' = n
    BY <1>5, <1>6, <2>2
  <2> QED  BY <1>5, <1>6, <1>9, <2>3, <2>4 DEF Counts, Answered, Copies, Line
<1> QED  BY <1>14, <1>15, <1>16, <1>17, <1>18 DEF InInv

LEMMA AsksInv ==
    ASSUME PipeTypeOK, InInv, Asks PROVE PipeTypeOK' /\ InInv'
<1>1. CASE \E op \in {"getchar", "peekchar", "getchunk", "getall", "dropall"} :
              Ask(op, 0, <<>>)
  <2>1. PICK op \in {"getchar", "peekchar", "getchunk", "getall", "dropall"} :
              Ask(op, 0, <<>>)
    BY <1>1
  <2>2. op \in Op /\ op \notin {"getline", "dropline"} /\ 0 \in Nat
    BY DEF Op
  <2> QED  BY <2>1, <2>2, AskInv
<1>2. CASE \E op \in {"getline", "dropline"}, eol \in Eols : Ask(op, 0, eol)
  <2>1. PICK op \in {"getline", "dropline"}, eol \in Eols : Ask(op, 0, eol)
    BY <1>2
  <2>2. op \in Op /\ 0 \in Nat
    BY DEF Op
  <2> QED  BY <2>1, <2>2, AskInv
<1>3. CASE \E op \in {"getn", "dropn", "getspan", "read", "tryread", "peekn"},
             n \in 1 .. Size + 1 : Ask(op, n, <<>>)
  <2>1. PICK op \in {"getn", "dropn", "getspan", "read", "tryread", "peekn"},
             n \in 1 .. Size + 1 : Ask(op, n, <<>>)
    BY <1>3
  <2>2. op \in Op /\ op \notin {"getline", "dropline"} /\ n \in Nat
    BY DEF Op
  <2> QED  BY <2>1, <2>2, AskInv
<1> QED  BY <1>1, <1>2, <1>3 DEF Asks

(* The search for the line end.                                             *)
LEMMA EolIs ==
    ASSUME NEW eol \in Eols
    PROVE  eol \in Seq(STRING) /\ Len(eol) \in Nat \ {0}
<1>1. eol \in Seq(STRING) /\ eol # <<>>
  BY EolsAssumption
<1>2. Len(eol) \in Nat /\ Len(eol) # 0
  BY <1>1, EmptySeq, LenProperties
<1> QED  BY <1>1, <1>2

\* What a step of getline or dropline starts from.
LEMMA LineFacts ==
    ASSUME PipeTypeOK, InInv, call.op \in {"getline", "dropline"}, call.at = "buffer"
    PROVE  /\ InTypeOK /\ Line
           /\ call.eol \in Eols /\ call.eol \in Seq(STRING) /\ Len(call.eol) \in Nat \ {0}
           /\ call.p \in Nat /\ call.p <= Used /\ call.p < Len(call.eol)
           /\ call.from \in Nat /\ Len(got) \in Nat /\ call.from <= Len(got) - call.p
           /\ Used = Len(got) - call.from
           /\ Matched \in Bytestring /\ Len(Matched) = call.p
<1>1. InTypeOK /\ Line
  BY DEF InInv
<1>2. call.eol \in Eols /\ call.p <= Used /\ call.p < Len(call.eol)
  BY <1>1 DEF Line
<1>3. /\ call.p \in Nat /\ call.from \in Nat /\ Len(got) \in Nat /\ got \in Bytestring
      /\ call.from <= Len(got)
  BY <1>1, CallIs, InputIs
<1>4. call.from <= Len(got) - call.p /\ Len(got) - call.p \in Nat /\ Used = Len(got) - call.from
  BY <1>2, <1>3 DEF Used
<1>5. Matched \in Bytestring /\ Len(Matched) = call.p
  <2> DEFINE a == Len(got) - call.p
  <2>1. a \in Nat /\ a <= Len(got) /\ Len(got) - a = call.p
    BY <1>3, <1>4
  <2> HIDE DEF a
  <2>2. SubSeq(got, a + 1, Len(got)) \in Bytestring
        /\ Len(SubSeq(got, a + 1, Len(got))) = Len(got) - a
    BY <1>3, <2>1, Piece
  <2> QED  BY <2>1, <2>2 DEF a, Matched
<1> QED  BY <1>1, <1>2, <1>3, <1>4, <1>5, EolIs

\* The unread bytes come in Received behind those of got.
LEMMA NextReceived ==
    ASSUME InTypeOK, NEW k \in 1 .. Has
    PROVE  Len(got) + k <= Len(Received) /\ Received[Len(got) + k] = Unread[k]
<1>1. /\ got \in Bytestring /\ Len(got) \in Nat /\ Unread \in Bytestring /\ Len(Unread) = Has
      /\ Has \in Nat /\ Len(Received) = Len(got) + Has
  BY InputIs
<1>2. (got \o Unread)[Len(got) + k] = Unread[k]
  BY <1>1, Joined
<1> QED  BY <1>1, <1>2 DEF Received

\* No line end begins at a byte that is not its first.
LEMMA NotFirst ==
    ASSUME InTypeOK, NEW i \in Nat, Len(call.eol) \in Nat \ {0}, i + 1 <= Len(Received),
           Text[Received[i + 1]] # call.eol[1]
    PROVE  Fails(i)
<1>1. 1 \in 1 .. Len(call.eol)
  OBVIOUS
<1> QED  BY <1>1 DEF Fails

\* The first k unread bytes are not the first of eol: no line end begins there.
LEMMA NoneFound ==
    ASSUME PipeTypeOK, InInv, call.op \in {"getline", "dropline"}, call.at = "buffer",
           call.p = 0, Plain(call.eol), NEW k \in 0 .. Has,
           \A j \in 1 .. k : Text[Unread[j]] # call.eol[1]
    PROVE  \A i \in call.from .. Len(got) + k - 1 : Fails(i)
<1>1. /\ InTypeOK /\ Line /\ Len(call.eol) \in Nat \ {0}
      /\ call.from \in Nat /\ Len(got) \in Nat
  BY LineFacts
<1>2. Has \in Nat
  BY <1>1, InputIs
<1> SUFFICES ASSUME NEW i \in call.from .. Len(got) + k - 1 PROVE Fails(i)
  OBVIOUS
<1>3. CASE i <= Len(got) - 1
  <2>1. i \in call.from .. Len(got) - call.p - 1
    BY <1>1, <1>3
  <2> QED  BY <1>1, <2>1 DEF Line
<1>4. CASE i >= Len(got)
  <2> DEFINE j == i - Len(got) + 1
  <2>1. j \in 1 .. k /\ j \in 1 .. Has /\ i \in Nat /\ i + 1 = Len(got) + j
    BY <1>1, <1>2, <1>4
  <2> HIDE DEF j
  <2>2. Len(got) + j <= Len(Received) /\ Received[Len(got) + j] = Unread[j]
    BY <1>1, <2>1, NextReceived
  <2>3. Text[Received[i + 1]] # call.eol[1] /\ i + 1 <= Len(Received)
    BY <2>1, <2>2
  <2> QED  BY <1>1, <2>1, <2>3, NotFirst
<1>5. i <= Len(got) - 1 \/ i >= Len(got)
  BY <1>1, <1>2
<1> QED  BY <1>3, <1>4, <1>5

\* The first character of eol that is found, found first.
LEMMA FirstFound ==
    ASSUME InTypeOK, NEW c, Found(c) # {}
    PROVE  /\ First(c) \in 1 .. Has /\ Text[Unread[First(c)]] = c
           /\ \A j \in 1 .. First(c) - 1 : Text[Unread[j]] # c
<1>1. Has \in Nat
  BY InputIs
<1>2. Found(c) \in SUBSET Nat
  BY <1>1 DEF Found
<1>3. \E i \in Found(c) : \A j \in Found(c) : i <= j
  BY <1>2, Least
<1>4. First(c) \in Found(c) /\ \A j \in Found(c) : First(c) <= j
  BY <1>3 DEF First
<1>5. First(c) \in 1 .. Has /\ Text[Unread[First(c)]] = c
  BY <1>4 DEF Found
<1>6. ASSUME NEW j \in 1 .. First(c) - 1 PROVE Text[Unread[j]] # c
  <2>1. j \in 1 .. Has /\ ~(First(c) <= j)
    BY <1>1, <1>5
  <2> QED  BY <1>4, <2>1 DEF Found
<1> QED  BY <1>5, <1>6

\* Kept gives a call what it keeps.
LEMMA KeptIs ==
    ASSUME NEW s \in Bytestring
    PROVE  Kept(s) \in Bytestring /\ (call.op = "getline" => Kept(s) = s)
<1>1. <<>> \in Bytestring
  BY NoBytes
<1> QED  BY <1>1 DEF Kept

\* A step of getline or dropline keeps Line: the last p bytes consumed match,
\* no plain line end begins before them, and all before them is kept.
LEMMA LineStep ==
    ASSUME PipeTypeOK, InInv, call.op \in {"getline", "dropline"}, call.at = "buffer",
           NEW s, NEW n, NEW p \in Nat, NEW a, CallGoes(s, n, p, a),
           p <= Used', Received' = Received,
           \A j \in 1 .. p : Text[got'[Len(got') - p + j]] = call.eol[j],
           Plain(call.eol) => \A i \in call.from .. Len(got') - p - 1 : Fails(i),
           IF a = "returned" THEN p = Len(call.eol) ELSE p < Len(call.eol),
           call.op = "getline" => Consumed' = s \o Matched'
    PROVE  Counts' /\ Line'
<1>1. /\ call'.op = call.op /\ call'.eol = call.eol /\ call'.from = call.from
      /\ call'.s = s /\ call'.p = p /\ call'.at = a
  BY DEF CallGoes
<1>2. \A i : Fails(i)' <=> Fails(i)
  BY <1>1 DEF Fails
<1>3. call.eol \in Eols
  BY LineFacts
<1>4. Line'
  BY <1>1, <1>2, <1>3 DEF Line
<1> QED  BY <1>1, <1>4, OneKind

LEMMA FindEolInv ==
    ASSUME PipeTypeOK, InInv, FindEol PROVE PipeTypeOK' /\ InInv'
<1>1. call.op \in {"getline", "dropline"} /\ call.at = "buffer" /\ call.p = 0
  BY DEF FindEol, Serving
<1>2. /\ InTypeOK /\ Line /\ Len(call.eol) \in Nat \ {0} /\ call.p < Len(call.eol)
      /\ call.from \in Nat /\ Len(got) \in Nat /\ Matched \in Bytestring /\ Len(Matched) = 0
  BY <1>1, LineFacts
<1>3. /\ Has \in Nat /\ Used \in Nat /\ Unread \in Bytestring /\ Len(Unread) = Has
      /\ Consumed \in Bytestring /\ got \in Bytestring /\ call.s \in Bytestring
      /\ call.n \in Nat /\ SubSeq(Unread, 1, Has) = Unread
      /\ \A t \in Bytestring : t \o <<>> = t /\ <<>> \o t = t
  BY <1>2, Facts, InputIs
<1>4. call.op = "getline" => Consumed = call.s
  <2>1. Matched = <<>>
    BY <1>2, EmptySeq DEF Bytestring
  <2>2. call.op = "getline" => Consumed = call.s \o Matched
    BY <1>2 DEF Line
  <2>3. call.s \o <<>> = call.s
    BY <1>3
  <2> QED  BY <2>1, <2>2, <2>3
<1>5. CASE Found(call.eol[1]) = {}
  <2>1. Refill(Kept(Unread), 0)
    BY <1>5 DEF FindEol
  <2>2. Kept(Unread) \in Bytestring /\ (call.op = "getline" => Kept(Unread) = Unread)
    BY <1>3, KeptIs
  <2>3. /\ PipeTypeOK' /\ InTypeOK' /\ Heard(wire, taken, Received)' /\ Tracks'
        /\ CallGoes(call.s \o Kept(Unread), 0, call.p, "raw") /\ RawWhenEmpty'
        /\ Used' = Used + Has /\ Consumed' = Consumed \o Unread
        /\ Received' = Received /\ got' = got \o Unread
    BY <2>1, <2>2, RefillStep
  <2>4. Len(got') = Len(got) + Has
    BY <1>3, <2>3, Joined
  <2>5. Plain(call.eol) => \A i \in call.from .. Len(got) + Has - 1 : Fails(i)
    <3>1. \A j \in 1 .. Has : Text[Unread[j]] # call.eol[1]
      BY <1>5 DEF Found
    <3>2. Has \in 0 .. Has
      BY <1>3
    <3> QED  BY <1>1, <3>1, <3>2, NoneFound
  <2>6. Plain(call.eol) => \A i \in call.from .. Len(got') - call.p - 1 : Fails(i)
    <3>1. Len(got') - call.p - 1 = Len(got) + Has - 1
      BY <1>1, <1>2, <1>3, <2>4
    <3> QED  BY <2>5, <3>1
  <2>7. call.op = "getline" => Consumed' = (call.s \o Kept(Unread)) \o Matched'
    <3>1. SubSeq(got', Len(got') + 1, Len(got')) = <<>>
      BY <1>2, <1>3, <2>4, SubSeqEmpty
    <3>2. Matched' = SubSeq(got', Len(got') + 1, Len(got'))
      <4>1. call'.p = 0 /\ Len(got') - 0 = Len(got')
        BY <1>1, <1>2, <1>3, <2>3, <2>4 DEF CallGoes
      <4> QED  BY <4>1 DEF Matched
    <3>3. call.op = "getline" => Consumed' = call.s \o Kept(Unread)
      BY <1>4, <2>2, <2>3
    <3>4. call.s \o Kept(Unread) \in Bytestring
      BY <1>3, <2>2, Joined
    <3>5. (call.s \o Kept(Unread)) \o <<>> = call.s \o Kept(Unread)
      BY <1>3, <3>4
    <3> QED  BY <3>1, <3>2, <3>3, <3>5
  <2>8. \A j \in 1 .. call.p : Text[got'[Len(got') - call.p + j]] = call.eol[j]
    BY <1>1
  <2>9. call.p \in Nat /\ call.p <= Used'
    BY <1>1, <1>3, <2>3
  <2>10. Counts' /\ Line'
    BY <1>1, <1>2, <2>3, <2>6, <2>7, <2>8, <2>9, LineStep
  <2> QED  BY <2>3, <2>10 DEF InInv
<1>6. CASE Found(call.eol[1]) # {}
  <2>1. PICK i \in 1 .. Has : /\ i = First(call.eol[1])
                              /\ Text[Unread[i]] = call.eol[1]
                              /\ \A j \in 1 .. i - 1 : Text[Unread[j]] # call.eol[1]
    BY <1>2, <1>6, FirstFound
  <2>2. PICK k \in Nat : i = k + 1 /\ k \in 0 .. Has /\ i - 1 = k /\ i \in Nat
    <3>1. i - 1 \in Nat /\ i = i - 1 + 1 /\ i - 1 \in 0 .. Has /\ i \in Nat
      BY <1>3
    <3> QED  BY <3>1
  <2> DEFINE u == SubSeq(Unread, 1, i)
             v == SubSeq(Unread, 1, k)
             w == SubSeq(Unread, k + 1, i)
             a == IF Len(call.eol) = 1 THEN "returned" ELSE "buffer"
  <2>3. /\ mInIndex' = mInIndex + i /\ got' = got \o u
        /\ call' = [call EXCEPT !.s = @ \o Kept(v), !.p = 1, !.at = a]
        /\ UNCHANGED <<mInBuffer, mInEnd, spoilt, pipe>>
    BY <1>6, <2>1, <2>2 DEF FindEol
  <2>4. /\ u \in Bytestring /\ Len(u) = i /\ v \in Bytestring /\ Len(v) = k
        /\ w \in Bytestring /\ Len(w) = 1 /\ u[i] = Unread[i]
    <3>1. u \in Bytestring /\ Len(u) = i /\ \A j \in 1 .. i : u[j] = Unread[j]
      BY <1>3, <2>2, Front
    <3>2. v \in Bytestring /\ Len(v) = k
      BY <1>3, <2>2, Front
    <3>3. k <= i /\ i <= Len(Unread) /\ i - k = 1
      BY <1>3, <2>2
    <3>4. w \in Bytestring /\ Len(w) = 1
      BY <1>3, <2>2, <3>3, Piece
    <3>5. u[i] = Unread[i]
      BY <2>2, <2>1, <3>1
    <3> HIDE DEF u, v, w
    <3> QED  BY <3>1, <3>2, <3>4, <3>5
  <2>5. u = v \o w
    <3>1. /\ 1 \in 1 .. Len(Unread) + 1 /\ k \in 1 - 1 .. Len(Unread)
          /\ i \in k .. Len(Unread)
      BY <1>3, <2>2
    <3> QED  BY <1>3, <3>1, ConcatAdjacentSubSeq DEF Bytestring
  <2>6. a \in {"buffer", "returned"}
    OBVIOUS
  <2>7. Kept(v) \in Bytestring /\ (call.op = "getline" => Kept(v) = v)
    BY <2>4, KeptIs
  <2> HIDE DEF u, v, w, a
  <2>8. CallGoes(call.s \o Kept(v), call.n, 1, a)
    <3>1. call.s \o Kept(v) \in Bytestring
      BY <1>3, <2>7, Joined
    <3> QED  BY <1>2, <2>3, <2>6, <3>1 DEF InTypeOK, CallRecord, CallGoes
  <2>9. /\ call' \in CallRecord /\ call'.from = call.from /\ call'.p = 1 /\ call'.at = a
    BY <2>8 DEF CallGoes
  <2>10. /\ PipeTypeOK' /\ InTypeOK' /\ Heard(wire, taken, Received)' /\ Tracks'
         /\ Received' = Received /\ Used' = Used + i /\ Consumed' = Consumed \o u
    <3>1. i <= Has
      BY <1>3, <2>1
    <3>2. got' = got \o SubSeq(Unread, 1, i)
      BY <2>3 DEF u
    <3> QED  BY <2>2, <2>3, <2>9, <3>1, <3>2, StepTakes DEF u
  <2>11. /\ Len(got') = Len(got) + i /\ got' \in Bytestring
         /\ got'[Len(got) + i] = Unread[i]
    <3>1. i \in 1 .. Len(u)
      BY <2>2, <2>4
    <3>2. Len(got \o u) = Len(got) + i /\ got \o u \in Bytestring /\ (got \o u)[Len(got) + i] = u[i]
      BY <1>3, <2>4, <3>1, Joined
    <3> QED  BY <2>3, <2>4, <3>2
  <2>12. \A j \in 1 .. 1 : Text[got'[Len(got') - 1 + j]] = call.eol[j]
    <3>1. Len(got') - 1 + 1 = Len(got) + i
      BY <1>2, <2>2, <2>11
    <3> QED  BY <2>1, <2>11, <3>1
  <2>13. Plain(call.eol) => \A l \in call.from .. Len(got') - 1 - 1 : Fails(l)
    <3>1. Len(got') - 1 - 1 = Len(got) + k - 1
      BY <1>2, <2>2, <2>11
    <3>2. \A j \in 1 .. k : Text[Unread[j]] # call.eol[1]
      BY <2>1, <2>2
    <3> QED  BY <1>1, <2>2, <3>1, <3>2, NoneFound
  <2>14. IF a = "returned" THEN 1 = Len(call.eol) ELSE 1 < Len(call.eol)
    <3>1. a = "returned" <=> Len(call.eol) = 1
      BY DEF a
    <3>2. Len(call.eol) # 1 => 1 < Len(call.eol)
      <4>1. \A l \in Nat \ {0} : l # 1 => 1 < l
        OBVIOUS
      <4> QED  BY <1>2, <4>1
    <3> QED  BY <3>1, <3>2
  <2>15. Matched' = w
    <3> DEFINE b == got \o v
               n == Len(b)
    <3>1. b \in Bytestring /\ n = Len(got) + k /\ n \in Nat
      <4>1. b \in Bytestring /\ Len(b) = Len(got) + Len(v)
        BY <1>3, <2>4, Joined
      <4> QED  BY <1>2, <2>2, <2>4, <4>1
    <3>2. got' = b \o w
      BY <1>3, <2>3, <2>4, <2>5, Joins3
    <3>3. Len(got') - 1 = n
      BY <1>2, <2>2, <2>11, <3>1
    <3> HIDE DEF b, n
    <3>4. SubSeq(b \o w, n + 1, Len(b \o w)) = SubSeq(b, n + 1, Len(b)) \o w
      <4>1. n <= Len(b)
        BY <3>1 DEF n
      <4> QED  BY <2>4, <3>1, <4>1, PieceGrows
    <3>5. SubSeq(b, n + 1, Len(b)) = <<>>
      BY <3>1, SubSeqEmpty DEF n
    <3>6. <<>> \o w = w
      BY <1>3, <2>4
    <3>7. Matched' = SubSeq(got', n + 1, Len(got'))
      BY <2>9, <3>3 DEF Matched
    <3> QED  BY <3>2, <3>4, <3>5, <3>6, <3>7
  <2>16. call.op = "getline" => Consumed' = (call.s \o Kept(v)) \o Matched'
    <3>1. call.op = "getline" => Consumed' = Consumed \o (v \o w)
      BY <2>5, <2>10
    <3>2. Consumed \o (v \o w) = (Consumed \o v) \o w
      BY <1>3, <2>4, Joins3
    <3> QED  BY <1>4, <2>7, <2>15, <3>1, <3>2
  <2>17. 1 <= Used' /\ 1 \in Nat
    BY <1>3, <2>2, <2>10
  <2>18. Counts' /\ Line'
    BY <1>1, <2>8, <2>10, <2>12, <2>13, <2>14, <2>16, <2>17, LineStep
  <2>19. RawWhenEmpty'
    BY <2>6, <2>9 DEF RawWhenEmpty
  <2> QED  BY <2>10, <2>18, <2>19 DEF InInv
<1> QED  BY <1>5, <1>6

LEMMA MatchEolInv ==
    ASSUME PipeTypeOK, InInv, MatchEol PROVE PipeTypeOK' /\ InInv'
<1>1. call.op \in {"getline", "dropline"} /\ call.at = "buffer" /\ call.p > 0
  BY DEF MatchEol, Serving
<1> DEFINE p == call.p
<1>2. /\ InTypeOK /\ Line /\ call.eol \in Eols /\ Len(call.eol) \in Nat \ {0}
      /\ p \in Nat /\ p < Len(call.eol) /\ p <= Used
      /\ call.from \in Nat /\ Len(got) \in Nat /\ call.from <= Len(got) - p
      /\ Used = Len(got) - call.from
      /\ Matched \in Bytestring /\ Len(Matched) = p
  BY <1>1, LineFacts
<1>3. /\ Has \in Nat /\ Used \in Nat /\ Unread \in Bytestring /\ Len(Unread) = Has
      /\ Consumed \in Bytestring /\ got \in Bytestring /\ call.s \in Bytestring
      /\ call.n \in Nat /\ (bufempty <=> Has = 0) /\ (Has = 0 => Unread = <<>>)
      /\ <<>> \in Bytestring
      /\ \A t \in Bytestring : t \o <<>> = t /\ <<>> \o t = t
  BY <1>2, Facts, InputIs
<1>4. /\ \A j \in 1 .. p : Text[got[Len(got) - p + j]] = call.eol[j]
      /\ Plain(call.eol) => \A i \in call.from .. Len(got) - p - 1 : Fails(i)
      /\ call.op = "getline" => Consumed = call.s \o Matched
  BY <1>1, <1>2 DEF Line
<1> HIDE DEF p
<1>5. CASE bufempty
  <2>1. Refill(<<>>, 0)
    BY <1>5 DEF MatchEol
  <2>2. /\ PipeTypeOK' /\ InTypeOK' /\ Heard(wire, taken, Received)' /\ Tracks'
        /\ CallGoes(call.s \o <<>>, 0, call.p, "raw") /\ RawWhenEmpty'
        /\ Used' = Used + Has /\ Consumed' = Consumed \o Unread
        /\ Received' = Received /\ got' = got \o Unread
    BY <1>3, <2>1, RefillStep
  <2>3. got' = got /\ Consumed' = Consumed /\ Used' = Used
    <3>1. Unread = <<>> /\ Has = 0
      BY <1>3, <1>5
    <3>2. got \o <<>> = got /\ Consumed \o <<>> = Consumed
      BY <1>3
    <3>3. Used + 0 = Used
      BY <1>3
    <3> QED  BY <2>2, <3>1, <3>2, <3>3
  <2>4. Matched' = Matched
    BY <2>2, <2>3 DEF CallGoes, Matched
  <2>5. CallGoes(call.s, 0, p, "raw")
    <3>1. call.s \o <<>> = call.s
      BY <1>3
    <3> QED  BY <2>2, <3>1 DEF p
  <2>6. p <= Used' /\ Len(got') = Len(got)
    BY <1>2, <2>3
  <2>7. call.op = "getline" => Consumed' = call.s \o Matched'
    BY <1>4, <2>3, <2>4
  <2>8. Counts' /\ Line'
    BY <1>1, <1>2, <1>4, <2>2, <2>3, <2>5, <2>6, <2>7, LineStep
  <2> QED  BY <2>2, <2>8 DEF InInv
<1>6. ASSUME ~bufempty, Text[Unread[1]] = call.eol[p + 1] PROVE PipeTypeOK' /\ InInv'
  <2> DEFINE u == SubSeq(Unread, 1, 1)
             a == IF Len(call.eol) = p + 1 THEN "returned" ELSE "buffer"
             q == p + 1
  <2>1. 1 \in 1 .. Has /\ 1 \in Nat /\ 1 <= Len(Unread) /\ 1 <= Has
    BY <1>3, <1>6
  <2>2. u \in Bytestring /\ Len(u) = 1 /\ u[1] = Unread[1]
    <3>1. u \in Bytestring /\ Len(u) = 1 /\ \A i \in 1 .. 1 : u[i] = Unread[i]
      BY <1>3, <2>1, Front
    <3> QED  BY <3>1
  <2>3. /\ mInIndex' = mInIndex + 1 /\ got' = Append(got, Unread[1])
        /\ call' = [call EXCEPT !.p = @ + 1, !.at = a]
        /\ UNCHANGED <<mInBuffer, mInEnd, spoilt, pipe>>
    BY <1>6 DEF MatchEol, p
  <2>4. a \in {"buffer", "returned"} /\ q \in Nat
    BY <1>2
  <2> HIDE DEF u, a
  <2>5. got' = got \o u
    <3>1. u = <<Unread[1]>>
      <4>1. \A i \in 1 .. 1 : u[i] = <<Unread[1]>>[i]
        BY <2>2
      <4>2. Unread[1] \in Nat
        BY <1>3, <2>1, Positions
      <4>3. <<Unread[1]>> \in Bytestring /\ Len(<<Unread[1]>>) = 1
        BY <4>2 DEF Bytestring
      <4> QED  BY <2>2, <4>1, <4>3, SeqEqual DEF Bytestring
    <3>2. Unread[1] \in Nat
      BY <1>3, <2>1, Positions
    <3>3. Append(got, Unread[1]) = got \o <<Unread[1]>>
      BY <1>3, <3>2, AppendIsConcat DEF Bytestring
    <3> QED  BY <2>3, <3>1, <3>3
  <2>6. CallGoes(call.s, call.n, q, a)
    BY <1>2, <2>3, <2>4 DEF InTypeOK, CallRecord, CallGoes, p
  <2>7. call' \in CallRecord /\ call'.from = call.from /\ call'.p = q /\ call'.at = a
    BY <2>6 DEF CallGoes
  <2>8. /\ PipeTypeOK' /\ InTypeOK' /\ Heard(wire, taken, Received)' /\ Tracks'
        /\ Received' = Received /\ Used' = Used + 1 /\ Consumed' = Consumed \o u
    <3>1. got' = got \o SubSeq(Unread, 1, 1)
      BY <2>5 DEF u
    <3> QED  BY <2>1, <2>3, <2>7, <3>1, StepTakes DEF u
  <2>9. /\ Len(got') = Len(got) + 1 /\ got'[Len(got) + 1] = Unread[1]
        /\ \A i \in 1 .. Len(got) : got'[i] = got[i]
    <3>1. 1 \in 1 .. Len(u)
      BY <2>2
    <3>2. /\ Len(got \o u) = Len(got) + Len(u)
          /\ \A i \in 1 .. Len(got) : (got \o u)[i] = got[i]
          /\ \A i \in 1 .. Len(u) : (got \o u)[Len(got) + i] = u[i]
      BY <1>3, <2>2, Joined
    <3>3. (got \o u)[Len(got) + 1] = u[1]
      BY <3>1, <3>2
    <3> QED  BY <2>2, <2>5, <3>2, <3>3
  <2>10. Len(got') - q = Len(got) - p /\ q <= Used'
    BY <1>2, <1>3, <2>8, <2>9
  <2>11. \A j \in 1 .. q : Text[got'[Len(got') - q + j]] = call.eol[j]
    <3> SUFFICES ASSUME NEW j \in 1 .. p + 1
                 PROVE  Text[got'[Len(got) - p + j]] = call.eol[j]
      BY <2>10
    <3>1. CASE j \in 1 .. p
      <4>1. Len(got) - p + j \in 1 .. Len(got)
        BY <1>2, <3>1
      <4> QED  BY <1>4, <2>9, <3>1, <4>1
    <3>2. CASE j = p + 1
      <4>1. Len(got) - p + j = Len(got) + 1
        BY <1>2, <3>2
      <4> QED  BY <1>6, <2>9, <3>2, <4>1
    <3>3. j \in 1 .. p \/ j = p + 1
      BY <1>2
    <3> QED  BY <3>1, <3>2, <3>3
  <2>12. Plain(call.eol) => \A i \in call.from .. Len(got') - q - 1 : Fails(i)
    BY <1>4, <2>10
  <2>13. IF a = "returned" THEN q = Len(call.eol) ELSE q < Len(call.eol)
    <3>1. a = "returned" <=> Len(call.eol) = q
      BY DEF a
    <3>2. Len(call.eol) # q => q < Len(call.eol)
      BY <1>2
    <3> QED  BY <3>1, <3>2
  <2>14. Matched' = Matched \o u
    <3> DEFINE c == Len(got) - p
    <3>1. c \in Nat /\ c <= Len(got) /\ Len(got') - q = c
      BY <1>2, <2>10
    <3>2. Matched = SubSeq(got, c + 1, Len(got))
      BY DEF Matched, p
    <3> HIDE DEF c
    <3>3. SubSeq(got \o u, c + 1, Len(got \o u)) = SubSeq(got, c + 1, Len(got)) \o u
      BY <1>3, <2>2, <3>1, PieceGrows
    <3>4. Matched' = SubSeq(got', c + 1, Len(got'))
      BY <2>7, <3>1 DEF Matched
    <3> QED  BY <2>5, <3>2, <3>3, <3>4
  <2>15. call.op = "getline" => Consumed' = call.s \o Matched'
    <3>1. (call.s \o Matched) \o u = call.s \o (Matched \o u)
      BY <1>2, <1>3, <2>2, Joins3
    <3> QED  BY <1>4, <2>8, <2>14, <3>1
  <2> HIDE DEF q
  <2>16. Counts' /\ Line'
    BY <1>1, <2>4, <2>6, <2>8, <2>10, <2>11, <2>12, <2>13, <2>15, LineStep
  <2>17. RawWhenEmpty'
    BY <2>4, <2>7 DEF RawWhenEmpty
  <2> QED  BY <2>8, <2>16, <2>17 DEF InInv
<1>7. ASSUME ~bufempty, Text[Unread[1]] # call.eol[p + 1] PROVE PipeTypeOK' /\ InInv'
  <2>1. /\ call' = [call EXCEPT !.s = @ \o Kept(Matched), !.p = 0]
        /\ UNCHANGED <<mInBuffer, mInIndex, mInEnd, got, spoilt, pipe>>
    BY <1>7 DEF MatchEol, p
  <2>2. Kept(Matched) \in Bytestring /\ (call.op = "getline" => Kept(Matched) = Matched)
    BY <1>2, KeptIs
  <2>3. CallGoes(call.s \o Kept(Matched), call.n, 0, "buffer")
    <3>1. call.s \o Kept(Matched) \in Bytestring
      BY <1>3, <2>2, Joined
    <3> QED  BY <1>1, <1>2, <2>1, <3>1 DEF InTypeOK, CallRecord, CallGoes
  <2>4. call' \in CallRecord /\ call'.from = call.from /\ call'.p = 0 /\ call'.at = "buffer"
    BY <2>3 DEF CallGoes
  <2>5. /\ PipeTypeOK' /\ InTypeOK' /\ Heard(wire, taken, Received)' /\ Tracks'
        /\ Received' = Received /\ got' = got /\ Consumed' = Consumed /\ Used' = Used
    BY <2>1, <2>4, StepKeeps DEF Consumed, Used
  <2>6. Plain(call.eol) => \A i \in call.from .. Len(got') - 0 - 1 : Fails(i)
    <3> SUFFICES ASSUME Plain(call.eol), NEW i \in call.from .. Len(got) - 1 PROVE Fails(i)
      <4>1. Len(got') - 0 - 1 = Len(got) - 1
        BY <1>2, <2>5
      <4> QED  BY <4>1
    <3>1. i \in Nat /\ Received \in Bytestring /\ Len(Received) = Len(got) + Has
      BY <1>2, InputIs
    <3>2. CASE i < Len(got) - p
      <4>1. i \in call.from .. Len(got) - p - 1
        BY <1>2, <3>1, <3>2
      <4> QED  BY <1>4, <4>1
    <3>3. CASE i = Len(got) - p
      <4>1. 1 \in 1 .. Has /\ 1 <= Has
        BY <1>3, <1>7
      <4>2. Len(got) + 1 <= Len(Received) /\ Received[Len(got) + 1] = Unread[1]
        BY <1>2, <4>1, NextReceived
      <4>3. p + 1 \in 1 .. Len(call.eol) /\ i + (p + 1) = Len(got) + 1
        BY <1>2, <3>3
      <4>4. i + (p + 1) <= Len(Received) /\ Text[Received[i + (p + 1)]] # call.eol[p + 1]
        BY <1>7, <4>2, <4>3
      <4> QED  BY <4>3, <4>4 DEF Fails
    <3>4. CASE i > Len(got) - p
      <4> DEFINE j == i - (Len(got) - p) + 1
      <4>1. j \in 2 .. p /\ j \in 1 .. p /\ j \in 2 .. Len(call.eol) - 1
            /\ i + 1 = Len(got) - p + j /\ i + 1 \in 1 .. Len(got)
        BY <1>2, <3>1, <3>4
      <4> HIDE DEF j
      <4>2. Received[i + 1] = got[i + 1]
        BY <1>3, <4>1, Joined DEF Received
      <4>3. call.eol[j] # call.eol[1]
        BY <4>1 DEF Plain
      <4>4. Text[Received[i + 1]] # call.eol[1]
        BY <1>4, <4>1, <4>2, <4>3
      <4>5. i + 1 <= Len(Received)
        BY <1>2, <1>3, <3>1, <4>1
      <4> QED  BY <1>2, <3>1, <4>4, <4>5, NotFirst
    <3>5. i < Len(got) - p \/ i = Len(got) - p \/ i > Len(got) - p
      BY <1>2, <3>1
    <3> QED  BY <3>2, <3>3, <3>4, <3>5
  <2>7. call.op = "getline" => Consumed' = (call.s \o Kept(Matched)) \o Matched'
    <3>1. Matched' = <<>>
      <4>1. Len(got') - 0 = Len(got)
        BY <1>2, <2>5
      <4>2. Matched' = SubSeq(got, Len(got) + 1, Len(got))
        BY <2>4, <2>5, <4>1 DEF Matched
      <4>3. SubSeq(got, Len(got) + 1, Len(got)) = <<>>
        BY <1>2, SubSeqEmpty
      <4> QED  BY <4>2, <4>3
    <3>2. call.s \o Matched \in Bytestring
      BY <1>2, <1>3, Joined
    <3>3. (call.s \o Matched) \o <<>> = call.s \o Matched
      BY <1>3, <3>2
    <3> QED  BY <1>4, <2>2, <2>5, <3>1, <3>3
  <2>8. /\ 0 <= Used' /\ 0 \in Nat /\ 0 < Len(call.eol)
        /\ \A j \in 1 .. 0 : Text[got'[Len(got') - 0 + j]] = call.eol[j]
    BY <1>2, <1>3, <2>5
  <2>9. Counts' /\ Line'
    BY <1>1, <2>3, <2>5, <2>6, <2>7, <2>8, LineStep
  <2>10. RawWhenEmpty'
    BY <2>4 DEF RawWhenEmpty
  <2> QED  BY <2>5, <2>9, <2>10 DEF InInv
<1> QED  BY <1>5, <1>6, <1>7

-----------------------------------------------------------------------------
(* The two halves together.                                                 *)
LEMMA ReaderStep ==
    ASSUME PipeTypeOK, InInv, Reader PROVE PipeTypeOK' /\ InInv'
BY AsksInv, GetSomeInv, GetNInv, GetSpanInv, GetAllInv, FindEolInv, MatchEolInv,
   ReadInv, TryReadInv, PeekNInv, FillBufInv, ReadRawInv, EndOfFileInv, ReadFailsInv
   DEF Reader, Serve, Raw

\* A reader leaves what is in the pipe.
LEMMA ReaderLeaves ==
    ASSUME Reader PROVE UNCHANGED <<wire, closed>>
<1>1. UNCHANGED pipe => UNCHANGED <<wire, closed>>
  BY DEF pipe
<1>2. CASE Asks
  BY <1>1, <1>2 DEF Asks, Ask
<1>3. CASE GetSome
  <2>1. call.op \in {"getchar", "peekchar", "getchunk"}
    BY <1>3 DEF GetSome, Serving
  <2> QED  BY <1>1, <1>3, <2>1 DEF GetSome, Refill, Take
<1>4. CASE GetN \/ GetSpan \/ GetAll \/ Read \/ TryRead
  BY <1>1, <1>4 DEF GetN, GetSpan, GetAll, Read, TryRead, Refill, Take
<1>5. CASE FindEol \/ MatchEol \/ PeekN
  BY <1>1, <1>5 DEF FindEol, MatchEol, PeekN, Refill
<1>6. CASE Raw \/ ReadFails
  BY <1>1, <1>6 DEF Raw, FillBuf, ReadRaw, EndOfFile, ReadFails
<1> QED  BY <1>2, <1>3, <1>4, <1>5, <1>6 DEF Reader, Serve

LEMMA OutStays ==
    ASSUME OutInv, UNCHANGED <<out, wire, closed>> PROVE OutInv'
<1>1. UNCHANGED <<mOutBuffer, mOutIndex, todo, sent, offered, given, failures, resent,
                  bypassed, wire, closed>>
  BY DEF out
<1>2. Buffered' = Buffered
  BY <1>1 DEF Buffered
<1>3. OutTypeOK' /\ Flushing'
  BY <1>1 DEF OutInv, OutTypeOK, Flushing, Begun
<1>4. Ordered(todo', given', offered')
  BY <1>1 DEF OutInv
<1>5. /\ KeptAll(wire', Buffered', sent', given')
      /\ ~bypassed' /\ ~resent' => Exact(wire', Buffered', sent', given')
      /\ ~bypassed' => InTurn((wire \o Buffered)', given')
  BY <1>1, <1>2 DEF OutInv
<1> QED  BY <1>3, <1>4, <1>5 DEF OutInv

\* Strings that agree up to b have the same pieces up to b.
LEMMA SamePiece ==
    ASSUME NEW s \in Bytestring, NEW t \in Bytestring, NEW a \in Nat, NEW b \in Nat,
           a <= b, b <= Len(s), b <= Len(t), \A i \in 1 .. b : s[i] = t[i]
    PROVE  SubSeq(s, a + 1, b) = SubSeq(t, a + 1, b)
<1> DEFINE p == SubSeq(s, a + 1, b)
           q == SubSeq(t, a + 1, b)
<1>1. p \in Bytestring /\ Len(p) = b - a /\ \A i \in 1 .. b - a : p[i] = s[a + i]
  BY Piece
<1>2. q \in Bytestring /\ Len(q) = b - a /\ \A i \in 1 .. b - a : q[i] = t[a + i]
  BY Piece
<1> HIDE DEF p, q
<1>3. ASSUME NEW i \in 1 .. b - a PROVE p[i] = q[i]
  <2>1. a + i \in 1 .. b
    OBVIOUS
  <2> QED  BY <1>1, <1>2, <2>1
<1>4. p = q
  BY <1>1, <1>2, <1>3, SeqEqual DEF Bytestring
<1> QED  BY <1>4 DEF p, q

\* What the writer puts into the pipe does not change what the reader has.
LEMMA InStays ==
    ASSUME PipeTypeOK, InInv, WireGrows, UNCHANGED in PROVE InInv'
<1>1. /\ InTypeOK /\ Heard(wire, taken, Received) /\ Tracks
      /\ RawWhenEmpty /\ Counts /\ Line
      /\ UNCHANGED <<mInBuffer, mInIndex, mInEnd, call, got, spoilt, taken>>
  BY DEF InInv, in, WireGrows
<1>2. wire \in Bytestring /\ Len(wire) \in Nat /\ taken \in Nat /\ taken <= Len(wire)
  BY Positions DEF PipeTypeOK
<1>3. PICK u \in Bytestring : wire' = wire \o u
  BY DEF WireGrows
<1>4. wire \o u \in Bytestring /\ Len(wire \o u) = Len(wire) + Len(u) /\ Len(u) \in Nat
      /\ \A i \in 1 .. Len(wire) : (wire \o u)[i] = wire[i]
  BY <1>2, Joined, Positions
<1>5. /\ Unread' = Unread /\ Has' = Has /\ (bufempty' <=> bufempty) /\ Received' = Received
      /\ Consumed' = Consumed /\ Used' = Used /\ Matched' = Matched
  BY <1>1 DEF Unread, Has, bufempty, Received, Consumed, Used, Matched
<1>6. InTypeOK' /\ RawWhenEmpty'
  BY <1>1, <1>5 DEF InTypeOK, RawWhenEmpty
<1>7. Heard(wire \o u, taken, Received)
  <2>1. \A i \in DOMAIN Received : \E j \in 1 .. taken : Received[i] = (wire \o u)[j]
    <3>1. \A j \in 1 .. taken : (wire \o u)[j] = wire[j]
      BY <1>2, <1>4
    <3> QED  BY <1>1, <3>1 DEF Heard
  <2>2. Rising(wire \o u) => Rising(Received)
    BY <1>1, <1>2, RisingParts DEF Heard
  <2> QED  BY <2>1, <2>2 DEF Heard
<1>8. SubSeq(wire \o u, 0 + 1, taken) = SubSeq(wire, 0 + 1, taken)
  <2>1. \A i \in 1 .. taken : (wire \o u)[i] = wire[i]
    BY <1>2, <1>4
  <2>2. taken <= Len(wire \o u) /\ 0 <= taken
    BY <1>2, <1>4
  <2> QED  BY <1>2, <1>4, <2>1, <2>2, SamePiece
<1>9. Heard(wire, taken, Received)' /\ Tracks'
  <2>1. 0 + 1 = 1
    OBVIOUS
  <2> QED  BY <1>1, <1>3, <1>5, <1>7, <1>8, <2>1 DEF Tracks
<1>10. AtEof => AtEof'
  BY <1>1 DEF AtEof, WireGrows
<1>11. Counts'
  BY <1>1, <1>5, <1>10 DEF Counts, Answered, Peeked
<1>12. Line'
  <2>1. \A i : Fails(i)' <=> Fails(i)
    BY <1>1, <1>5 DEF Fails
  <2> QED  BY <1>1, <1>5, <2>1 DEF Line
<1> QED  BY <1>6, <1>9, <1>11, <1>12 DEF InInv

LEMMA StepInv ==
    ASSUME IInv, [Next]_vars PROVE IInv'
<1>1. PipeTypeOK /\ OutInv /\ InInv
  BY DEF IInv
<1>2. CASE Writer /\ UNCHANGED in
  BY <1>1, <1>2, WriterStep, InStays DEF IInv
<1>3. CASE Reader /\ UNCHANGED out
  BY <1>1, <1>3, ReaderStep, ReaderLeaves, OutStays DEF IInv
<1>4. CASE UNCHANGED vars
  <2>1. UNCHANGED <<out, wire, closed, taken>> /\ UNCHANGED in
    BY <1>4 DEF vars, pipe
  <2>2. closed' \in BOOLEAN /\ (closed => closed')
    BY <1>1, <2>1 DEF PipeTypeOK
  <2>3. PipeTypeOK' /\ WireGrows
    BY <1>1, <2>1, <2>2, PipeGrows
  <2> QED  BY <1>1, <2>1, <2>3, OutStays, InStays DEF IInv
<1> QED  BY <1>2, <1>3, <1>4 DEF Next

LEMMA InitInv ==
    ASSUME Init PROVE IInv
<1>1. /\ wire = <<>> /\ taken = 0 /\ closed = FALSE
      /\ mOutBuffer = <<>> /\ mOutIndex = 0 /\ todo = <<>> /\ sent = 0 /\ offered = 0
      /\ given = <<>> /\ resent = FALSE /\ bypassed = FALSE
      /\ mInBuffer = <<>> /\ mInIndex = 0 /\ mInEnd = 0 /\ call = NoCall /\ got = <<>>
      /\ spoilt = FALSE
  BY DEF Init, PipeInit, OutInit, InInit
<1>2. <<>> \in Bytestring
  BY DEF Bytestring
<1>3. Len(<<>>) = 0 /\ Rising(<<>>) /\ <<>> \o <<>> = <<>> /\ DOMAIN <<>> = {}
  BY <1>2, NoBytes
<1>4. SubSeq(<<>>, 1, 0) = <<>>
  BY SubSeqEmpty
<1>5. PipeTypeOK
  <2>1. wire \in Bytestring /\ Len(wire) = 0 /\ taken = 0 /\ closed = FALSE
    BY <1>1, <1>2, <1>3
  <2>2. taken \in 0 .. Len(wire)
    BY <2>1
  <2>3. closed \in BOOLEAN
    BY <2>1
  <2> QED  BY <2>1, <2>2, <2>3 DEF PipeTypeOK
<1>6. OutInv
  <2>1. Buffered = <<>> /\ wire \o Buffered = <<>>
    BY <1>1, <1>3, <1>4 DEF Buffered
  <2>2. OutTypeOK
    <3>1. /\ mOutBuffer \in Bytestring /\ given \in Bytestring /\ Len(mOutBuffer) = 0
          /\ mOutIndex = 0 /\ sent = 0 /\ offered = 0 /\ resent = FALSE /\ bypassed = FALSE
      BY <1>1, <1>2, <1>3
    <3>2. todo \in Seq(Part)
      BY <1>1
    <3>3. mOutIndex \in 0 .. Len(mOutBuffer) /\ sent \in 0 .. mOutIndex /\ offered \in Nat
      BY <3>1
    <3>4. resent \in BOOLEAN /\ bypassed \in BOOLEAN
      BY <3>1
    <3> QED  BY <3>1, <3>2, <3>3, <3>4 DEF OutTypeOK
  <2>3. Ordered(todo, given, offered) /\ Flushing
    BY <1>1, <1>3 DEF Ordered, UpTo, Flushing
  <2>4. KeptAll(wire, Buffered, sent, given)
    BY <1>1, <2>1 DEF KeptAll
  <2>5. Exact(wire, Buffered, sent, given)
    BY <1>1, <1>3, <1>4, <2>1, SubSeqEmpty DEF Exact
  <2>6. InTurn(wire \o Buffered, given)
    BY <1>1, <1>3, <2>1 DEF InTurn
  <2> QED  BY <2>2, <2>3, <2>4, <2>5, <2>6 DEF OutInv
<1>7. InInv
  <2>1. Unread = <<>> /\ Received = <<>>
    BY <1>1, <1>3, SubSeqEmpty DEF Unread, Received
  <2>2. call \in CallRecord /\ call.op = "none" /\ call.from = 0 /\ call.at = "returned"
    BY <1>1, <1>2 DEF NoCall, CallRecord, Op
  <2>3. InTypeOK
    <3>1. /\ mInBuffer \in Bytestring /\ Len(mInBuffer) = 0
          /\ got \in Bytestring /\ Len(got) = 0
          /\ mInIndex = 0 /\ mInEnd = 0 /\ spoilt = FALSE
      BY <1>1, <1>2, <1>3
    <3>2. /\ mInEnd \in 0 .. Len(mInBuffer) /\ mInIndex \in 0 .. mInEnd
          /\ call.from <= Len(got)
      BY <2>2, <3>1
    <3>3. spoilt \in BOOLEAN
      BY <3>1
    <3> QED  BY <2>2, <3>1, <3>2, <3>3 DEF InTypeOK
  <2>4. Heard(wire, taken, Received) /\ Tracks
    BY <1>1, <1>3, <1>4, <2>1 DEF Heard, Tracks
  <2>5. RawWhenEmpty /\ Counts /\ Line
    BY <2>2 DEF RawWhenEmpty, Counts, Copies, Line
  <2> QED  BY <2>3, <2>4, <2>5 DEF InInv
<1> QED  BY <1>5, <1>6, <1>7 DEF IInv

(* The two streams keep their types and their order: what the writer has    *)
(* taken over is in the pipe or in its buffer, what the reader has received *)
(* is a part of what came out of the pipe, and each call has served itself  *)
(* from just the bytes that were the next.                                  *)
THEOREM Invariant == Spec => []IInv
BY InitInv, StepInv, PTL DEF Spec

-----------------------------------------------------------------------------
(* What the invariant says of the properties.                               *)
LEMMA RisingIncreases ==
    ASSUME NEW s \in Bytestring, Rising(s) PROVE Increasing(s)
<1>1. Len(s) \in Nat /\ DOMAIN s = 1 .. Len(s)
  BY Positions
<1> SUFFICES ASSUME NEW i \in 1 .. Len(s) - 1 PROVE s[i] < s[i + 1]
  BY DEF Increasing
<1>2. i \in DOMAIN s /\ i + 1 \in DOMAIN s /\ i < i + 1
  BY <1>1
<1> QED  BY <1>2 DEF Rising

LEMMA EndToEndHolds ==
    ASSUME IInv PROVE EndToEnd
<1>1. /\ PipeTypeOK /\ OutTypeOK /\ InTypeOK /\ Ordered(todo, given, offered)
      /\ ~bypassed /\ ~resent => Exact(wire, Buffered, sent, given)
      /\ Heard(wire, taken, Received) /\ Tracks
  BY DEF IInv, OutInv, InInv
<1>2. /\ wire \in Bytestring /\ mOutBuffer \in Bytestring /\ Len(mOutBuffer) \in Nat
      /\ mOutIndex \in Nat /\ mOutIndex <= Len(mOutBuffer)
      /\ sent \in Nat /\ sent <= mOutIndex /\ Received \in Bytestring
  BY <1>1, Positions, InputIs DEF PipeTypeOK, OutTypeOK
<1>3. ASSUME ~bypassed, ~resent
      PROVE  given = wire \o Unsent /\ Increasing(got \o Unread)
  <2>1. Unsent \in Bytestring
    BY <1>2, Piece DEF Unsent
  <2>2. given = wire \o Unsent
    <3>1. SubSeq(Buffered, sent + 1, Len(Buffered)) = Unsent
      BY <1>1, BufferedIs
    <3> QED  BY <1>1, <1>3, <3>1 DEF Exact
  <2>3. Rising(wire \o Unsent)
    BY <1>1, <2>2 DEF Ordered
  <2>4. Rising(Received)
    BY <1>1, <1>2, <2>1, <2>3, RisingParts DEF Heard
  <2> QED  BY <1>2, <2>2, <2>4, RisingIncreases DEF Received
<1>4. ~spoilt => SubSeq(wire, 1, taken) = got \o Unread
  BY <1>1 DEF Tracks, Received
<1> QED  BY <1>3, <1>4 DEF EndToEnd

LEMMA AtLeastOnceHolds ==
    ASSUME IInv PROVE AtLeastOnce
<1>1. /\ Ordered(todo, given, offered) /\ KeptAll(wire, Buffered, sent, given)
      /\ ~bypassed => InTurn(wire \o Buffered, given)
      /\ given \in Bytestring
  BY DEF IInv, OutInv, OutTypeOK
<1>2. Range(wire \o Buffered) = Range(given)
  BY <1>1 DEF KeptAll
<1>3. ASSUME ~bypassed, NEW m \in DOMAIN given, NEW j \in DOMAIN (wire \o Buffered),
             (wire \o Buffered)[j] = given[m], NEW k \in 1 .. m - 1
      PROVE  \E i \in 1 .. j - 1 : (wire \o Buffered)[i] = given[k]
  <2>1. k \in DOMAIN given /\ k < m
    BY <1>1, Positions
  <2>2. given[k] < (wire \o Buffered)[j]
    BY <1>1, <1>3, <2>1 DEF Ordered, Rising
  <2> QED  BY <1>1, <1>3, <2>1, <2>2 DEF InTurn
<1> QED  BY <1>2, <1>3 DEF AtLeastOnce

\* While peekn has spoilt nothing, the bytes behind the start of the call are
\* the next of the pipe: those consumed, and then the unread ones.
LEMMA AheadIs ==
    ASSUME PipeTypeOK, InInv, ~spoilt, NEW k \in Nat, call.from + k <= Len(Received)
    PROVE  Ahead(k) = SubSeq(Received, call.from + 1, call.from + k)
<1>1. /\ InTypeOK /\ SubSeq(wire, 1, taken) = Received
      /\ wire \in Bytestring /\ Len(wire) \in Nat /\ taken \in Nat /\ taken <= Len(wire)
  BY Positions DEF InInv, Tracks, PipeTypeOK
<1>2. Received \in Bytestring /\ call.from \in Nat /\ Len(Received) \in Nat
  BY <1>1, InputIs, Positions
<1>3. Len(Received) = taken /\ \A i \in 1 .. taken : Received[i] = wire[i]
  BY <1>1, Front
<1> DEFINE a == call.from
           b == call.from + k
<1>4. /\ a \in Nat /\ b \in Nat /\ a <= b /\ b <= Len(Received) /\ b <= Len(wire)
      /\ wire \in Bytestring /\ Received \in Bytestring
  BY <1>1, <1>2, <1>3
<1>5. \A i \in 1 .. b : wire[i] = Received[i]
  BY <1>1, <1>3, <1>4
<1> HIDE DEF a, b
<1>6. SubSeq(wire, a + 1, b) = SubSeq(Received, a + 1, b)
  BY <1>4, <1>5, SamePiece
<1> QED  BY <1>6 DEF a, b, Ahead

LEMMA AheadConsumed ==
    ASSUME PipeTypeOK, InInv, ~spoilt
    PROVE  /\ Ahead(Used) = Consumed
           /\ \A n \in 0 .. Used : Ahead(n) = SubSeq(Consumed, 1, n)
<1>1. InTypeOK
  BY DEF InInv
<1>2. /\ got \in Bytestring /\ Len(got) \in Nat /\ call.from \in Nat /\ call.from <= Len(got)
      /\ Used \in Nat /\ Used = Len(got) - call.from /\ Consumed \in Bytestring
      /\ Len(Consumed) = Used /\ Unread \in Bytestring /\ Has \in Nat
      /\ Received \in Bytestring /\ Len(Received) = Len(got) + Has
  BY <1>1, InputIs DEF Used
<1>3. \A i \in 1 .. Len(got) : Received[i] = got[i]
  BY <1>2, Joined DEF Received
<1>4. ASSUME NEW n \in 0 .. Used PROVE Ahead(n) = SubSeq(Consumed, 1, n)
  <2> DEFINE a == call.from
             b == call.from + n
             l == Len(got)
  <2>1. /\ n \in Nat /\ a \in Nat /\ b \in Nat /\ l \in Nat /\ b <= l /\ a <= b
        /\ b <= Len(Received) /\ b <= Len(got) /\ l <= Len(got) /\ b = a + n
    BY <1>2
  <2>2. Ahead(n) = SubSeq(Received, a + 1, b)
    BY <2>1, AheadIs
  <2>3. \A i \in 1 .. b : Received[i] = got[i]
    BY <1>2, <1>3, <2>1
  <2>4. Consumed = SubSeq(got, a + 1, l)
    BY DEF Consumed
  <2> HIDE DEF a, b, l
  <2>5. SubSeq(Received, a + 1, b) = SubSeq(got, a + 1, b)
    <3>1. Received \in Bytestring /\ got \in Bytestring
      BY <1>2
    <3> QED  BY <2>1, <2>3, <3>1, SamePiece
  <2>6. SubSeq(SubSeq(got, a + 1, l), 1, n) = SubSeq(got, a + 1, b)
    <3>1. got \in Bytestring
      BY <1>2
    <3> QED  BY <2>1, <3>1, FirstOfPiece
  <2> QED  BY <2>2, <2>4, <2>5, <2>6
<1>5. Ahead(Used) = Consumed
  <2>1. Used \in 0 .. Used
    BY <1>2
  <2>2. SubSeq(Consumed, 1, Used) = Consumed
    BY <1>2, SubSeqFull DEF Bytestring
  <2> QED  BY <1>4, <2>1, <2>2
<1> QED  BY <1>4, <1>5

LEMMA AheadUnread ==
    ASSUME PipeTypeOK, InInv, ~spoilt, Used = 0, NEW k \in Nat, k <= Has
    PROVE  Ahead(k) = SubSeq(Unread, 1, k)
<1>1. InTypeOK
  BY DEF InInv
<1>2. /\ got \in Bytestring /\ Len(got) \in Nat /\ call.from \in Nat
      /\ call.from <= Len(got) /\ Unread \in Bytestring /\ Len(Unread) = Has /\ Has \in Nat
      /\ Received \in Bytestring /\ Len(Received) = Len(got) + Has
  BY <1>1, InputIs
<1>3. call.from = Len(got)
  BY <1>2 DEF Used
<1> DEFINE a == Len(got)
           b == a + k
<1>4. a \in Nat /\ b \in Nat /\ a <= b /\ b <= Len(Received) /\ b - a = k
      /\ call.from + k <= Len(Received)
  BY <1>2, <1>3
<1>5. Ahead(k) = SubSeq(Received, a + 1, b)
  BY <1>3, <1>4, AheadIs
<1>6. \A i \in 1 .. Has : Received[a + i] = Unread[i]
  BY <1>2, Joined DEF Received
<1> HIDE DEF a, b
<1> DEFINE p == SubSeq(Received, a + 1, b)
           q == SubSeq(Unread, 1, k)
<1>7. p \in Bytestring /\ Len(p) = k /\ \A i \in 1 .. k : p[i] = Received[a + i]
  <2>1. p \in Bytestring /\ Len(p) = b - a /\ \A i \in 1 .. b - a : p[i] = Received[a + i]
    BY <1>2, <1>4, Piece
  <2> HIDE DEF p
  <2> QED  BY <1>4, <2>1
<1>8. q \in Bytestring /\ Len(q) = k /\ \A i \in 1 .. k : q[i] = Unread[i]
  BY <1>2, Front
<1> HIDE DEF p, q
<1>9. \A i \in 1 .. k : p[i] = q[i]
  BY <1>2, <1>6, <1>7, <1>8
<1>10. p = q
  BY <1>7, <1>8, <1>9, SeqEqual DEF Bytestring
<1> QED  BY <1>5, <1>10 DEF p, q

\* A line that has been got ends with a line end, and with the first plain one.
LEMMA LineAnswers ==
    ASSUME PipeTypeOK, InInv, call.op \in {"getline", "dropline"}, call.at = "returned"
    PROVE  /\ Len(got) - Len(call.eol) \in LineEnds
           /\ Plain(call.eol) => LineEnds = {Len(got) - Len(call.eol)}
           /\ Len(call.eol) \in Nat /\ Len(call.eol) <= Used
           /\ call.op = "getline" => call.s = SubSeq(Consumed, 1, Used - Len(call.eol))
<1> DEFINE e == Len(call.eol)
<1>1. InTypeOK /\ Line
  BY DEF InInv
<1>2. call.eol \in Eols /\ call.p = e /\ call.p <= Used
  BY <1>1 DEF Line
<1>3. e \in Nat
  BY <1>2, EolIs
<1>4. /\ \A j \in 1 .. e : Text[got[Len(got) - e + j]] = call.eol[j]
      /\ Plain(call.eol) => \A i \in call.from .. Len(got) - e - 1 : Fails(i)
      /\ call.op = "getline" => Consumed = call.s \o Matched
  BY <1>1, <1>2 DEF Line
<1>5. /\ got \in Bytestring /\ Len(got) \in Nat /\ call.from \in Nat
      /\ call.from <= Len(got) /\ Unread \in Bytestring /\ Used = Len(got) - call.from
      /\ Consumed \in Bytestring /\ Len(Consumed) = Used
  BY <1>1, InputIs DEF Used
<1>6. \A i \in 1 .. Len(got) : Received[i] = got[i]
  BY <1>5, Joined DEF Received
<1>7. e <= Used
  BY <1>2
<1>8. Len(got) - e \in call.from .. Len(got) /\ Len(got) - e + e = Len(got)
  BY <1>3, <1>5, <1>7
<1>9. EolAt(Len(got) - e)
  <2>1. Len(got) - e + Len(call.eol) <= Len(got)
    BY <1>3, <1>5
  <2>2. \A j \in 1 .. Len(call.eol) : Text[got[Len(got) - e + j]] = call.eol[j]
    BY <1>4
  <2> QED  BY <2>1, <2>2 DEF EolAt
<1>10. ASSUME Plain(call.eol), NEW i \in call.from .. Len(got), EolAt(i)
       PROVE  i = Len(got) - e
  <2>1. i + e <= Len(got) /\ \A j \in 1 .. e : Text[got[i + j]] = call.eol[j]
    BY <1>10 DEF EolAt
  <2>2. CASE i < Len(got) - e
    <3>1. i \in call.from .. Len(got) - e - 1
      BY <1>3, <1>5, <2>2
    <3>2. PICK j \in 1 .. e : Text[Received[i + j]] # call.eol[j]
      BY <1>4, <1>10, <3>1 DEF Fails
    <3>3. i + j \in 1 .. Len(got)
      BY <1>3, <1>5, <2>1
    <3> QED  BY <1>6, <2>1, <3>2, <3>3
  <2> QED  BY <1>3, <1>5, <2>1, <2>2
<1>11. call.op = "getline" => call.s = SubSeq(Consumed, 1, Used - e)
  <2> SUFFICES ASSUME call.op = "getline" PROVE call.s = SubSeq(Consumed, 1, Used - e)
    OBVIOUS
  <2>1. call.s \in Bytestring /\ Matched \in Bytestring /\ Len(Matched) = e
    <3> DEFINE a == Len(got) - e
    <3>1. a \in Nat /\ a <= Len(got) /\ Len(got) - a = e
      BY <1>3, <1>5, <1>7
    <3> HIDE DEF a
    <3>2. SubSeq(got, a + 1, Len(got)) \in Bytestring
          /\ Len(SubSeq(got, a + 1, Len(got))) = Len(got) - a
      BY <1>5, <3>1, Piece
    <3>3. Matched = SubSeq(got, a + 1, Len(got))
      BY <1>2 DEF Matched, a
    <3> QED  BY <1>1, <3>1, <3>2, <3>3, CallIs
  <2> DEFINE t == call.s
             n == Len(t)
  <2>2. t \in Bytestring /\ n \in Nat /\ Consumed = t \o Matched /\ Consumed \in Bytestring
    BY <1>4, <1>5, <2>1, Positions
  <2> HIDE DEF t
  <2>3. /\ Len(t \o Matched) = n + e /\ \A i \in 1 .. n : (t \o Matched)[i] = t[i]
    <3>1. /\ Len(t \o Matched) = Len(t) + Len(Matched)
          /\ \A i \in 1 .. Len(t) : (t \o Matched)[i] = t[i]
      BY <2>1, <2>2, Joined
    <3>2. Len(Matched) = e
      BY <2>1
    <3> QED  BY <3>1, <3>2
  <2>4. SubSeq(t, 1, n) = t /\ n <= Len(t)
    BY <2>2, SubSeqFull DEF Bytestring
  <2> HIDE DEF n, e
  <2>5. Used - e = n /\ 0 <= n /\ n <= Len(Consumed)
    <3>1. Used = n + e /\ Len(Consumed) = n + e
      BY <1>5, <2>2, <2>3
    <3> QED  BY <1>3, <2>2, <3>1
  <2>6. SubSeq(Consumed, 0 + 1, n) = SubSeq(t, 0 + 1, n)
    BY <2>2, <2>3, <2>4, <2>5, SamePiece
  <2>7. 0 + 1 = 1
    OBVIOUS
  <2> QED  BY <2>4, <2>5, <2>6, <2>7 DEF t
<1> QED  BY <1>3, <1>7, <1>8, <1>9, <1>10, <1>11 DEF LineEnds

LEMMA CallsAnswerHolds ==
    ASSUME IInv PROVE CallsAnswer
<1> SUFFICES ASSUME call.at = "returned", ~spoilt PROVE CallsAnswer
  BY DEF CallsAnswer
<1>1. PipeTypeOK /\ InInv /\ InTypeOK /\ Counts /\ Answered /\ call.op \in Op
  BY CallIs DEF IInv, InInv, Answered
<1>2. Used \in Nat /\ Has \in Nat
  BY <1>1, InputIs
<1>3. Ahead(Used) = Consumed /\ \A n \in 0 .. Used : Ahead(n) = SubSeq(Consumed, 1, n)
  BY <1>1, AheadConsumed
<1>4. call.op \in Copies => call.s = Ahead(Used)
  BY <1>1, <1>3 DEF Counts
<1>5. call.op \in {"peekchar", "peekn"} => call.s = Ahead(Peeked) /\ Used = 0
  <2> SUFFICES ASSUME call.op \in {"peekchar", "peekn"}
               PROVE  call.s = Ahead(Peeked) /\ Used = 0
    OBVIOUS
  <2>1. Used = 0 /\ Peeked <= Has /\ call.s = SubSeq(Unread, 1, Peeked)
    BY <1>1 DEF Counts
  <2>2. Peeked \in Nat
    BY <1>1, CallIs DEF Peeked
  <2> QED  BY <1>1, <2>1, <2>2, AheadUnread
<1>6. CASE call.op = "getchar"
  BY <1>1, <1>4, <1>6 DEF CallsAnswer, Counts, Copies
<1>7. CASE call.op = "peekchar"
  BY <1>5, <1>7 DEF CallsAnswer, Peeked
<1>8. CASE call.op = "getn"
  BY <1>1, <1>4, <1>8 DEF CallsAnswer, Counts, Copies
<1>9. CASE call.op = "dropn"
  BY <1>1, <1>9 DEF CallsAnswer, Counts
<1>10. CASE call.op = "getspan"
  BY <1>10 DEF CallsAnswer
<1>11. CASE call.op = "peekn"
  BY <1>5, <1>11 DEF CallsAnswer, Peeked
<1>12. CASE call.op = "getchunk"
  BY <1>1, <1>4, <1>12 DEF CallsAnswer, Counts, Copies
<1>13. CASE call.op \in {"read", "tryread"}
  BY <1>1, <1>4, <1>13 DEF CallsAnswer, Counts, Copies
<1>14. CASE call.op = "getall"
  BY <1>1, <1>4, <1>14 DEF CallsAnswer, Counts, Copies
<1>15. CASE call.op = "dropall"
  BY <1>1, <1>15 DEF CallsAnswer, Counts
<1>16. CASE call.op \in {"getline", "dropline"}
  <2>1. /\ Len(got) - Len(call.eol) \in LineEnds
        /\ Plain(call.eol) => LineEnds = {Len(got) - Len(call.eol)}
        /\ Len(call.eol) \in Nat /\ Len(call.eol) <= Used
        /\ call.op = "getline" => call.s = SubSeq(Consumed, 1, Used - Len(call.eol))
    BY <1>1, <1>16, LineAnswers
  <2>2. Used - Len(call.eol) \in 0 .. Used
    BY <1>2, <2>1
  <2>3. call.op = "getline" => call.s = Ahead(Used - Len(call.eol))
    BY <1>3, <2>1, <2>2
  <2> QED  BY <1>16, <2>1, <2>3 DEF CallsAnswer
<1>17. CASE call.op = "none"
  BY <1>17 DEF CallsAnswer
<1> QED  BY <1>1, <1>6, <1>7, <1>8, <1>9, <1>10, <1>11, <1>12, <1>13, <1>14, <1>15, <1>16,
            <1>17 DEF Op

(* However calls are mixed and however short the raw reads and writes are,  *)
(* bytes go through both buffers once and in order, unless a write went     *)
(* past a full buffer, a flush failed half-way, or peekn spoilt the buffer. *)
THEOREM BytesInOrder == Spec => []EndToEnd
BY Invariant, EndToEndHolds, PTL

(* A failed flush loses nothing: what the stream took over is in the pipe   *)
(* or in the buffer, and a byte comes for the first time after all those    *)
(* that were taken over before it.                                          *)
THEOREM NothingLost == Spec => []AtLeastOnce
BY Invariant, AtLeastOnceHolds, PTL

(* What a call answers and what it leaves for the next one, for every text, *)
(* size of the buffer and line end, in however many pieces the line end     *)
(* came: of every call but getspan, as long as peekn has spoilt nothing,    *)
(* and that a line is the shortest one, of the plain line ends.             *)
THEOREM EachCallAnswers == Spec => []CallsAnswer
BY Invariant, CallsAnswerHolds, PTL
=============================================================================
