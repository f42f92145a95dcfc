-------------------------- MODULE IOContextProofs --------------------------
(***************************************************************************)
(* The event loop, for every finite set of coroutines that the counter can *)
(* count, none of which makes zero-copy sends: nothing is counted twice,   *)
(* and run() leaves nobody behind.                                         *)
(***************************************************************************)
EXTENDS IOContext, FiniteSetTheorems, SequenceTheorems, TLAPS

\* What makes the loop safe: one completion per operation, and a counter
\* that does not wrap.
Plain == ZeroCopy = {} /\ IsFiniteSet(Co) /\ Cardinality(Co) < Width

-----------------------------------------------------------------------------
(* Sequences without repetitions, as the ring and the batch are.            *)

\* Appending a new element adds it to the range.
LEMMA AppendRange ==
    ASSUME NEW S, NEW s \in Seq(S), NEW e \in S, e \notin Range(s), IsInjective(s)
    PROVE  /\ Append(s, e) \in Seq(S)
           /\ Range(Append(s, e)) = Range(s) \cup {e}
           /\ IsInjective(Append(s, e))
<1> DEFINE a == Append(s, e)
<1>1. /\ a \in Seq(S) /\ Len(a) = Len(s) + 1 /\ DOMAIN a = 1 .. Len(a)
      /\ \A i \in 1 .. Len(s) : a[i] = s[i]
      /\ a[Len(s) + 1] = e
  BY AppendProperties, LenProperties
<1>2. Len(s) \in Nat /\ DOMAIN s = 1 .. Len(s)
  BY LenProperties
<1> HIDE DEF a
<1>3. Range(a) = Range(s) \cup {e}
  BY <1>1, <1>2 DEF Range
<1>4. IsInjective(a)
  BY <1>1, <1>2 DEF Range, IsInjective
<1> QED  BY <1>1, <1>3, <1>4 DEF a

\* Taking the first element removes it.
LEMMA TailRange ==
    ASSUME NEW S, NEW s \in Seq(S), s # <<>>, IsInjective(s)
    PROVE  /\ Head(s) \in Range(s) /\ Head(s) \in S /\ Tail(s) \in Seq(S)
           /\ Range(Tail(s)) = Range(s) \ {Head(s)}
           /\ IsInjective(Tail(s))
<1> DEFINE t == Tail(s)
<1>1. /\ t \in Seq(S) /\ Len(t) = Len(s) - 1 /\ DOMAIN t = 1 .. Len(t)
      /\ \A i \in 1 .. Len(t) : t[i] = s[i + 1]
  BY HeadTailProperties, LenProperties
<1>2. Len(s) \in Nat \ {0} /\ DOMAIN s = 1 .. Len(s)
  BY LenProperties, EmptySeq
<1>3. Head(s) = s[1] /\ Head(s) \in S
  BY HeadTailProperties
<1> HIDE DEF t
<1>4. Range(t) = Range(s) \ {s[1]}
  <2>1. ASSUME NEW i \in 1 .. Len(t)
        PROVE  t[i] \in Range(s) \ {s[1]}
    <3>1. i + 1 \in DOMAIN s /\ 1 \in DOMAIN s /\ i + 1 # 1
      BY <1>1, <1>2
    <3> QED  BY <3>1, <1>1 DEF Range, IsInjective
  <2>2. ASSUME NEW j \in 1 .. Len(s), s[j] # s[1]
        PROVE  s[j] \in Range(t)
    <3>1. j - 1 \in 1 .. Len(t) /\ (j - 1) + 1 = j
      BY <1>1, <1>2, <2>2
    <3> QED  BY <3>1, <1>1 DEF Range
  <2>3. Range(t) = {t[i] : i \in 1 .. Len(t)} /\ Range(s) = {s[j] : j \in 1 .. Len(s)}
    BY <1>1, <1>2 DEF Range
  <2>4. Range(t) \subseteq Range(s) \ {s[1]}
    BY <2>1, <2>3
  <2>5. Range(s) \ {s[1]} \subseteq Range(t)
    BY <2>2, <2>3
  <2> QED  BY <2>4, <2>5
<1>5. IsInjective(t)
  BY <1>1, <1>2 DEF IsInjective
<1> QED  BY <1>1, <1>2, <1>3, <1>4, <1>5 DEF t, Range

\* Its range has as many elements as it is long.
LEMMA RangeSize ==
    ASSUME NEW S, NEW s \in Seq(S), IsInjective(s)
    PROVE  /\ IsFiniteSet(Range(s)) /\ Range(s) \subseteq S
           /\ Cardinality(Range(s)) = Len(s)
<1>1. Len(s) \in Nat /\ DOMAIN s = 1 .. Len(s) /\ s \in [1 .. Len(s) -> S]
  BY LenProperties
<1>2. s \in Surjection(1 .. Len(s), Range(s)) /\ s \in Injection(1 .. Len(s), Range(s))
  BY <1>1 DEF Surjection, Injection, Range
<1>3. IsFiniteSet(1 .. Len(s)) /\ Cardinality(1 .. Len(s)) = Len(s)
  BY <1>1, FS_Interval
<1> QED  BY <1>1, <1>2, <1>3, FS_Surjection DEF Range

\* Each of its elements occurs once.
LEMMA OccursOnce ==
    ASSUME NEW S, NEW s \in Seq(S), IsInjective(s), NEW c
    PROVE  Occurrences(s, c) = Entry(Range(s), c)
<1>1. CASE c \in Range(s)
  <2>1. PICK i \in DOMAIN s : s[i] = c
    BY <1>1 DEF Range
  <2>2. {j \in DOMAIN s : s[j] = c} = {i}
    BY <2>1 DEF IsInjective
  <2> QED  BY <1>1, <2>2, FS_Singleton DEF Occurrences, Entry
<1>2. CASE c \notin Range(s)
  <2>1. {j \in DOMAIN s : s[j] = c} = {}
    BY <1>2 DEF Range
  <2> QED  BY <1>2, <2>1, FS_EmptySet DEF Occurrences, Entry
<1> QED  BY <1>1, <1>2

-----------------------------------------------------------------------------
USE IOContextAssumption
    DEF TypeOK, Phase, State, OneRuns, Located, Apart, BatchFirst, Exited,
        NothingAbandoned, user, uring, Idle

\* The operations in the ring or the kernel are no more than the coroutines.
LEMMA UncompletedSize ==
    ASSUME IInv, Plain
    PROVE  /\ IsFiniteSet(sq) /\ IsFiniteSet(kernel) /\ IsFiniteSet(Uncompleted)
           /\ Uncompleted \subseteq Co
           /\ Cardinality(Uncompleted) \in Nat /\ Cardinality(Uncompleted) < Width
           /\ \A S \in SUBSET Co : IsFiniteSet(S) /\ Cardinality(S) \in Nat
                                   /\ Cardinality(S) < Width
<1>1. \A S \in SUBSET Co : IsFiniteSet(S) /\ Cardinality(S) \in Nat
                           /\ Cardinality(S) < Width
  BY FS_Subset, FS_CardinalityType DEF Plain
<1>2. sq \subseteq Co /\ kernel \subseteq Co /\ Range(cq) \subseteq Co
  BY RangeSize DEF IInv
<1>3. Uncompleted \subseteq Co
  BY <1>2 DEF Uncompleted
<1> QED  BY <1>1, <1>2, <1>3

\* Below the width of the counter, the remainder changes nothing.
LEMMA NoWrap ==
    ASSUME NEW n \in Nat, n < Width
    PROVE  n % Width = n /\ (n + Width) % Width = n
OBVIOUS

LEMMA InitInv == Init => IInv
<1> SUFFICES ASSUME Init
             PROVE  IInv
  OBVIOUS
<1>1. Range(cq) = {} /\ Range(batch) = {} /\ IsInjective(cq) /\ IsInjective(batch)
      /\ cq \in Seq(Co) /\ batch \in Seq(Co)
  BY DEF Init, Range, IsInjective
<1>2. Uncompleted = {} /\ Cardinality({}) = 0
  BY <1>1, FS_EmptySet DEF Init, Uncompleted
<1>3. TypeOK
  BY <1>1, <1>2 DEF Init
<1> QED  BY <1>1, <1>2, <1>3 DEF Init, IInv, PendingIsUncompleted

-----------------------------------------------------------------------------
\* An entry is prepared for a coroutine that has none: it is counted, whether
\* the ring is full or not.
LEMMA GetSqeCounts ==
    ASSUME IInv, Plain, NEW c \in Co, c \notin Uncompleted, GetSqe(c), UNCHANGED cq
    PROVE  /\ sq' \subseteq Co /\ Cardinality(sq') <= Entries
           /\ kernel' \subseteq Co
           /\ sq' \cup kernel' = sq \cup kernel \cup {c} /\ sq' \cap kernel' = {}
           /\ Uncompleted' = Uncompleted \cup {c}
           /\ PendingIsUncompleted' /\ mNumSqesPending' \in 0 .. Width - 1
<1> USE DEF IInv
<1>1. c \notin sq /\ c \notin kernel
  BY DEF Uncompleted
<1>2. /\ sq' \subseteq Co /\ Cardinality(sq') <= Entries
      /\ kernel' \subseteq Co
      /\ sq' \cup kernel' = sq \cup kernel \cup {c} /\ sq' \cap kernel' = {}
  <2>1. CASE Cardinality(sq) < Entries
    <3>1. Cardinality(sq \cup {c}) = Cardinality(sq) + 1 /\ Cardinality(sq) \in Nat
      BY <1>1, UncompletedSize, FS_AddElement
    <3>2. Cardinality(sq \cup {c}) <= Entries
      BY <2>1, <3>1
    <3> QED  BY <1>1, <2>1, <3>2 DEF GetSqe
  <2>2. CASE ~(Cardinality(sq) < Entries)
    <3>1. Cardinality({c}) = 1
      BY FS_Singleton
    <3>2. sq' = {c} /\ kernel' = kernel \cup sq
      BY <2>2 DEF GetSqe
    <3>3. Cardinality(sq') <= Entries
      BY <3>1, <3>2
    <3>4. sq \subseteq Co /\ kernel \subseteq Co
      OBVIOUS
    <3> QED  BY <1>1, <3>2, <3>3, <3>4
  <2> QED  BY <2>1, <2>2
<1>3. Uncompleted' = Uncompleted \cup {c}
  BY <1>2 DEF Uncompleted
<1>4. Cardinality(Uncompleted \cup {c}) = Cardinality(Uncompleted) + 1
      /\ Cardinality(Uncompleted \cup {c}) < Width
      /\ Cardinality(Uncompleted \cup {c}) \in Nat
  BY UncompletedSize, FS_AddElement
<1>5. mNumSqesPending' = Cardinality(Uncompleted')
  BY <1>3, <1>4, NoWrap DEF GetSqe, PendingIsUncompleted
<1> QED  BY <1>2, <1>3, <1>4, <1>5 DEF PendingIsUncompleted

LEMMA StartIoInv ==
    ASSUME IInv, Plain, NEW c \in Co, StartIo(c)
    PROVE  IInv'
<1> USE DEF IInv, StartIo, Runs, Yield
<1>1. c \notin Uncompleted /\ c \notin Range(batch) /\ st[c] \in {"new", "run"}
  OBVIOUS
<1>2. /\ sq' \subseteq Co /\ Cardinality(sq') <= Entries
      /\ kernel' \subseteq Co
      /\ sq' \cup kernel' = sq \cup kernel \cup {c} /\ sq' \cap kernel' = {}
      /\ Uncompleted' = Uncompleted \cup {c}
      /\ PendingIsUncompleted' /\ mNumSqesPending' \in 0 .. Width - 1
  BY <1>1, GetSqeCounts
<1>3. TypeOK'
  <2>1. st' \in [Co -> State] /\ left' \in [Co -> 0 .. Quota]
    OBVIOUS
  <2>2. running' \in Co \cup {Nobody}
    OBVIOUS
  <2> QED  BY <1>2, <2>1, <2>2
<1>4. OneRuns' /\ BatchFirst' /\ Exited'
  OBVIOUS
<1>5. Located'
  BY <1>2
<1>6. Apart'
  BY <1>1, <1>2 DEF Uncompleted
<1> QED  BY <1>2, <1>3, <1>4, <1>5, <1>6

\* What leaves the entries and handles where they are keeps them apart.
LEMMA SameUring ==
    ASSUME UNCHANGED uring
    PROVE  /\ Uncompleted' = Uncompleted /\ Range(cq)' = Range(cq)
           /\ Range(batch)' = Range(batch)
           /\ (Apart => Apart') /\ (PendingIsUncompleted => PendingIsUncompleted')
BY DEF Uncompleted, PendingIsUncompleted

LEMMA SleepInv ==
    ASSUME IInv, NEW c \in Co, NEW e \in 0 .. MaxTime, Sleep(c, e)
    PROVE  IInv'
<1> USE DEF IInv, Sleep, Runs, Yield
<1>1. TypeOK'
  OBVIOUS
<1>2. OneRuns' /\ BatchFirst' /\ Exited'
  OBVIOUS
<1>3. Located'
  BY SameUring
<1> QED  BY <1>1, <1>2, <1>3, SameUring

LEMMA EndInv ==
    ASSUME IInv, NEW c \in Co, End(c)
    PROVE  IInv'
<1> USE DEF IInv, End, Runs, Yield
<1>1. TypeOK'
  OBVIOUS
<1>2. OneRuns' /\ BatchFirst' /\ Exited'
  OBVIOUS
<1>3. Located'
  BY SameUring
<1> QED  BY <1>1, <1>2, <1>3, SameUring

-----------------------------------------------------------------------------
\* A step that moves only the thread's position keeps the entries.
LEMMA PhaseInv ==
    ASSUME IInv, UNCHANGED <<now, user, uring>>, phase' \in Phase,
           batch # <<>> => phase' = "resume",
           phase' = "exited" => running = Nobody
                                /\ \A c \in Co : st[c] \in {"new", "end"}
    PROVE  IInv'
<1> USE DEF IInv
<1>1. TypeOK'
  OBVIOUS
<1>2. OneRuns' /\ BatchFirst' /\ Exited'
  OBVIOUS
<1>3. Located'
  BY SameUring
<1> QED  BY <1>1, <1>2, <1>3, SameUring

LEMMA RunInv == ASSUME IInv, Run PROVE IInv'
BY PhaseInv DEF Run, IInv

\* run() returns: no timer is left, and a count of zero means that no
\* operation is left either, nor a handle of a batch.
LEMMA StopOrWaitInv == ASSUME IInv, Plain, StopOrWait PROVE IInv'
<1> USE DEF IInv, StopOrWait
<1>1. CASE Sleeping = {} /\ ~HasPendingEvents
  <2>1. Uncompleted = {}
    BY <1>1, UncompletedSize, FS_EmptySet DEF HasPendingEvents, PendingIsUncompleted
  <2>2. batch = <<>> /\ Range(batch) = {}
    BY DEF Range
  <2>3. \A c \in Co : st[c] # "io" /\ st[c] # "sleep" /\ st[c] # "run"
    BY <1>1, <2>1, <2>2 DEF Sleeping
  <2>4. \A c \in Co : st[c] \in {"new", "end"}
    BY <2>3
  <2>5. phase' = "exited" /\ UNCHANGED <<now, user, uring>>
    BY <1>1
  <2> QED  BY <2>2, <2>4, <2>5, PhaseInv
<1>2. CASE ~(Sleeping = {} /\ ~HasPendingEvents)
  <2>1. phase' = "submit" /\ UNCHANGED <<now, user, uring>>
    BY <1>2
  <2> QED  BY <2>1, PhaseInv
<1> QED  BY <1>1, <1>2

LEMMA InterruptedInv == ASSUME IInv, Interrupted PROVE IInv'
BY PhaseInv DEF Interrupted, IInv

LEMMA TimedOutInv == ASSUME IInv, TimedOut PROVE IInv'
BY PhaseInv DEF TimedOut, IInv

LEMMA BatchDoneInv == ASSUME IInv, BatchDone PROVE IInv'
BY PhaseInv DEF BatchDone, IInv

LEMMA TickInv == ASSUME IInv, Tick PROVE IInv'
<1> USE DEF IInv, Tick
<1>1. TypeOK'
  OBVIOUS
<1>2. OneRuns' /\ BatchFirst' /\ Exited'
  OBVIOUS
<1>3. Located'
  BY SameUring
<1> QED  BY <1>1, <1>2, <1>3, SameUring

LEMMA FireTimerInv == ASSUME IInv, FireTimer PROVE IInv'
<1> USE DEF IInv, FireTimer, Resume
<1>1. PICK c \in Front : Resume(c)
  OBVIOUS
<1>2. c \in Co /\ st[c] = "sleep"
  BY DEF Front, Sleeping
<1>3. TypeOK'
  BY <1>1, <1>2
<1>4. OneRuns' /\ BatchFirst' /\ Exited'
  BY <1>1, <1>2
<1>5. Located'
  BY <1>1, <1>2, SameUring
<1> QED  BY <1>3, <1>4, <1>5, SameUring

\* The kernel takes all prepared entries: none is left or counted again.
LEMMA SubmitInv == ASSUME IInv, Submit PROVE IInv'
<1> USE DEF IInv, Submit
<1>1. Uncompleted' = Uncompleted /\ Range(batch)' = Range(batch) /\ Range(cq)' = Range(cq)
  BY DEF Uncompleted
<1>2. TypeOK'
  <2>1. Cardinality(sq') <= Entries
    BY FS_EmptySet
  <2> QED  BY <2>1
<1>3. OneRuns' /\ BatchFirst' /\ Exited'
  OBVIOUS
<1>4. Located'
  BY <1>1
<1>5. Apart'
  BY <1>1 DEF Uncompleted
<1> QED  BY <1>1, <1>2, <1>3, <1>4, <1>5 DEF PendingIsUncompleted

\* As many completions are counted down as are collected, and they are of
\* as many operations.
LEMMA CollectInv == ASSUME IInv, Plain, Collect PROVE IInv'
<1> USE DEF IInv, Collect
<1>1. batch = <<>> /\ Range(batch) = {}
  BY DEF Range
<1>2. Range(cq)' = {} /\ Range(batch)' = Range(cq)
  BY DEF Range
<1>3. Uncompleted' = Uncompleted \ Range(cq)
  BY <1>2 DEF Uncompleted
<1>4. Uncompleted' \cup Range(batch)' = Uncompleted
  BY <1>2, <1>3 DEF Uncompleted
<1>5. /\ Cardinality(Uncompleted') = Cardinality(Uncompleted) - Len(cq)
      /\ Cardinality(Uncompleted') \in Nat /\ Cardinality(Uncompleted') < Width
      /\ Len(cq) \in Nat
  <2>1. Cardinality(Range(cq)) = Len(cq) /\ Uncompleted \cap Range(cq) = Range(cq)
    BY RangeSize DEF Uncompleted
  <2>2. IsFiniteSet(Uncompleted) /\ Uncompleted \subseteq Co
    BY UncompletedSize
  <2>3. Cardinality(Uncompleted \ Range(cq))
        = Cardinality(Uncompleted) - Cardinality(Uncompleted \cap Range(cq))
    BY <2>2, FS_Difference
  <2>4. Cardinality(Uncompleted') \in Nat /\ Cardinality(Uncompleted') < Width
    BY <1>3, <2>2, UncompletedSize
  <2>5. Len(cq) \in Nat
    BY LenProperties
  <2> QED  BY <1>3, <2>1, <2>3, <2>4, <2>5
<1>6. mNumSqesPending' = Cardinality(Uncompleted')
  <2>1. mNumSqesPending + Width - Len(cq) = Cardinality(Uncompleted') + Width
    BY <1>5, UncompletedSize DEF PendingIsUncompleted
  <2> QED  BY <1>5, <2>1, NoWrap DEF Got
<1>7. TypeOK'
  <2>1. cq' \in Seq(Co) /\ batch' \in Seq(Co)
    OBVIOUS
  <2>2. mNumSqesPending' \in 0 .. Width - 1
    BY <1>5, <1>6
  <2> QED  BY <2>1, <2>2
<1>8. OneRuns' /\ BatchFirst' /\ Exited'
  OBVIOUS
<1>9. Located'
  BY <1>1, <1>4
<1>10. Apart'
  <2>1. IsInjective(cq') /\ IsInjective(batch')
    BY DEF IsInjective
  <2> QED  BY <1>2, <1>3, <2>1
<1> QED  BY <1>6, <1>7, <1>8, <1>9, <1>10 DEF PendingIsUncompleted

\* A handle is resumed and is gone from the batch.
LEMMA ResumeNextInv == ASSUME IInv, ResumeNext PROVE IInv'
<1> USE DEF IInv, ResumeNext, Resume
<1> DEFINE c == Head(batch)
<1>1. /\ c \in Range(batch) /\ c \in Co /\ batch' \in Seq(Co)
      /\ Range(batch)' = Range(batch) \ {c} /\ IsInjective(batch')
  BY TailRange
<1>2. st[c] = "io" /\ c \notin Uncompleted
  BY <1>1
<1>3. Uncompleted' = Uncompleted /\ Range(cq)' = Range(cq)
  BY DEF Uncompleted
<1>4. running' = c /\ st' = [st EXCEPT ![c] = "run"] /\ running = Nobody
  OBVIOUS
<1> HIDE DEF c
<1>5. TypeOK'
  <2>1. st' \in [Co -> State] /\ running' \in Co
    BY <1>1, <1>4
  <2> QED  BY <1>1, <2>1
<1>6. OneRuns' /\ BatchFirst' /\ Exited'
  BY <1>1, <1>4
<1>7. Located'
  BY <1>1, <1>2, <1>3, <1>4
<1>8. Apart'
  BY <1>1, <1>3
<1> QED  BY <1>3, <1>5, <1>6, <1>7, <1>8 DEF PendingIsUncompleted

\* Without zero-copy sends an operation completes once.
LEMMA CompleteInv == ASSUME IInv, Plain, NEW c \in Co, Complete(c) PROVE IInv'
<1> USE DEF IInv, Complete
<1>1. kernel' = kernel \ {c} /\ sent' \subseteq ZeroCopy /\ cq' = Append(cq, c)
  BY DEF Plain
<1>2. c \in kernel /\ c \notin sq /\ c \notin Range(cq)
  OBVIOUS
<1>3. /\ cq' \in Seq(Co) /\ Range(cq)' = Range(cq) \cup {c} /\ IsInjective(cq')
  BY <1>1, <1>2, AppendRange
<1>4. Uncompleted' = Uncompleted /\ Range(batch)' = Range(batch)
  BY <1>1, <1>2, <1>3 DEF Uncompleted
<1>5. TypeOK'
  BY <1>1, <1>3
<1>6. OneRuns' /\ BatchFirst' /\ Exited'
  OBVIOUS
<1>7. Located'
  BY <1>4
<1>8. Apart'
  BY <1>1, <1>2, <1>3, <1>4
<1> QED  BY <1>4, <1>5, <1>6, <1>7, <1>8 DEF PendingIsUncompleted

LEMMA StepInv == ASSUME IInv, Plain, [Next]_vars PROVE IInv'
<1>1. ASSUME NEW c \in Co, Code(c) \/ Complete(c)
      PROVE  IInv'
  BY <1>1, StartIoInv, EndInv, SleepInv, CompleteInv DEF Code
<1>2. CASE Loop
  BY <1>2, RunInv, FireTimerInv, StopOrWaitInv, SubmitInv, InterruptedInv,
     TimedOutInv, CollectInv, ResumeNextInv, BatchDoneInv DEF Loop
<1>3. CASE UNCHANGED vars
  <2>1. UNCHANGED <<now, user, uring>> /\ phase' = phase
    BY <1>3 DEF vars
  <2>2. phase \in Phase /\ (batch # <<>> => phase = "resume")
        /\ (phase = "exited" => running = Nobody
                                /\ \A c \in Co : st[c] \in {"new", "end"})
    BY DEF IInv
  <2> QED  BY <2>1, <2>2, PhaseInv
<1> QED  BY <1>1, <1>2, <1>3, TickInv DEF Next, Terminated

(* The inductive invariant: every entry, completion and handle belongs to a *)
(* coroutine that is suspended for it, and is counted until it is collected *)
(* (IOContext::run, waitEventsFor, getSqe).                                 *)
THEOREM Invariant == Plain /\ Spec => []IInv
<1> SUFFICES ASSUME Plain
             PROVE  Spec => []IInv
  OBVIOUS
<1>1. IInv /\ [Next]_vars => IInv'
  BY StepInv
<1> QED  BY InitInv, <1>1, PTL DEF Spec

(* mNumSqesPending is the "Number of uncompleted SQEs" (platform_io.hpp:89) *)
(* in every state, so that hasPendingEvents() is right.                     *)
THEOREM PendingExact == Plain /\ Spec => []PendingIsUncompleted
<1>1. IInv => PendingIsUncompleted
  BY DEF IInv
<1> QED  BY <1>1, Invariant, PTL

(* run() returns only when no coroutine sleeps or waits for an operation    *)
(* (IOContext::run, runOnce).                                               *)
THEOREM NobodyAbandoned == Plain /\ Spec => []NothingAbandoned
<1>1. IInv => NothingAbandoned
  BY DEF IInv
<1> QED  BY <1>1, Invariant, PTL

(* A coroutine that waits for an operation has one entry, completion or     *)
(* handle for it, and the others have none: waitEventsFor resumes each      *)
(* once, and no coroutine that has gone on.                                 *)
THEOREM EachResumedOnce == Plain /\ Spec => []ResumedOnce
<1>1. IInv => ResumedOnce
  <2> SUFFICES ASSUME IInv, NEW c \in Co
               PROVE  Traces(c) = IF st[c] = "io" THEN 1 ELSE 0
    BY DEF ResumedOnce
  <2>1. /\ Occurrences(cq, c) = Entry(Range(cq), c)
        /\ Occurrences(batch, c) = Entry(Range(batch), c)
    BY OccursOnce DEF IInv
  <2>2. st[c] = "io" <=> c \in sq \cup kernel \cup Range(cq) \cup Range(batch)
    BY DEF IInv, Uncompleted
  <2>3. /\ c \in sq => c \notin kernel /\ c \notin Range(cq) /\ c \notin Range(batch)
        /\ c \in kernel => c \notin Range(cq) /\ c \notin Range(batch)
        /\ c \in Range(cq) => c \notin Range(batch)
    BY DEF IInv, Uncompleted
  <2> QED  BY <2>1, <2>2, <2>3 DEF Traces, Entry
<1> QED  BY <1>1, Invariant, PTL
=============================================================================
