---------------------------- MODULE QueueProofs ----------------------------
(***************************************************************************)
(* Queue, for every capacity, every set of tasks and every way to use the  *)
(* queue: no pop sleeps on work, and each step is a step of the bounded    *)
(* FIFO.                                                                   *)
(***************************************************************************)
EXTENDS Queue, FiniteSetTheorems, SequenceTheorems, TLAPS

USE QueueAssumption

Position == 0 .. Capacity

\* A position wraps once at most.
LEMMA Wrap ==
    ASSUME NEW n \in 0 .. 2 * Capacity + 1
    PROVE  n % (Capacity + 1) = IF n <= Capacity THEN n ELSE n - (Capacity + 1)
<1>1. Capacity \in Nat
  OBVIOUS
<1>2. CASE n <= Capacity
  BY <1>1, <1>2
<1>3. CASE n > Capacity
  <2>1. n - (Capacity + 1) \in 0 .. Capacity
    BY <1>1, <1>3
  <2>2. n = 1 * (Capacity + 1) + (n - (Capacity + 1))
    BY <1>1
  <2> QED  BY <1>1, <1>3, <2>1, <2>2
<1> QED  BY <1>1, <1>2, <1>3

\* The number of values from position r to position w.
LEMMA Between ==
    ASSUME NEW r \in Position, NEW w \in Position
    PROVE  (w + Capacity + 1 - r) % (Capacity + 1)
               = IF r <= w THEN w - r ELSE w + Capacity + 1 - r
<1> DEFINE n == w + Capacity + 1 - r
<1>1. Capacity \in Nat
  OBVIOUS
<1>2. n \in 0 .. 2 * Capacity + 1
  BY <1>1 DEF Position
<1>3. n % (Capacity + 1) = IF n <= Capacity THEN n ELSE n - (Capacity + 1)
  BY <1>2, Wrap
<1> QED  BY <1>1, <1>3 DEF Position

\* Where the i-th of the values from position r is.
Slot(r, i) == (r + i - 1) % (Capacity + 1)

LEMMA SlotIs ==
    ASSUME NEW r \in Position, NEW i \in 1 .. Capacity + 1
    PROVE  /\ Slot(r, i) = IF r + i - 1 <= Capacity THEN r + i - 1
                                                   ELSE r + i - 2 - Capacity
           /\ Slot(r, i) \in Position
<1> DEFINE n == r + i - 1
<1>1. Capacity \in Nat
  OBVIOUS
<1>2. n \in 0 .. 2 * Capacity + 1
  BY <1>1 DEF Position
<1>3. n % (Capacity + 1) = IF n <= Capacity THEN n ELSE n - (Capacity + 1)
  BY <1>2, Wrap
<1>4. Slot(r, i) = IF n <= Capacity THEN n ELSE n - (Capacity + 1)
  BY <1>3 DEF Slot
<1> QED  BY <1>1, <1>4 DEF Position

Positions == mRead \in Position /\ mWrite \in Position

LEMMA LengthIs ==
    ASSUME Positions
    PROVE  /\ Length = IF mRead <= mWrite THEN mWrite - mRead
                                          ELSE mWrite + Capacity + 1 - mRead
           /\ Length \in 0 .. Capacity
           /\ Length = 0 <=> Empty
           /\ Length = Capacity <=> Full
<1>1. Capacity \in Nat
  OBVIOUS
<1>2. Length = IF mRead <= mWrite THEN mWrite - mRead
                                  ELSE mWrite + Capacity + 1 - mRead
  BY Between DEF Positions, Length
<1> QED  BY <1>1, <1>2 DEF Positions, Position, Empty, Full, Succ, mTail

LEMMA NextLength ==
    ASSUME Positions'
    PROVE  Length' = IF mRead' <= mWrite' THEN mWrite' - mRead'
                                          ELSE mWrite' + Capacity + 1 - mRead'
BY Between DEF Positions, Length

LEMMA PushLength ==
    ASSUME Positions, ~Full, NEW v, RingPush(v)
    PROVE  Positions' /\ Length' = Length + 1
<1>1. Positions'
  BY DEF Positions, Position, RingPush, Succ, mTail
<1> QED
  BY <1>1, NextLength, LengthIs DEF Positions, Position, RingPush, Full, Succ, mTail

LEMMA PopLength ==
    ASSUME Positions, ~Empty, RingPop
    PROVE  Positions' /\ Length' = Length - 1
<1>1. Positions'
  BY DEF Positions, Position, RingPop, Succ, mTail
<1> QED
  BY <1>1, NextLength, LengthIs DEF Positions, Position, RingPop, Empty, Succ, mTail

-----------------------------------------------------------------------------
Waits == [Task -> [st : OpState, val : {0, 1},
                   mask : SUBSET (kNonEmptyMask \cup kNonFullMask)]]
Calling == [kind : {"none", "push", "pop"}, val : Value \cup {None},
            canceled : BOOLEAN]

\* The waits that a wake can find, whichever mask it is sent with.
Wakeable(o) == QueuedIn(o, CountOne)

\* What wakes make of the waits o: only sleepers are woken, and one at least.
Woken(o, p) ==
    /\ p \in Waits
    /\ \A t \in Task :
        \/ p[t] = o[t]
        \/ /\ t \in Wakeable(o) /\ p[t].st = "woken"
           /\ p[t].val = o[t].val /\ p[t].mask = o[t].mask
    /\ Wakeable(o) = {} \/ \E u \in Wakeable(o) : p[u].st = "woken"

LEMMA WokenIs ==
    ASSUME NEW o \in Waits, NEW p \in CvWokenOne(o, CountOne)
    PROVE  Woken(o, p)
<1>1. /\ First(o, CountOne) \subseteq Wakeable(o)
      /\ First(o, CountOne) = {} => Wakeable(o) = {}
  BY DEF First, Wakeable
<1>2. CASE First(o, CountOne) = {}
  BY <1>1, <1>2 DEF CvWokenOne, Woken
<1>3. CASE First(o, CountOne) # {}
  <2>1. PICK u \in First(o, CountOne) : p = [o EXCEPT ![u].st = "woken"]
    BY <1>3 DEF CvWokenOne
  <2>2. u \in Wakeable(o) /\ u \in Task
    BY <1>1 DEF Wakeable, QueuedIn
  <2>3. p \in Waits
    BY <2>1, <2>2 DEF Waits, OpState, Done
  <2>4. /\ p[u].st = "woken" /\ p[u].val = o[u].val /\ p[u].mask = o[u].mask
        /\ \A t \in Task \ {u} : p[t] = o[t]
    BY <2>1, <2>2 DEF Waits
  <2> QED  BY <2>2, <2>3, <2>4 DEF Woken
<1> QED  BY <1>2, <1>3

\* Nr(mask) is one or two.
LEMMA WokenTwice ==
    ASSUME NEW o \in Waits, NEW p, Woken(o, p), NEW q, Woken(p, q)
    PROVE  Woken(o, q)
<1>1. p \in Waits /\ q \in Waits
  BY DEF Woken
<1>2. \A t \in Task : t \in Wakeable(p) => t \in Wakeable(o) /\ p[t] = o[t]
  BY DEF Woken, Wakeable, QueuedIn
<1>3. \A t \in Task : p[t].st = "woken" => q[t].st = "woken"
  BY DEF Woken, Wakeable, QueuedIn
<1>4. \A t \in Task :
        \/ q[t] = o[t]
        \/ /\ t \in Wakeable(o) /\ q[t].st = "woken"
           /\ q[t].val = o[t].val /\ q[t].mask = o[t].mask
  BY <1>2 DEF Woken
<1>5. Wakeable(o) \subseteq Task
  BY DEF Wakeable, QueuedIn
<1> QED  BY <1>1, <1>3, <1>4, <1>5 DEF Woken

\* What notify_one makes of the waits o, whichever its mask is: all of them
\* see the counter move, and sleeping pops are woken, one at least.
Notified(o, p) ==
    /\ p \in Waits
    /\ \A t \in Task :
        /\ o[t].st = "none" => p[t] = o[t]
        /\ o[t].st # "none" =>
            /\ p[t].val = 1 /\ p[t].mask = o[t].mask
            /\ \/ p[t].st = o[t].st
               \/ p[t].st = "woken" /\ t \in Wakeable(o)
    /\ \/ Wakeable(o) = {}
       \/ \E u \in Wakeable(o) : p[u].st = "woken"

LEMMA NotifyOne ==
    ASSUME NEW o \in Waits, NEW mask, NEW p \in CvNotifyOne(o, mask)
    PROVE  Notified(o, p)
<1> DEFINE a == CvAdvance(o)
<1>1. a \in Waits
  BY DEF CvAdvance, Waits, WaitOp
<1>2. \A t \in Task : /\ o[t].st = "none" => a[t] = o[t]
                      /\ o[t].st # "none" => a[t].val = 1
                      /\ a[t].st = o[t].st /\ a[t].mask = o[t].mask
  BY DEF CvAdvance, WaitOp
<1>3. Wakeable(a) = Wakeable(o)
  BY <1>2 DEF Wakeable, QueuedIn
<1>4. \/ p \in CvWokenOne(a, CountOne)
      \/ \E q \in CvWokenOne(a, CountOne) : p \in CvWokenOne(q, CountOne)
  BY DEF CvNotifyOne
<1> HIDE DEF a
<1>5. Woken(a, p)
  <2>1. CASE p \in CvWokenOne(a, CountOne)
    BY <1>1, <2>1, WokenIs
  <2>2. ASSUME NEW q \in CvWokenOne(a, CountOne), p \in CvWokenOne(q, CountOne)
        PROVE  Woken(a, p)
    <3>1. Woken(a, q)
      BY <1>1, WokenIs
    <3>2. q \in Waits
      BY <3>1 DEF Woken
    <3>3. Woken(q, p)
      BY <2>2, <3>2, WokenIs
    <3> QED  BY <1>1, <3>1, <3>3, WokenTwice
  <2> QED  BY <1>4, <2>1, <2>2
<1>6. p \in Waits
  BY <1>5 DEF Woken
<1>7. \A t \in Task : t \in Wakeable(o) => o[t].st = "queued"
  BY DEF Wakeable, QueuedIn
<1> QED  BY <1>2, <1>3, <1>5, <1>6, <1>7 DEF Woken, Notified

\* The waits that t leaves behind when it runs: its own is over.
Left(t, o) == /\ o \in Waits /\ o[t].st = "none"
              /\ \A u \in Task \ {t} : o[u] = op[u]

LEMMA RunningLeft ==
    ASSUME TypeOK, NEW t \in Task
    PROVE  Left(t, Running(t))
BY DEF Left, Waits, Running, NoOp, WaitOp, TypeOK, FutexTypeOK, OpState

LEMMA IdleLeft ==
    ASSUME TypeOK, Suspension, NEW t \in Task, call[t] = Idle
    PROVE  Left(t, op)
BY DEF Left, Waits, TypeOK, FutexTypeOK, Suspension

\* After a notification every wait has seen the counter move.
LEMMA ReturnKeeps ==
    ASSUME Suspension, TypeOK, cast' = cast, NEW t \in Task, NEW o, Left(t, o),
           Notified(o, op'), NEW v, Return(t, v), mFutex' = mFutex
    PROVE  Suspension' /\ Justified'
<1>1. call'[t] = Idle /\ \A u \in Task \ {t} : call'[u] = call[u]
  BY DEF Return, TypeOK
<1>2. op'[t].st = "none"
  BY DEF Left, Notified
<1>3. ASSUME NEW u \in Task, u # t
      PROVE  /\ op[u].st = "none" <=> op'[u].st = "none"
             /\ op[u].st # "none" => op'[u].val = 1 /\ op'[u].mask = op[u].mask
             /\ op[u].st = "none" => op'[u] = op[u]
  BY <1>3 DEF Left, Notified, Wakeable, QueuedIn
<1>4. mFutex = 0 /\ Idle.kind = "none"
  BY DEF Suspension, Idle, Pending
<1>5. Suspension'
  BY <1>1, <1>2, <1>3, <1>4 DEF Suspension, CvMoved
<1>6. Justified'
  BY <1>2, <1>3, <1>4 DEF Justified, CvMoved
<1> QED  BY <1>5, <1>6

\* The calls that may take a turn, and the mask on which they sleep.
MaskOf(kind) == IF kind = "push" THEN kNonFullMask ELSE kNonEmptyMask
CanTurn(t, c) ==
    /\ c \in Calling /\ c.kind \in {"push", "pop"} /\ c.kind = cast[t].calls
    /\ c.kind = "push" => c.val \in Value

LEMMA SleepKeeps ==
    ASSUME Suspension, Justified, TypeOK, cast' = cast, NEW t \in Task,
           NEW c, CanTurn(t, c), Sleep(t, c, MaskOf(c.kind)),
           c.kind = "push" => Full, c.kind = "pop" => Empty
    PROVE  Suspension' /\ Justified'
<1> DEFINE w == WaitOp("prepared", 0, MaskOf(c.kind))
<1>1. w.st = "prepared" /\ w.val = 0 /\ w.mask = MaskOf(c.kind)
  BY DEF WaitOp
<1>2. op' = [op EXCEPT ![t] = w]
  BY DEF Sleep, CvWait, Running, TypeOK, FutexTypeOK
<1>3. call' = [call EXCEPT ![t] = c] /\ UNCHANGED <<mFutex, ring>>
  BY DEF Sleep
<1>4. op'[t] = w /\ \A u \in Task \ {t} : op'[u] = op[u]
  BY <1>2 DEF TypeOK, FutexTypeOK
<1>5. call'[t] = c /\ \A u \in Task \ {t} : call'[u] = call[u]
  BY <1>3 DEF TypeOK
<1>6. c # Idle
  BY DEF CanTurn, Idle, Pending
<1> HIDE DEF w
<1>7. Suspension'
  BY <1>1, <1>3, <1>4, <1>5, <1>6 DEF Suspension, CvMoved, CanTurn, MaskOf
<1>8. Justified'
  BY <1>1, <1>3, <1>4, <1>5 DEF Justified, CvMoved, ring, Empty, Full
<1> QED  BY <1>7, <1>8

LEMMA SleepTypes ==
    ASSUME Suspension, TypeOK, cast' = cast, NEW t \in Task,
           NEW c, CanTurn(t, c), Sleep(t, c, MaskOf(c.kind))
    PROVE  TypeOK'
<1>1. op' \in Waits
  <2> DEFINE w == WaitOp("prepared", 0, MaskOf(c.kind))
  <2>1. w \in [st : OpState, val : {0, 1},
               mask : SUBSET (kNonEmptyMask \cup kNonFullMask)]
    BY DEF WaitOp, MaskOf, OpState
  <2>2. op' = [op EXCEPT ![t] = w]
    BY DEF Sleep, CvWait, Running, TypeOK, FutexTypeOK
  <2> HIDE DEF w
  <2> QED  BY <2>1, <2>2 DEF TypeOK, FutexTypeOK, Waits
<1>2. call' \in [Task -> Calling] /\ result' \in [Task -> Element]
  BY DEF Sleep, CanTurn, TypeOK, Calling, Element
<1>3. cancelSqe' \in [Task -> BOOLEAN] /\ mFutex' = mFutex
  BY DEF Sleep, TypeOK, FutexTypeOK
<1>4. UNCHANGED ring
  BY DEF Sleep
<1> QED  BY <1>1, <1>2, <1>3, <1>4 DEF TypeOK, FutexTypeOK, Waits, Calling, ring

LEMMA ReturnTypes ==
    ASSUME TypeOK, cast' = cast, NEW t \in Task, NEW v \in Element,
           Return(t, v), op' \in Waits, UNCHANGED <<mFutex, cancelSqe>>,
           \/ UNCHANGED ring \/ RingPop
           \/ \E x \in Value : RingPush(x)
    PROVE  TypeOK'
<1>1. call' \in [Task -> Calling] /\ result' \in [Task -> Element]
  BY DEF Return, Idle, Pending, TypeOK, Calling
<1>2. /\ buf' \in [0 .. Capacity -> Element]
      /\ mRead' \in 0 .. Capacity /\ mWrite' \in 0 .. Capacity
  <2>1. CASE UNCHANGED ring
    BY <2>1 DEF TypeOK, ring
  <2>2. CASE RingPop
    BY <2>2 DEF TypeOK, RingPop, Succ, mTail, Element
  <2>3. ASSUME NEW x \in Value, RingPush(x)
        PROVE  /\ buf' \in [0 .. Capacity -> Element]
               /\ mRead' \in 0 .. Capacity /\ mWrite' \in 0 .. Capacity
    <3>1. PICK e \in Written(mWrite, x) : buf' = [buf EXCEPT ![mWrite] = e]
      BY <2>3 DEF RingPush
    <3>2. e \in Element
      BY <3>1 DEF Written, Element
    <3> QED  BY <2>3, <3>1, <3>2 DEF TypeOK, RingPush, Succ, mTail
  <2> QED  BY <2>1, <2>2, <2>3
<1> QED  BY <1>1, <1>2 DEF TypeOK, FutexTypeOK, Waits, Calling

-----------------------------------------------------------------------------
(* What a step of a running task comes to.                                  *)

Puts(t, v) ==
    /\ call[t].kind # "pop"
    /\ ~Full /\ RingPush(v) /\ Return(t, None) /\ UNCHANGED <<mFutex, cancelSqe>>
    /\ \/ \E o : Left(t, o) /\ Notified(o, op')
       \/ ~Empty /\ op' = op /\ call[t] = Idle /\ cast[t].calls = "try_push"

Takes(t) ==
    /\ call[t].kind # "push"
    /\ ~Empty /\ RingPop /\ Return(t, buf[mRead]) /\ UNCHANGED <<mFutex, cancelSqe>>
    /\ \/ \E o : Left(t, o) /\ Notified(o, op')
       \/ ~Full /\ op' = op /\ call[t] = Idle /\ cast[t].calls = "try_pop"

Sleeps(t) ==
    /\ op[t].st \in {"none", "woken", "again"}
    /\ \E c : /\ CanTurn(t, c) /\ Sleep(t, c, MaskOf(c.kind))
              /\ IF c.kind = "push" THEN Full ELSE Empty

Fails(t) ==
    /\ Return(t, None) /\ UNCHANGED <<mFutex, cancelSqe, ring>>
    /\ \/ op' = op /\ call[t] = Idle
       \/ op' = Running(t) /\ op[t].st = "canceled"

LEMMA PushTurnIs ==
    ASSUME TypeOK, Suspension, NEW t \in Task, NEW c, CanTurn(t, c),
           c.kind = "push", op[t].st \in {"none", "woken", "again"}, PushTurn(t, c)
    PROVE  Sleeps(t) \/ \E v \in Value : Puts(t, v)
<1>1. CASE Full
  BY <1>1 DEF PushTurn, Sleeps, MaskOf
<1>2. CASE ~Full
  <2>1. Left(t, Running(t)) /\ op' \in CvNotifyOne(Running(t), kNonEmptyMask)
    BY <1>2, RunningLeft DEF PushTurn
  <2>2. Notified(Running(t), op')
    BY <2>1, NotifyOne DEF Left
  <2>3. call[t].kind # "pop"
    <3>1. Idle.kind = "none" /\ cast[t].calls = "push"
      BY DEF CanTurn, Idle, Pending
    <3> QED  BY <3>1 DEF Suspension
  <2>4. Puts(t, c.val)
    BY <1>2, <2>1, <2>2, <2>3 DEF PushTurn, Puts
  <2> QED  BY <2>4 DEF CanTurn
<1> QED  BY <1>1, <1>2

LEMMA PopTurnIs ==
    ASSUME TypeOK, Suspension, NEW t \in Task, NEW c, CanTurn(t, c),
           c.kind = "pop", op[t].st \in {"none", "woken", "again"}, PopTurn(t, c)
    PROVE  Sleeps(t) \/ Takes(t)
<1>1. CASE Empty
  BY <1>1 DEF PopTurn, Sleeps, MaskOf
<1>2. CASE ~Empty
  <2>1. Left(t, Running(t)) /\ op' \in CvNotifyOne(Running(t), kNonFullMask)
    BY <1>2, RunningLeft DEF PopTurn
  <2>2. Notified(Running(t), op')
    BY <2>1, NotifyOne DEF Left
  <2>3. call[t].kind # "push"
    <3>1. Idle.kind = "none" /\ cast[t].calls = "pop"
      BY DEF CanTurn, Idle, Pending
    <3> QED  BY <3>1 DEF Suspension
  <2> QED  BY <1>2, <2>1, <2>2, <2>3 DEF PopTurn, Takes
<1> QED  BY <1>1, <1>2

LEMMA CastType ==
    ASSUME TypeOK, NEW t \in Task
    PROVE  cast[t].values \subseteq Value
BY DEF TypeOK, Role

LEMMA Outcome ==
    ASSUME TypeOK, Suspension, Next
    PROVE  /\ cast' = cast
           /\ \E t \in Task :
               \/ \E v \in Value : Puts(t, v)
               \/ Takes(t) \/ Sleeps(t) \/ Fails(t)
               \/ Submit(t) \/ Cancel(t) \/ Abort(t)
<1> DEFINE Goal(t) == \/ \E v \in Value : Puts(t, v)
                      \/ Takes(t) \/ Sleeps(t) \/ Fails(t)
                      \/ Submit(t) \/ Cancel(t) \/ Abort(t)
<1>1. ASSUME NEW t \in Task, NEW v \in cast[t].values, Push(t, v) PROVE Goal(t)
  <2>1. CanTurn(t, Pending("push", v)) /\ op[t].st = "none"
    BY <1>1, CastType DEF Push, Calls, CanTurn, Pending, Calling, Suspension
  <2> QED  BY <1>1, <2>1, PushTurnIs DEF Push, Pending
<1>2. ASSUME NEW t \in Task, Pop(t) PROVE Goal(t)
  <2>1. CanTurn(t, Pending("pop", None)) /\ op[t].st = "none"
    BY <1>2 DEF Pop, Calls, CanTurn, Pending, Calling, Suspension
  <2> QED  BY <1>2, <2>1, PopTurnIs DEF Pop, Pending
<1>3. ASSUME NEW t \in Task, NEW v \in cast[t].values, TryPush(t, v) PROVE Goal(t)
  <2>1. v \in Value /\ call[t] = Idle /\ Left(t, op)
    BY <1>3, CastType, IdleLeft DEF TryPush, Calls
  <2>2. CASE Full
    BY <1>3, <2>1, <2>2 DEF TryPush, Fails
  <2>3. CASE ~Full /\ Empty
    <3>1. op' \in CvNotifyOne(op, kNonEmptyMask)
      BY <1>3, <2>3 DEF TryPush
    <3>2. Notified(op, op')
      BY <2>1, <3>1, NotifyOne DEF Left
    <3>3. Puts(t, v)
      BY <1>3, <2>1, <2>3, <3>2 DEF TryPush, Puts, Idle, Pending
    <3> QED  BY <2>1, <3>3
  <2>4. CASE ~Full /\ ~Empty
    <3>1. Puts(t, v)
      BY <1>3, <2>1, <2>4 DEF TryPush, Calls, Puts, Idle, Pending
    <3> QED  BY <2>1, <3>1
  <2> QED  BY <2>2, <2>3, <2>4
<1>4. ASSUME NEW t \in Task, TryPop(t) PROVE Goal(t)
  <2>1. call[t] = Idle /\ Left(t, op)
    BY <1>4, IdleLeft DEF TryPop, Calls
  <2>2. CASE Empty
    BY <1>4, <2>1, <2>2 DEF TryPop, Fails
  <2>3. CASE ~Empty /\ Full
    <3>1. op' \in CvNotifyOne(op, kNonFullMask)
      BY <1>4, <2>3 DEF TryPop
    <3>2. Notified(op, op')
      BY <2>1, <3>1, NotifyOne DEF Left
    <3> QED  BY <1>4, <2>1, <2>3, <3>2 DEF TryPop, Takes, Idle, Pending
  <2>4. CASE ~Empty /\ ~Full
    BY <1>4, <2>1, <2>4 DEF TryPop, Calls, Takes, Idle, Pending
  <2> QED  BY <2>2, <2>3, <2>4
<1>5. ASSUME NEW t \in Task, Resume(t) PROVE Goal(t)
  <2>1. CASE op[t].st = "canceled"
    BY <1>5, <2>1 DEF Resume, Fails
  <2>2. CASE op[t].st # "canceled"
    <3>1. op[t].st \in {"woken", "again"} /\ CvMoved(t)
      BY <1>5, <2>2 DEF Resume, Done, Suspension
    <3>2. CASE call[t].kind = "push" /\ PushTurn(t, call[t])
      <4>1. CanTurn(t, call[t])
        BY <3>1, <3>2 DEF Suspension, CanTurn, TypeOK, Calling, Idle, Pending
      <4> QED  BY <3>1, <3>2, <4>1, PushTurnIs
    <3>3. CASE call[t].kind = "pop" /\ PopTurn(t, call[t])
      <4>1. CanTurn(t, call[t])
        BY <3>1, <3>3 DEF Suspension, CanTurn, TypeOK, Calling, Idle, Pending
      <4> QED  BY <3>1, <3>3, <4>1, PopTurnIs
    <3> QED  BY <1>5, <2>2, <3>1, <3>2, <3>3 DEF Resume
  <2> QED  BY <2>1, <2>2
<1> HIDE DEF Goal
<1>6. \E t \in Task : Goal(t) \/ Submit(t) \/ Cancel(t) \/ Abort(t)
  BY <1>1, <1>2, <1>3, <1>4, <1>5 DEF Next
<1>7. cast' = cast
  BY DEF Next
<1> QED  BY <1>6, <1>7 DEF Goal

-----------------------------------------------------------------------------
(* The waits are justified.                                                 *)

LEMMA CallIs ==
    ASSUME TypeOK, Suspension, NEW t \in Task, call[t] # Idle
    PROVE  call[t].kind \in {"push", "pop"}
BY DEF TypeOK, Suspension, Role, Calling

\* A step between empty and full needs no notification for them.
LEMMA SilentKeeps ==
    ASSUME TypeOK, Suspension, Justified, cast' = cast, ~Empty, ~Full,
           NEW t \in Task, call[t] = Idle, op' = op, NEW v, Return(t, v),
           mFutex' = mFutex
    PROVE  Suspension' /\ Justified'
<1>1. call' = call
  BY DEF Return, TypeOK
<1>2. Suspension'
  BY <1>1 DEF Suspension, CvMoved
<1>3. \A u \in Task : op[u].st # "none" => CvMoved(u)
  BY CallIs DEF Justified, Suspension
<1>4. Justified'
  BY <1>3 DEF Justified, CvMoved
<1> QED  BY <1>2, <1>4

LEMMA FailKeeps ==
    ASSUME TypeOK, Suspension, Justified, cast' = cast, NEW t \in Task, Fails(t)
    PROVE  Suspension' /\ Justified'
<1>1. /\ op'[t].st = "none"
      /\ \A u \in Task \ {t} : op'[u] = op[u]
  BY RunningLeft, IdleLeft DEF Fails, Left
<1>2. call'[t] = Idle /\ \A u \in Task \ {t} : call'[u] = call[u]
  BY DEF Fails, Return, TypeOK
<1>3. UNCHANGED <<mFutex, ring>>
  BY DEF Fails
<1>4. Suspension'
  <2>1. Idle.kind = "none"
    BY DEF Idle, Pending
  <2> QED  BY <1>1, <1>2, <1>3, <2>1 DEF Suspension, CvMoved
<1>5. Justified'
  BY <1>1, <1>2, <1>3 DEF Justified, CvMoved, ring, Empty, Full
<1> QED  BY <1>4, <1>5

LEMMA SubmitKeeps ==
    ASSUME TypeOK, Suspension, Justified, cast' = cast, NEW t \in Task, Submit(t)
    PROVE  TypeOK' /\ Suspension' /\ Justified'
<1> USE DEF Submit, SubmitWait
<1>1. TypeOK'
  <2>1. PICK s \in {"queued", "again"} : op' = [op EXCEPT ![t].st = s]
    OBVIOUS
  <2>2. op \in Waits /\ s \in OpState
    BY DEF TypeOK, FutexTypeOK, OpState, Done, Waits
  <2>3. op' \in Waits
    BY <2>1, <2>2 DEF Waits
  <2> QED  BY <2>3 DEF TypeOK, FutexTypeOK, Waits, ring
<1>2. Suspension'
  BY DEF TypeOK, FutexTypeOK, Suspension, CvMoved
<1>3. Justified'
  BY DEF TypeOK, FutexTypeOK, Justified, CvMoved, ring, Empty, Full
<1> QED  BY <1>1, <1>2, <1>3

LEMMA CancelKeeps ==
    ASSUME TypeOK, Suspension, Justified, cast' = cast, NEW t \in Task, Cancel(t)
    PROVE  TypeOK' /\ Suspension' /\ Justified'
<1> USE DEF Cancel, PrepCancel
<1>1. TypeOK'
  BY DEF TypeOK, FutexTypeOK, ring
<1>2. \A u \in Task : /\ call'[u].kind = call[u].kind /\ call'[u].val = call[u].val
                      /\ call'[u] = Idle <=> call[u] = Idle
  BY DEF TypeOK, Idle, Pending, Suspension
<1>3. Suspension'
  BY <1>2 DEF Suspension, CvMoved
<1>4. Justified'
  BY <1>2 DEF Justified, CvMoved, ring, Empty, Full
<1> QED  BY <1>1, <1>3, <1>4

LEMMA AbortKeeps ==
    ASSUME TypeOK, Suspension, Justified, cast' = cast, NEW t \in Task, Abort(t)
    PROVE  TypeOK' /\ Suspension' /\ Justified'
<1> USE DEF Abort, SubmitCancel
<1>1. CASE op[t].st = "queued"
  <2>a. op' = [op EXCEPT ![t].st = "canceled"]
    BY <1>1
  <2>0. op' \in Waits
    BY <2>a DEF TypeOK, FutexTypeOK, OpState, Done, Waits
  <2>1. TypeOK'
    BY <2>0 DEF TypeOK, FutexTypeOK, Waits, ring
  <2>2. Suspension'
    BY <1>1 DEF TypeOK, FutexTypeOK, Suspension, CvMoved
  <2>3. Justified'
    BY <1>1 DEF TypeOK, FutexTypeOK, Justified, CvMoved, ring, Empty, Full
  <2> QED  BY <2>1, <2>2, <2>3
<1>2. CASE op[t].st # "queued"
  <2>1. TypeOK'
    BY <1>2 DEF TypeOK, FutexTypeOK, ring
  <2>2. Suspension'
    BY <1>2 DEF Suspension, CvMoved
  <2>3. Justified'
    BY <1>2 DEF Justified, CvMoved, ring, Empty, Full
  <2> QED  BY <2>1, <2>2, <2>3
<1> QED  BY <1>1, <1>2

\* The waits after a step of a running task are waits.
LEMMA StillWaits ==
    ASSUME TypeOK, NEW t \in Task, \/ op' = op \/ op' = Running(t)
                                   \/ \E o : Left(t, o) /\ Notified(o, op')
    PROVE  op' \in Waits
BY RunningLeft DEF Left, Notified, Waits, TypeOK, FutexTypeOK

LEMMA PutKeeps ==
    ASSUME TypeOK, Suspension, Justified, cast' = cast, NEW t \in Task,
           NEW v \in Value, Puts(t, v)
    PROVE  TypeOK' /\ Suspension' /\ Justified'
<1>1. TypeOK'
  BY ReturnTypes, StillWaits DEF Puts, Element
<1>2. Suspension' /\ Justified'
  BY ReturnKeeps, SilentKeeps DEF Puts
<1> QED  BY <1>1, <1>2

LEMMA TakeKeeps ==
    ASSUME TypeOK, Suspension, Justified, cast' = cast, NEW t \in Task, Takes(t)
    PROVE  TypeOK' /\ Suspension' /\ Justified'
<1>1. buf[mRead] \in Element
  BY DEF TypeOK
<1>2. TypeOK'
  BY <1>1, ReturnTypes, StillWaits DEF Takes
<1>3. Suspension' /\ Justified'
  BY ReturnKeeps, SilentKeeps DEF Takes
<1> QED  BY <1>2, <1>3

LEMMA SafeStep ==
    ASSUME TypeOK, Suspension, Justified, [Next]_vars
    PROVE  TypeOK' /\ Suspension' /\ Justified'
<1>1. CASE UNCHANGED vars
  <2>1. TypeOK'
    BY <1>1 DEF vars, futexVars, ring, TypeOK, FutexTypeOK
  <2>2. Suspension' /\ Justified'
    BY <1>1 DEF vars, futexVars, ring, Suspension, Justified, CvMoved, Empty, Full
  <2> QED  BY <2>1, <2>2
<1>2. ASSUME cast' = cast, NEW t \in Task, Sleeps(t)
      PROVE  TypeOK' /\ Suspension' /\ Justified'
  BY <1>2, SleepKeeps, SleepTypes DEF Sleeps
<1>3. ASSUME cast' = cast, NEW t \in Task, Fails(t)
      PROVE  TypeOK' /\ Suspension' /\ Justified'
  <2>1. TypeOK'
    BY <1>3, ReturnTypes, StillWaits DEF Fails, Element
  <2> QED  BY <1>3, <2>1, FailKeeps
<1>4. CASE Next
  BY <1>2, <1>3, <1>4, Outcome, PutKeeps, TakeKeeps, SubmitKeeps, CancelKeeps,
     AbortKeeps
<1> QED  BY <1>1, <1>4

-----------------------------------------------------------------------------
(* No pop sleeps on work.                                                   *)

LEMMA FlightFinite ==
    ASSUME IsFiniteSet(Task)
    PROVE  /\ IsFiniteSet(InFlight("pop")) /\ Cardinality(InFlight("pop")) \in Nat
           /\ IsFiniteSet(InFlight("pop")') /\ Cardinality(InFlight("pop")') \in Nat
<1>1. InFlight("pop") \subseteq Task /\ InFlight("pop")' \subseteq Task
  BY DEF InFlight, Waiting
<1> QED  BY <1>1, FS_Subset, FS_CardinalityType

\* Counting A against B, which keeps it, loses t or gains u.
LEMMA Count ==
    ASSUME NEW A, NEW B, IsFiniteSet(A), IsFiniteSet(B)
    PROVE  /\ A \subseteq B => Cardinality(A) <= Cardinality(B)
           /\ \A t : A \ {t} \subseteq B => Cardinality(A) - 1 <= Cardinality(B)
           /\ \A u : A \subseteq B /\ u \in B \ A => Cardinality(A) + 1 <= Cardinality(B)
<1>1. Cardinality(A) \in Nat /\ Cardinality(B) \in Nat
  BY FS_CardinalityType
<1>2. ASSUME NEW C, C \subseteq B PROVE Cardinality(C) <= Cardinality(B)
  BY <1>2, FS_Subset
<1>3. ASSUME NEW t, A \ {t} \subseteq B PROVE Cardinality(A) - 1 <= Cardinality(B)
  <2>1. /\ IsFiniteSet(A \ {t})
        /\ Cardinality(A \ {t}) = IF t \in A THEN Cardinality(A) - 1
                                             ELSE Cardinality(A)
    BY FS_RemoveElement
  <2>2. Cardinality(A \ {t}) <= Cardinality(B)
    BY <1>2, <1>3
  <2> QED  BY <1>1, <2>1, <2>2
<1>4. ASSUME NEW u, A \subseteq B, u \in B \ A
      PROVE  Cardinality(A) + 1 <= Cardinality(B)
  <2>1. Cardinality(A \cup {u}) = Cardinality(A) + 1
    BY <1>4, FS_AddElement
  <2>2. A \cup {u} \subseteq B
    BY <1>4
  <2>3. Cardinality(A \cup {u}) <= Cardinality(B)
    BY <1>2, <2>2
  <2> QED  BY <2>1, <2>3
<1> QED  BY <1>2, <1>3, <1>4

\* The pops stay covered if the values grow no more than those on their way.
LEMMA CoverCounts ==
    ASSUME IsFiniteSet(Task), Positions, NoIdlePopper, Positions',
           Queued(kNonEmptyMask)' \subseteq Queued(kNonEmptyMask),
           Queued(kNonEmptyMask)' # {} =>
               Length' - Cardinality(InFlight("pop")')
                   <= Length - Cardinality(InFlight("pop"))
    PROVE  NoIdlePopper'
<1>1. Length \in Int /\ Length' \in Int
  <2>1. Capacity \in Nat
    OBVIOUS
  <2> QED  BY <2>1, LengthIs, NextLength DEF Positions, Position
<1>2. Cardinality(InFlight("pop")) \in Nat /\ Cardinality(InFlight("pop")') \in Nat
  BY FlightFinite
<1>3. Cardinality(InFlight("pop"))' = Cardinality(InFlight("pop")')
  OBVIOUS
<1> QED  BY <1>1, <1>2, <1>3 DEF NoIdlePopper

LEMMA CoverKept ==
    ASSUME IsFiniteSet(Task), Positions, NoIdlePopper,
           UNCHANGED ring, InFlight("pop") \subseteq InFlight("pop")',
           Queued(kNonEmptyMask)' \subseteq Queued(kNonEmptyMask)
    PROVE  NoIdlePopper'
<1>1. Positions' /\ Length' = Length
  BY DEF Positions, Length, ring
<1>2. Length \in Int
  BY LengthIs
<1>3. Cardinality(InFlight("pop")) <= Cardinality(InFlight("pop")')
  BY FlightFinite, Count
<1>4. Length' - Cardinality(InFlight("pop")') <= Length - Cardinality(InFlight("pop"))
  BY <1>1, <1>2, <1>3, FlightFinite
<1> QED  BY <1>1, <1>4, CoverCounts

\* A running task that returns: its notification loses nobody on their way.
LEMMA FlightKept ==
    ASSUME TypeOK, Suspension, NEW t \in Task, NEW o, Left(t, o),
           Notified(o, op'), NEW v, Return(t, v), mFutex' = mFutex
    PROVE  /\ InFlight("pop") \ {t} \subseteq InFlight("pop")'
           /\ Queued(kNonEmptyMask)' \subseteq Queued(kNonEmptyMask)
<1>1. \A u \in Task \ {t} : call'[u] = call[u] /\ o[u] = op[u]
  BY DEF Return, TypeOK, Left
<1>2. o[t].st = "none" /\ op'[t].st = "none" /\ mFutex' = 0 /\ mFutex = 0
  BY DEF Left, Notified, Suspension
<1>3. InFlight("pop") \ {t} \subseteq InFlight("pop")'
  <2> SUFFICES ASSUME NEW u \in InFlight("pop"), u # t
               PROVE  u \in InFlight("pop")'
    OBVIOUS
  <2>1. u \in Task /\ op[u].st # "none"
    BY DEF InFlight, Waiting
  <2>2. op'[u].val = 1 /\ (op'[u].st = op[u].st \/ op'[u].st = "woken")
    BY <1>1, <2>1 DEF Notified
  <2> QED  BY <1>1, <1>2, <2>1, <2>2 DEF InFlight, Waiting, CvMoved
<1>4. Queued(kNonEmptyMask)' \subseteq Queued(kNonEmptyMask)
  <2> SUFFICES ASSUME NEW u \in Task, op'[u].st = "queued",
                      op'[u].mask \cap kNonEmptyMask # {}
               PROVE  op[u].st = "queued" /\ op[u].mask \cap kNonEmptyMask # {}
    BY DEF Queued, QueuedIn
  <2>1. u # t
    BY <1>2
  <2> QED  BY <1>1, <2>1 DEF Notified
<1> QED  BY <1>3, <1>4

\* A pop takes its value and leaves.
LEMMA TakeCovered ==
    ASSUME IsFiniteSet(Task), TypeOK, Suspension, NoIdlePopper,
           NEW t \in Task, Takes(t)
    PROVE  NoIdlePopper'
<1>1. Positions /\ Positions' /\ Length' = Length - 1 /\ Length \in Int
  BY PopLength, LengthIs DEF TypeOK, Positions, Position, Takes
<1>2. /\ InFlight("pop") \ {t} \subseteq InFlight("pop")'
      /\ Queued(kNonEmptyMask)' \subseteq Queued(kNonEmptyMask)
  <2>1. CASE op' = op /\ call[t] = Idle
    <3>1. call' = call /\ mFutex' = mFutex
      BY <2>1 DEF Takes, Return, TypeOK
    <3> QED  BY <2>1, <3>1 DEF InFlight, Waiting, Queued, QueuedIn, CvMoved
  <2>2. CASE \E o : Left(t, o) /\ Notified(o, op')
    BY <2>2, FlightKept DEF Takes
  <2> QED  BY <2>1, <2>2 DEF Takes
<1>3. Cardinality(InFlight("pop")) - 1 <= Cardinality(InFlight("pop")')
  BY <1>2, Count, FlightFinite
<1>4. Length' - Cardinality(InFlight("pop")') <= Length - Cardinality(InFlight("pop"))
  BY <1>1, <1>3, FlightFinite
<1> QED  BY <1>1, <1>2, <1>4, CoverCounts

\* A sleeper on kNonEmptyMask is a pop.
LEMMA SleeperPops ==
    ASSUME TypeOK, Suspension, NEW u \in Task, op[u].st = "queued",
           op[u].mask \cap kNonEmptyMask # {}
    PROVE  call[u] # Idle /\ call[u].kind = "pop" /\ cast[u].calls = "pop"
<1>1. call[u] # Idle
  BY DEF Suspension
<1>2. call[u].kind \in {"push", "pop"}
  BY <1>1, CallIs
<1> QED  BY <1>1, <1>2 DEF Suspension, kNonEmptyMask, kNonFullMask

\* A push makes work for the pops and wakes a sleeper, if there is one.
LEMMA PutFeeds ==
    ASSUME IsFiniteSet(Task), TypeOK, Suspension, NoIdlePopper,
           NEW t \in Task, NEW v \in Value, Puts(t, v),
           NEW o, Left(t, o), Notified(o, op')
    PROVE  NoIdlePopper'
<1>0. Positions /\ Positions' /\ Length' = Length + 1 /\ Length \in Int
  BY PushLength, LengthIs DEF TypeOK, Positions, Position, Puts
<1>1. /\ InFlight("pop") \subseteq InFlight("pop")'
      /\ Queued(kNonEmptyMask)' \subseteq Queued(kNonEmptyMask)
  <2>1. t \notin InFlight("pop")
    BY DEF Puts, InFlight, Waiting
  <2> QED  BY <2>1, FlightKept DEF Puts
<1>2. CASE Wakeable(o) = {}
  <2>1. Queued(kNonEmptyMask)' = {}
    <3> SUFFICES ASSUME NEW u \in Task, op'[u].st = "queued",
                        op'[u].mask \cap kNonEmptyMask # {}
                 PROVE  FALSE
      BY DEF Queued, QueuedIn
    <3>1. o[u].st = "queued" /\ o[u].mask \cap kNonEmptyMask # {}
      BY DEF Notified
    <3> QED  BY <1>2, <3>1 DEF Wakeable, QueuedIn, kNonEmptyMask, CountOne
  <2> QED  BY <2>1 DEF NoIdlePopper
<1>3. ASSUME NEW u \in Wakeable(o), op'[u].st = "woken"
      PROVE  NoIdlePopper'
  <2>1. u \in Task /\ o[u].st = "queued" /\ o[u].mask \cap kNonEmptyMask # {}
    BY DEF Wakeable, QueuedIn, kNonEmptyMask, CountOne
  <2>2. u # t /\ op[u] = o[u]
    BY <2>1 DEF Left
  <2>3. call[u].kind = "pop" /\ call'[u].kind = "pop"
    <3>1. call'[u] = call[u]
      BY <2>1, <2>2 DEF Puts, Return, TypeOK
    <3> QED  BY <2>1, <2>2, <3>1, SleeperPops
  <2>4. u \in InFlight("pop")' \ InFlight("pop")
    BY <1>3, <2>1, <2>2, <2>3 DEF InFlight, Waiting
  <2>5. Cardinality(InFlight("pop")) + 1 <= Cardinality(InFlight("pop")')
    BY <1>1, <2>4, Count, FlightFinite
  <2>6. Length' - Cardinality(InFlight("pop")') <= Length - Cardinality(InFlight("pop"))
    BY <1>0, <2>5, FlightFinite
  <2> QED  BY <1>0, <1>1, <2>6, CoverCounts
<1> QED  BY <1>2, <1>3 DEF Notified

\* A pop that sleeps alone of its kind sleeps on an empty queue.
LEMMA AloneSleepsOnNothing ==
    ASSUME IsFiniteSet(Task), TypeOK, Suspension, NoIdlePopper,
           Cardinality(In(cast, "pop")) <= 1, NEW w \in Queued(kNonEmptyMask)
    PROVE  Length = 0
<1>1. w \in Task /\ op[w].st = "queued" /\ op[w].mask \cap kNonEmptyMask # {}
  BY DEF Queued, QueuedIn
<1>2. cast[w].calls = "pop"
  BY <1>1, SleeperPops
<1>3. InFlight("pop") = {}
  <2> SUFFICES ASSUME NEW u \in InFlight("pop") PROVE FALSE
    OBVIOUS
  <2>1. u \in Task /\ call[u].kind = "pop" /\ op[u].st # "queued"
    BY DEF InFlight, Waiting
  <2>2. u # w /\ {u, w} \subseteq In(cast, "pop")
    <3>1. call[u] # Idle
      BY <2>1 DEF Idle, Pending
    <3> QED  BY <1>1, <1>2, <2>1, <3>1 DEF Suspension, In
  <2>3. IsFiniteSet(In(cast, "pop")) /\ Cardinality(In(cast, "pop")) \in Nat
    <3>1. In(cast, "pop") \subseteq Task
      BY DEF In
    <3> QED  BY <3>1, FS_Subset, FS_CardinalityType
  <2>4. Cardinality({u, w}) = 2
    <3>1. Cardinality({u}) = 1 /\ IsFiniteSet({u}) /\ w \notin {u}
      BY <2>2, FS_Singleton
    <3>2. {u} \cup {w} = {u, w}
      OBVIOUS
    <3>3. Cardinality({u} \cup {w}) = Cardinality({u}) + 1
      BY <3>1, FS_AddElement
    <3> QED  BY <3>1, <3>2, <3>3
  <2>5. Cardinality({u, w}) <= Cardinality(In(cast, "pop"))
    BY <2>2, <2>3, FS_Subset
  <2> QED  BY <2>3, <2>4, <2>5
<1>4. Length \in 0 .. Capacity
  BY LengthIs DEF TypeOK, Positions, Position
<1>5. Length <= 0
  BY <1>3, FS_EmptySet DEF NoIdlePopper
<1> QED  BY <1>4, <1>5

\* try_push on a queue with values in it wakes nobody, and nobody sleeps.
LEMMA PutCovered ==
    ASSUME IsFiniteSet(Task), TypeOK, Suspension, NoIdlePopper,
           NEW t \in Task, NEW v \in Value, Puts(t, v)
    PROVE  NoIdlePopper'
<1>1. CASE \E o : Left(t, o) /\ Notified(o, op')
  BY <1>1, PutFeeds
<1>2. CASE ~Empty /\ op' = op /\ cast[t].calls = "try_push"
  <2>1. Cardinality(In(cast, "pop")) <= 1
    BY <1>2, TryAssumption DEF TypeOK, In
  <2>2. Length # 0
    BY <1>2, LengthIs DEF TypeOK, Positions, Position
  <2>3. Queued(kNonEmptyMask) = {}
    BY <2>1, <2>2, AloneSleepsOnNothing
  <2>4. Queued(kNonEmptyMask)' = {}
    BY <1>2, <2>3 DEF Queued, QueuedIn
  <2> QED  BY <2>4 DEF NoIdlePopper
<1> QED  BY <1>1, <1>2 DEF Puts

\* A pop goes to sleep only on an empty queue.
LEMMA SleepCovered ==
    ASSUME IsFiniteSet(Task), TypeOK, Suspension, NoIdlePopper,
           NEW t \in Task, Sleeps(t)
    PROVE  NoIdlePopper'
<1>0. Positions
  BY DEF TypeOK, Positions, Position
<1>1. PICK c : /\ CanTurn(t, c) /\ Sleep(t, c, MaskOf(c.kind))
               /\ IF c.kind = "push" THEN Full ELSE Empty
  BY DEF Sleeps
<1>2. UNCHANGED ring /\ mFutex' = mFutex
  BY <1>1 DEF Sleep
<1>3. CASE c.kind = "pop"
  <2>1. Length = 0
    BY <1>0, <1>1, <1>3, LengthIs
  <2>2. Length' = Length
    BY <1>2 DEF Length, ring
  <2>3. Cardinality(InFlight("pop"))' = Cardinality(InFlight("pop")')
        /\ Cardinality(InFlight("pop")') \in Nat
    BY FlightFinite
  <2> QED  BY <2>1, <2>2, <2>3 DEF NoIdlePopper
<1>4. CASE c.kind # "pop"
  <2>1. call[t].kind # "pop"
    <3>1. Idle.kind = "none" /\ cast[t].calls # "pop"
      BY <1>1, <1>4 DEF CanTurn, Idle, Pending
    <3> QED  BY <3>1 DEF Suspension
  <2> DEFINE w == WaitOp("prepared", 0, MaskOf(c.kind))
  <2>2. /\ op'[t] = w /\ call'[t] = c
        /\ \A u \in Task \ {t} : op'[u] = op[u] /\ call'[u] = call[u]
    BY <1>1 DEF Sleep, CvWait, Running, TypeOK, FutexTypeOK
  <2>3. w.st = "prepared"
    BY DEF WaitOp
  <2> HIDE DEF w
  <2>4. Queued(kNonEmptyMask)' \subseteq Queued(kNonEmptyMask)
    BY <2>2, <2>3 DEF Queued, QueuedIn
  <2>5. InFlight("pop") \subseteq InFlight("pop")'
    BY <1>2, <2>1, <2>2 DEF InFlight, Waiting, CvMoved
  <2> QED  BY <1>0, <1>2, <2>4, <2>5, CoverKept
<1> QED  BY <1>3, <1>4

LEMMA FailCovered ==
    ASSUME IsFiniteSet(Task), TypeOK, Suspension, NoIdlePopper,
           NEW t \in Task, Fails(t)
    PROVE  NoIdlePopper'
<1>1. /\ op'[t].st = "none" /\ op[t].st \in {"none", "canceled"}
      /\ \A u \in Task \ {t} : op'[u] = op[u]
  BY RunningLeft, IdleLeft DEF Fails, Left
<1>2. call'[t] = Idle /\ \A u \in Task \ {t} : call'[u] = call[u]
  BY DEF Fails, Return, TypeOK
<1>3. UNCHANGED <<mFutex, ring>>
  BY DEF Fails
<1>4. Queued(kNonEmptyMask)' \subseteq Queued(kNonEmptyMask)
  BY <1>1 DEF Queued, QueuedIn
<1>5. InFlight("pop") \subseteq InFlight("pop")'
  BY <1>1, <1>2, <1>3 DEF InFlight, Waiting, CvMoved
<1> QED  BY <1>3, <1>4, <1>5, CoverKept DEF TypeOK, Positions, Position

\* The kernel queues only a wait that is still justified.
LEMMA SubmitCovered ==
    ASSUME IsFiniteSet(Task), TypeOK, Suspension, Justified, NoIdlePopper,
           NEW t \in Task, Submit(t)
    PROVE  NoIdlePopper'
<1>0. Positions
  BY DEF TypeOK, Positions, Position
<1> USE DEF Submit, SubmitWait
<1>1. UNCHANGED ring /\ mFutex' = mFutex /\ call' = call
  OBVIOUS
<1>2. op' = [op EXCEPT ![t].st = IF CvMoved(t) THEN "again" ELSE "queued"]
  BY DEF CvMoved
<1>3. InFlight("pop") \subseteq InFlight("pop")'
  BY <1>1, <1>2 DEF InFlight, Waiting, CvMoved, TypeOK, FutexTypeOK
<1>4. CASE CvMoved(t) \/ call[t].kind # "pop"
  <2>1. call[t].kind # "pop" => op[t].mask \cap kNonEmptyMask = {}
    <3>1. call[t] # Idle
      BY DEF Suspension
    <3> QED
      BY <3>1, CallIs DEF Suspension, kNonEmptyMask, kNonFullMask
  <2>2. Queued(kNonEmptyMask)' \subseteq Queued(kNonEmptyMask)
    BY <1>2, <1>4, <2>1 DEF Queued, QueuedIn, TypeOK, FutexTypeOK
  <2> QED  BY <1>0, <1>1, <1>3, <2>2, CoverKept
<1>5. CASE ~CvMoved(t) /\ call[t].kind = "pop"
  <2>1. Length = 0
    BY <1>0, <1>5, LengthIs DEF Justified
  <2>2. Length' = Length
    BY <1>1 DEF Length, ring
  <2>3. Cardinality(InFlight("pop"))' = Cardinality(InFlight("pop")')
        /\ Cardinality(InFlight("pop")') \in Nat
    BY FlightFinite
  <2> QED  BY <2>1, <2>2, <2>3 DEF NoIdlePopper
<1> QED  BY <1>4, <1>5

LEMMA CancelCovered ==
    ASSUME IsFiniteSet(Task), TypeOK, Suspension, NoIdlePopper,
           NEW t \in Task, Cancel(t) \/ Abort(t)
    PROVE  NoIdlePopper'
<1>0. Positions
  BY DEF TypeOK, Positions, Position
<1>1. UNCHANGED ring /\ mFutex' = mFutex
  BY DEF Cancel, PrepCancel, Abort, SubmitCancel
<1>2. \A u \in Task : call'[u].kind = call[u].kind
  BY DEF Cancel, Abort, TypeOK
<1>3. CASE op' = op
  <2>1. /\ InFlight("pop") \subseteq InFlight("pop")'
        /\ Queued(kNonEmptyMask)' \subseteq Queued(kNonEmptyMask)
    BY <1>1, <1>2, <1>3 DEF InFlight, Waiting, CvMoved, Queued, QueuedIn
  <2> QED  BY <1>0, <1>1, <2>1, CoverKept
<1>4. CASE op[t].st = "queued" /\ op' = [op EXCEPT ![t].st = "canceled"]
  <2>1. InFlight("pop") \subseteq InFlight("pop")'
    BY <1>1, <1>2, <1>4 DEF InFlight, Waiting, CvMoved, TypeOK, FutexTypeOK
  <2>2. Queued(kNonEmptyMask)' \subseteq Queued(kNonEmptyMask)
    BY <1>4 DEF Queued, QueuedIn, TypeOK, FutexTypeOK
  <2> QED  BY <1>0, <1>1, <2>1, <2>2, CoverKept
<1> QED  BY <1>3, <1>4 DEF Cancel, PrepCancel, Abort, SubmitCancel

LEMMA CoveredStep ==
    ASSUME IsFiniteSet(Task), TypeOK, Suspension, Justified, NoIdlePopper, [Next]_vars
    PROVE  NoIdlePopper'
<1>1. CASE UNCHANGED vars
  BY <1>1 DEF vars, futexVars, ring, NoIdlePopper, Length, InFlight, Waiting,
     CvMoved, Queued, QueuedIn
<1>2. CASE Next
  BY <1>2, Outcome, PutCovered, TakeCovered, SleepCovered, FailCovered,
     SubmitCovered, CancelCovered
<1> QED  BY <1>1, <1>2

-----------------------------------------------------------------------------
(* The invariant, and what follows from it.                                 *)

LEMMA InitTypes == Init => TypeOK /\ Suspension /\ Justified
<1> SUFFICES ASSUME Init PROVE TypeOK /\ Suspension /\ Justified
  OBVIOUS
<1> USE DEF Init, FutexInit, NoOp, WaitOp
<1>0. Capacity \in Nat
  OBVIOUS
<1>1. TypeOK
  BY <1>0 DEF TypeOK, FutexTypeOK, OpState, Idle, Pending, Element
<1>2. Suspension /\ Justified
  BY DEF Suspension, Justified, Idle, Pending
<1> QED  BY <1>1, <1>2

LEMMA InitInv == Init => IInv
<1> SUFFICES ASSUME Init PROVE IInv
  OBVIOUS
<1>1. Queued(kNonEmptyMask) = {}
  BY DEF Init, FutexInit, NoOp, WaitOp, Queued, QueuedIn
<1> QED  BY <1>1, InitTypes DEF IInv, NoIdlePopper

LEMMA StepInv == IsFiniteSet(Task) /\ IInv /\ [Next]_vars => IInv'
<1> SUFFICES ASSUME IsFiniteSet(Task), IInv, [Next]_vars PROVE IInv'
  OBVIOUS
<1>1. TypeOK' /\ Suspension' /\ Justified'
  BY SafeStep DEF IInv
<1>2. NoIdlePopper'
  BY CoveredStep DEF IInv
<1> QED  BY <1>1, <1>2 DEF IInv

(* For every capacity, every finite set of coroutines and every mixture of  *)
(* waiting and trying calls that TryAssumption allows: an unmoved wait is   *)
(* still right to wait, and no pop sleeps on work.                          *)
THEOREM Invariant == IsFiniteSet(Task) /\ Spec => []IInv
<1> SUFFICES ASSUME IsFiniteSet(Task) PROVE Spec => []IInv
  OBVIOUS
<1>1. Init => IInv
  BY InitInv
<1>2. IInv /\ [Next]_vars => IInv'
  BY StepInv
<1> QED  BY <1>1, <1>2, PTL DEF Spec

(* While a pop sleeps in the kernel, each value has a pop on its way to it. *)
THEOREM PoppersAwake == IsFiniteSet(Task) /\ Spec => []NoIdlePopper
<1>1. IInv => NoIdlePopper
  BY DEF IInv
<1> QED  BY Invariant, <1>1, PTL

-----------------------------------------------------------------------------
(* The bounded FIFO.                                                        *)

\* n values from position r of the buffer b, as a sequence.
Contents(b, r, n) == [i \in 1 .. n |-> b[Slot(r, i)]]

\* s is the n values from position r of the buffer b.
Holds(s, V, b, r, n) ==
    /\ s \in Seq(V) /\ Len(s) = n
    /\ \A i \in 1 .. n : s[i] = b[Slot(r, i)]

LEMMA ContentsSeq ==
    ASSUME NEW V, NEW b \in [Position -> V], NEW r \in Position,
           NEW n \in 0 .. Capacity
    PROVE  Holds(Contents(b, r, n), V, b, r, n)
<1>0. Capacity \in Nat /\ n \in Nat
  OBVIOUS
<1>1. \A i \in 1 .. n : b[Slot(r, i)] \in V
  BY <1>0, SlotIs
<1>2. Contents(b, r, n) \in [1 .. n -> V]
  BY <1>1 DEF Contents
<1> QED  BY <1>0, <1>2 DEF Contents, Holds

\* c is b, but for position w.
SameBut(b, c, w) == \A p \in Position \ {w} : c[p] = b[p]

\* s is u with v behind it; s is u without its head, which is v.
Appends(s, u, v)  == s = Append(u, v)
Beheads(s, u, v) == u # << >> /\ Head(u) = v /\ s = Tail(u)

\* Writing behind the last value appends.
LEMMA ContentsPush ==
    ASSUME NEW V, NEW b \in [Position -> V], NEW c \in [Position -> V],
           NEW r \in Position, NEW w \in Position,
           NEW n \in 0 .. Capacity, NEW m \in 0 .. Capacity, m = n + 1,
           Slot(r, m) = w, SameBut(b, c, w)
    PROVE  Appends(Contents(c, r, m), Contents(b, r, n), c[w])
<1> DEFINE s == Contents(b, r, n)
           u == Contents(c, r, m)
<1>0. Capacity \in Nat /\ n \in Nat
  OBVIOUS
<1>a. Holds(s, V, b, r, n)
  BY ContentsSeq
<1>b. Holds(u, V, c, r, m)
  BY ContentsSeq
<1> HIDE DEF s, u
<1>1. /\ s \in Seq(V) /\ Len(s) = n
      /\ \A i \in 1 .. n : s[i] = b[Slot(r, i)]
  BY <1>a DEF Holds
<1>2. /\ u \in Seq(V) /\ Len(u) = m
      /\ \A i \in 1 .. m : u[i] = c[Slot(r, i)]
  BY <1>b DEF Holds
<1>3. \A i \in 1 .. n : Slot(r, i) \in Position \ {w}
  <2> SUFFICES ASSUME NEW i \in 1 .. n
               PROVE  Slot(r, i) \in Position \ {w}
    OBVIOUS
  <2>1. i \in 1 .. Capacity + 1 /\ m \in 1 .. Capacity + 1
    BY <1>0
  <2>2. /\ Slot(r, i) = IF r + i - 1 <= Capacity THEN r + i - 1 ELSE r + i - 2 - Capacity
        /\ Slot(r, i) \in Position
    BY <2>1, SlotIs
  <2>3. w = IF r + m - 1 <= Capacity THEN r + m - 1 ELSE r + m - 2 - Capacity
    BY <2>1, SlotIs
  <2> QED  BY <1>0, <2>2, <2>3 DEF Position
<1>4. \A i \in 1 .. n : u[i] = s[i]
  <2> SUFFICES ASSUME NEW i \in 1 .. n PROVE u[i] = s[i]
    OBVIOUS
  <2>1. i \in 1 .. m
    BY <1>0
  <2>2. c[Slot(r, i)] = b[Slot(r, i)]
    BY <1>3 DEF SameBut
  <2> QED  BY <1>1, <1>2, <2>1, <2>2
<1>5. u[m] = c[w] /\ c[w] \in V
  <2>1. m \in 1 .. m
    BY <1>0
  <2> QED  BY <1>2, <2>1
<1>6. /\ Append(s, c[w]) \in Seq(V) /\ Len(Append(s, c[w])) = m
      /\ Append(s, c[w])[m] = c[w]
      /\ \A i \in 1 .. n : Append(s, c[w])[i] = s[i]
  BY <1>0, <1>1, <1>5
<1>7. \A i \in 1 .. m : u[i] = Append(s, c[w])[i]
  <2> SUFFICES ASSUME NEW i \in 1 .. m PROVE u[i] = Append(s, c[w])[i]
    OBVIOUS
  <2>1. i = m \/ i \in 1 .. n
    BY <1>0
  <2> QED  BY <1>4, <1>5, <1>6, <2>1
<1>8. u = Append(s, c[w])
  BY <1>2, <1>6, <1>7, SeqEqual
<1> QED  BY <1>8 DEF u, s, Appends

\* Leaving the first position behind takes the head.
LEMMA ContentsPop ==
    ASSUME NEW V, NEW b \in [Position -> V], NEW c \in [Position -> V],
           NEW r \in Position, NEW q \in Position, q = Succ(r),
           NEW n \in 0 .. Capacity, NEW m \in 0 .. Capacity, m = n - 1,
           SameBut(b, c, r)
    PROVE  Beheads(Contents(c, q, m), Contents(b, r, n), b[r])
<1> DEFINE s == Contents(b, r, n)
           u == Contents(c, q, m)
<1>0. Capacity \in Nat /\ n \in Nat /\ m \in Nat
  OBVIOUS
<1>a. Holds(s, V, b, r, n)
  BY ContentsSeq
<1>b. Holds(u, V, c, q, m)
  BY ContentsSeq
<1> HIDE DEF s, u
<1>1. /\ s \in Seq(V) /\ Len(s) = n
      /\ \A i \in 1 .. n : s[i] = b[Slot(r, i)]
  BY <1>a DEF Holds
<1>2. /\ u \in Seq(V) /\ Len(u) = m
      /\ \A i \in 1 .. m : u[i] = c[Slot(q, i)]
  BY <1>b DEF Holds
<1>3. Slot(r, 1) = r
  <2>1. 1 \in 1 .. Capacity + 1
    BY <1>0
  <2> QED  BY <1>0, <2>1, SlotIs DEF Position
<1>4. \A i \in 1 .. m : /\ Slot(q, i) = Slot(r, i + 1)
                        /\ Slot(r, i + 1) \in Position \ {r}
  <2> SUFFICES ASSUME NEW i \in 1 .. m
               PROVE  /\ Slot(q, i) = Slot(r, i + 1)
                      /\ Slot(r, i + 1) \in Position \ {r}
    OBVIOUS
  <2>1. i \in 1 .. Capacity + 1 /\ i + 1 \in 1 .. Capacity + 1
    BY <1>0
  <2>2. Slot(q, i) = IF q + i - 1 <= Capacity THEN q + i - 1 ELSE q + i - 2 - Capacity
    BY <2>1, SlotIs
  <2>3. /\ Slot(r, i + 1) = IF r + (i + 1) - 1 <= Capacity THEN r + (i + 1) - 1
                                                         ELSE r + (i + 1) - 2 - Capacity
        /\ Slot(r, i + 1) \in Position
    BY <2>1, SlotIs
  <2> QED  BY <1>0, <2>2, <2>3 DEF Position, Succ, mTail
<1>5. s # << >>
  BY <1>0, <1>1
<1>6. Head(s) = b[r]
  <2>1. s[1] = b[r]
    BY <1>0, <1>1, <1>3
  <2> QED  BY <1>1, <1>5, <2>1
<1>7. /\ Tail(s) \in Seq(V) /\ Len(Tail(s)) = m
      /\ \A i \in 1 .. m : Tail(s)[i] = s[i + 1]
  BY <1>1, <1>5, HeadTailProperties
<1>8. \A i \in 1 .. m : u[i] = Tail(s)[i]
  <2> SUFFICES ASSUME NEW i \in 1 .. m PROVE u[i] = Tail(s)[i]
    OBVIOUS
  <2>1. i + 1 \in 1 .. n
    BY <1>0
  <2>2. s[i + 1] = b[Slot(r, i + 1)]
    BY <1>1, <2>1
  <2>3. u[i] = c[Slot(r, i + 1)]
    BY <1>2, <1>4
  <2>4. c[Slot(r, i + 1)] = b[Slot(r, i + 1)]
    BY <1>4 DEF SameBut
  <2> QED  BY <1>7, <2>2, <2>3, <2>4
<1>9. u = Tail(s)
  BY <1>2, <1>7, <1>8, SeqEqual
<1> QED  BY <1>5, <1>6, <1>9 DEF u, s, Beheads

\* The values in the queue, and the buffer they are in.
LEMMA TypePositions ==
    ASSUME TypeOK
    PROVE  Positions /\ buf \in [Position -> Element] /\ result \in [Task -> Element]
BY DEF TypeOK, Positions, Position

LEMMA ItemsAre == Items = Contents(buf, mRead, Length)
BY DEF Items, Contents, Slot

LEMMA NextItems == Items' = Contents(buf', mRead', Length')
BY DEF Items, Contents, Slot

LEMMA ItemsLength ==
    ASSUME TypeOK
    PROVE  Len(Items) = Length
<1>1. buf \in [Position -> Element] /\ mRead \in Position /\ Length \in 0 .. Capacity
  BY TypePositions, LengthIs DEF Positions
<1>2. Holds(Contents(buf, mRead, Length), Element, buf, mRead, Length)
  BY <1>1, ContentsSeq
<1> QED  BY <1>2, ItemsAre DEF Holds

\* A push appends at the write position.
LEMMA PutRefines ==
    ASSUME TypeOK, TypeOK', NEW t \in Task, NEW v \in Value, Puts(t, v)
    PROVE  BF!Put(t, v)
<1>0. Capacity \in Nat
  OBVIOUS
<1>1. Positions /\ buf \in [Position -> Element] /\ buf' \in [Position -> Element]
  BY TypePositions DEF TypeOK, Position
<1>2. ~Full /\ RingPush(v) /\ Return(t, None)
  BY DEF Puts
<1>3. Positions' /\ Length' = Length + 1
  BY <1>1, <1>2, PushLength
<1>4. Length \in 0 .. Capacity /\ Length # Capacity
  BY <1>1, <1>2, LengthIs
<1>5. Length' \in 0 .. Capacity
  BY <1>0, <1>3, <1>4
<1>6. mRead \in Position /\ mWrite \in Position /\ mRead' = mRead
  BY <1>1, <1>2 DEF Positions, RingPush
<1>7. Slot(mRead, Length') = mWrite
  <2>1. Length' \in 1 .. Capacity + 1
    BY <1>0, <1>3, <1>4
  <2>2. Slot(mRead, Length') = IF mRead + Length' - 1 <= Capacity
                               THEN mRead + Length' - 1
                               ELSE mRead + Length' - 2 - Capacity
    BY <1>6, <2>1, SlotIs
  <2>3. Length = IF mRead <= mWrite THEN mWrite - mRead
                                    ELSE mWrite + Capacity + 1 - mRead
    BY <1>1, LengthIs
  <2> QED  BY <1>0, <1>3, <1>4, <1>6, <2>2, <2>3 DEF Position
<1>8. PICK e \in Written(mWrite, v) : buf' = [buf EXCEPT ![mWrite] = e]
  BY <1>2 DEF RingPush
<1>9. buf'[mWrite] = e /\ SameBut(buf, buf', mWrite)
  BY <1>1, <1>6, <1>8 DEF SameBut
<1>10. Appends(Contents(buf', mRead, Length'), Contents(buf, mRead, Length), buf'[mWrite])
  BY <1>1, <1>3, <1>4, <1>5, <1>6, <1>7, <1>9, ContentsPush
<1>11. Items' = Append(Items, e)
  BY <1>6, <1>9, <1>10, ItemsAre, NextItems DEF Appends
<1>12. Len(Items) < Capacity
  BY <1>0, <1>4, ItemsLength
<1>13. e = v \/ (mWrite \in {mTail} /\ e = Garbage)
  BY <1>8 DEF Written
<1>14. mWrite' = IF mWrite = Capacity THEN 0 ELSE mWrite + 1
  BY <1>2 DEF RingPush, Succ, mTail
<1> QED  BY <1>2, <1>11, <1>12, <1>13, <1>14 DEF Return, BF!Put

\* A pop takes the value at the read position.
LEMMA TakeRefines ==
    ASSUME TypeOK, TypeOK', NEW t \in Task, Takes(t)
    PROVE  BF!Take(t)
<1>0. Capacity \in Nat
  OBVIOUS
<1>1. Positions /\ buf \in [Position -> Element] /\ buf' \in [Position -> Element]
  BY TypePositions DEF TypeOK, Position
<1>2. ~Empty /\ RingPop /\ Return(t, buf[mRead])
  BY DEF Takes
<1>3. Positions' /\ Length' = Length - 1
  BY <1>1, <1>2, PopLength
<1>4. Length \in 0 .. Capacity /\ Length # 0
  BY <1>1, <1>2, LengthIs
<1>5. Length' \in 0 .. Capacity
  BY <1>0, <1>3, <1>4
<1>6. mRead \in Position /\ mRead' \in Position /\ mRead' = Succ(mRead)
  BY <1>1, <1>2, <1>3 DEF Positions, RingPop
<1>7. buf' = [buf EXCEPT ![mRead] = None]
  BY <1>2 DEF RingPop
<1>8. SameBut(buf, buf', mRead)
  BY <1>1, <1>6, <1>7 DEF SameBut
<1>9. Beheads(Contents(buf', mRead', Length'), Contents(buf, mRead, Length), buf[mRead])
  BY <1>1, <1>3, <1>4, <1>5, <1>6, <1>8, ContentsPop
<1>10. Items # << >> /\ Head(Items) = buf[mRead] /\ Items' = Tail(Items)
  BY <1>9, ItemsAre, NextItems DEF Beheads
<1>11. UNCHANGED mWrite
  BY <1>2 DEF RingPop
<1> QED  BY <1>2, <1>10, <1>11 DEF Return, BF!Take

LEMMA SameRing ==
    ASSUME UNCHANGED ring
    PROVE  Items' = Items /\ mWrite' = mWrite
BY DEF ring, Items, Length

LEMMA InitRefines == Init => BF!Init
<1> SUFFICES ASSUME Init PROVE BF!Init
  OBVIOUS
<1>1. TypeOK
  BY InitTypes
<1>2. Length = 0
  BY <1>1, TypePositions, LengthIs DEF Init, Empty
<1>3. Items = << >>
  BY <1>2 DEF Items
<1> QED  BY <1>3 DEF Init, BF!Init

LEMMA StepRefines ==
    ASSUME TypeOK, Suspension, Justified, [Next]_vars
    PROVE  [BF!Next]_<<Items, mWrite, result>>
<1>1. CASE UNCHANGED vars
  BY <1>1, SameRing DEF vars
<1>2. TypeOK'
  BY SafeStep
<1>3. ASSUME NEW t \in Task, NEW v \in Value, Puts(t, v)
      PROVE  BF!Next
  BY <1>2, <1>3, PutRefines DEF BF!Next
<1>4. ASSUME NEW t \in Task, Takes(t)
      PROVE  BF!Next
  BY <1>2, <1>4, TakeRefines DEF BF!Next
<1>5. ASSUME NEW t \in Task, Sleeps(t) \/ Fails(t)
      PROVE  BF!Next
  <2>1. UNCHANGED ring /\ result' = [result EXCEPT ![t] = None]
    BY <1>5 DEF Sleeps, Sleep, Fails, Return
  <2>2. BF!Forget(t)
    BY <2>1, SameRing DEF BF!Forget
  <2> QED  BY <2>2 DEF BF!Next
<1>6. ASSUME NEW t \in Task, Submit(t) \/ Cancel(t) \/ Abort(t)
      PROVE  UNCHANGED <<Items, mWrite, result>>
  BY <1>6, SameRing DEF Submit, Cancel, Abort
<1>7. CASE Next
  BY <1>3, <1>4, <1>5, <1>6, <1>7, Outcome
<1> QED  BY <1>1, <1>7

(* For every capacity and every use of it, the queue is a bounded FIFO, in  *)
(* which only the values that are written behind the array may be damaged.  *)
THEOREM Refinement == Spec => ImplementsFifo
<1>1. Init => TypeOK /\ Suspension /\ Justified
  BY InitTypes
<1>2. TypeOK /\ Suspension /\ Justified /\ [Next]_vars
      => (TypeOK /\ Suspension /\ Justified)'
  BY SafeStep
<1>3. TypeOK /\ Suspension /\ Justified /\ [Next]_vars => [BF!Next]_<<Items, mWrite, result>>
  BY StepRefines
<1> QED  BY InitRefines, <1>1, <1>2, <1>3, PTL DEF Spec, ImplementsFifo, BF!Spec
=============================================================================
