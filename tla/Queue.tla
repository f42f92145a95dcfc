------------------------------- MODULE Queue -------------------------------
(***************************************************************************)
(* Queue<T> (generic/queue.hpp) over RingQueue (utils/ring_queue.hpp) and  *)
(* one ConditionVariable with two masks, used by the coroutines of one     *)
(* event loop: each turn of a coroutine is one step.  push and pop may be  *)
(* cancelled.                                                              *)
(*                                                                         *)
(* The ring's positions run over 0..Capacity, but Capacity elements are    *)
(* allocated: the last position, mTail, is behind the array.  What is      *)
(* written there is undefined, and taken to be read back as it was or as   *)
(* Garbage; what the write does to other memory is left out.               *)
(***************************************************************************)
EXTENDS ConditionVariable, FiniteSets, Sequences

CONSTANTS Capacity,        \* the size given to the constructor
          Value, None,     \* what is queued; no value
          Garbage,         \* what is read behind the array
          Casts            \* the ways in which the tasks may use the queue

\* casting[t]: the operation that t calls, and the values that it may push.
Role == [calls : {"push", "pop", "try_push", "try_pop"}, values : SUBSET Value]
In(casting, c) == {t \in Task : casting[t].calls = c}

ASSUME QueueAssumption ==
    /\ Capacity \in Nat
    /\ None \notin Value /\ Garbage \notin Value \cup {None}
    /\ Casts \subseteq [Task -> Role]

(* try_push notifies only when the queue was empty: that is enough for one  *)
(* waiting pop.                                                             *)
ASSUME TryAssumption ==
    \A casting \in Casts :
        In(casting, "try_push") # {} => Cardinality(In(casting, "pop")) <= 1

VARIABLES cast,            \* who calls what
          buf, mRead, mWrite,   \* the ring and its two positions
          call,            \* call[t]: the pending call of t
          result           \* result[t]: the value of t's last pop, or None

ring == <<buf, mRead, mWrite>>
vars == <<cast, futexVars, ring, call, result>>

kNonEmptyMask == {0}       \* 1
kNonFullMask  == {1}       \* 2

Element == Value \cup {None, Garbage}

Pending(kind, v) == [kind |-> kind, val |-> v, canceled |-> FALSE]
Idle == Pending("none", None)

TypeOK ==
    /\ cast \in Casts
    /\ FutexTypeOK({0, 1}, kNonEmptyMask \cup kNonFullMask)
    /\ buf \in [0 .. Capacity -> Element]
    /\ mRead \in 0 .. Capacity /\ mWrite \in 0 .. Capacity
    /\ call \in [Task -> [kind : {"none", "push", "pop"},
                          val : Value \cup {None}, canceled : BOOLEAN]]
    /\ result \in [Task -> Element]

Init ==
    /\ cast \in Casts
    /\ FutexInit(0)
    /\ buf = [i \in 0 .. Capacity |-> None]
    /\ mRead = 0 /\ mWrite = 0
    /\ call = [t \in Task |-> Idle]
    /\ result = [t \in Task |-> None]

-----------------------------------------------------------------------------
(* A slip the properties must notice; no specification uses it.             *)
SuccWithoutWrap(i) == i + 1

mTail == Capacity          \* not an element of the array

\* What a position holds once v is written to it.
Written(i, v) == IF i = mTail THEN {v, Garbage} ELSE {v}

Succ(i) == IF i = mTail THEN 0 ELSE i + 1
Empty == mRead = mWrite
Full  == Succ(mWrite) = mRead

RingPush(v) ==
    /\ \E e \in Written(mWrite, v) : buf' = [buf EXCEPT ![mWrite] = e]
    /\ mWrite' = Succ(mWrite)
    /\ UNCHANGED mRead

RingPop ==
    /\ buf' = [buf EXCEPT ![mRead] = None]
    /\ mRead' = Succ(mRead)
    /\ UNCHANGED mWrite

-----------------------------------------------------------------------------
\* The waits once t runs again: t has none.
Running(t) == [op EXCEPT ![t] = NoOp]

Return(t, v) ==
    /\ call' = [call EXCEPT ![t] = Idle]
    /\ result' = [result EXCEPT ![t] = v]

\* t goes to sleep in mReady.wait(mask), inside call c.
Sleep(t, c, mask) ==
    /\ op' = CvWait(Running(t), t, mask)
    /\ cancelSqe' = [cancelSqe EXCEPT ![t] = FALSE]
    /\ call' = [call EXCEPT ![t] = c]
    /\ result' = [result EXCEPT ![t] = None]
    /\ UNCHANGED <<mFutex, ring>>

(* Slips the properties must notice; no specification uses them.            *)
PushTurnSilent(t, c) ==    \* forgets to notify
    IF Full
    THEN Sleep(t, c, kNonFullMask)
    ELSE /\ RingPush(c.val)
         /\ op' = Running(t)
         /\ Return(t, None)
         /\ UNCHANGED <<mFutex, cancelSqe>>

PopTurnNewest(t, c) ==     \* returns the value at the write end
    IF Empty
    THEN Sleep(t, c, kNonEmptyMask)
    ELSE /\ RingPop
         /\ op' \in CvNotifyOne(Running(t), kNonFullMask)
         /\ Return(t, buf[IF mWrite = 0 THEN Capacity ELSE mWrite - 1])
         /\ UNCHANGED <<mFutex, cancelSqe>>

-----------------------------------------------------------------------------
\* One turn of the loop of push, in call c.
PushTurn(t, c) ==
    IF Full
    THEN Sleep(t, c, kNonFullMask)
    ELSE /\ RingPush(c.val)
         /\ op' \in CvNotifyOne(Running(t), kNonEmptyMask)
         /\ Return(t, None)
         /\ UNCHANGED <<mFutex, cancelSqe>>

PopTurn(t, c) ==
    IF Empty
    THEN Sleep(t, c, kNonEmptyMask)
    ELSE /\ RingPop
         /\ op' \in CvNotifyOne(Running(t), kNonFullMask)
         /\ Return(t, buf[mRead])
         /\ UNCHANGED <<mFutex, cancelSqe>>

Calls(t, c) == cast[t].calls = c /\ call[t] = Idle

Push(t, v) == Calls(t, "push") /\ PushTurn(t, Pending("push", v))
Pop(t)     == Calls(t, "pop") /\ PopTurn(t, Pending("pop", None))

(* try_push fails on a full ring and notifies if it was empty.              *)
TryPush(t, v) ==
    /\ Calls(t, "try_push")
    /\ IF Full
       THEN UNCHANGED <<ring, op>>
       ELSE /\ RingPush(v)
            /\ op' \in IF Empty THEN CvNotifyOne(op, kNonEmptyMask) ELSE {op}
    /\ Return(t, None)
    /\ UNCHANGED <<mFutex, cancelSqe>>

TryPop(t) ==
    /\ Calls(t, "try_pop")
    /\ IF Empty
       THEN UNCHANGED <<ring, op>> /\ Return(t, None)
       ELSE /\ RingPop
            /\ op' \in IF Full THEN CvNotifyOne(op, kNonFullMask) ELSE {op}
            /\ Return(t, buf[mRead])
    /\ UNCHANGED <<mFutex, cancelSqe>>

Submit(t) == SubmitWait(t) /\ UNCHANGED <<ring, call, result>>

(* The loop resumes t: an error is returned, a wait whose counter has not   *)
(* moved is repeated, and otherwise the call tries again.                   *)
Resume(t) ==
    /\ op[t].st \in Done
    /\ IF op[t].st = "canceled"
       THEN /\ op' = Running(t)
            /\ Return(t, None)
            /\ UNCHANGED <<mFutex, cancelSqe, ring>>
       ELSE IF ~CvMoved(t)
       THEN Sleep(t, call[t], op[t].mask)
       ELSE \/ call[t].kind = "push" /\ PushTurn(t, call[t])
            \/ call[t].kind = "pop" /\ PopTurn(t, call[t])

(* The token of t's call is cancelled, once.                                *)
Cancel(t) ==
    /\ call[t] # Idle
    /\ ~call[t].canceled
    /\ call' = [call EXCEPT ![t].canceled = TRUE]
    /\ PrepCancel(t)
    /\ UNCHANGED <<ring, result>>

Abort(t) == SubmitCancel(t) /\ UNCHANGED <<ring, call, result>>

Next ==
    /\ \E t \in Task :
        \/ \E v \in cast[t].values : Push(t, v) \/ TryPush(t, v)
        \/ Pop(t) \/ TryPop(t)
        \/ Submit(t) \/ Resume(t) \/ Cancel(t) \/ Abort(t)
    /\ UNCHANGED cast

(* The event loop runs while operations are pending; calls are not forced.  *)
Spec == /\ Init /\ [][Next]_vars
        /\ \A t \in Task : WF_vars((Submit(t) \/ Resume(t) \/ Abort(t))
                                    /\ UNCHANGED cast)
-----------------------------------------------------------------------------
\* The values inside, oldest first.
Length == (mWrite + Capacity + 1 - mRead) % (Capacity + 1)
Items == [i \in 1 .. Length |-> buf[(mRead + i - 1) % (Capacity + 1)]]

\* The sleepers of a kind, and those of it who will run again by themselves.
Waiting(kind)  == {t \in Task : call[t].kind = kind}
InFlight(kind) == {t \in Waiting(kind) : \/ op[t].st \in {"woken", "again"}
                                         \/ op[t].st = "prepared" /\ CvMoved(t)}

(* No pop sleeps on work: while one sleeps in the kernel, every value in    *)
(* the queue has another pop on its way to it (queue.hpp:43-59).            *)
NoIdlePopper == Queued(kNonEmptyMask) # {}
                => Length <= Cardinality(InFlight("pop"))

\* A task has a wait exactly while it is inside push or pop, on the mask of
\* that call, and resumes from it only when the counter has moved.
Suspension ==
    /\ mFutex = 0
    /\ \A t \in Task :
        /\ op[t].st = "none" <=> call[t] = Idle
        /\ call[t] # Idle => call[t].kind = cast[t].calls
        /\ call[t].kind = "push" => op[t].mask = kNonFullMask /\ call[t].val \in Value
        /\ call[t].kind = "pop" => op[t].mask = kNonEmptyMask
        /\ op[t].st \in {"woken", "again"} => CvMoved(t)

\* A wait whose counter has not moved is still right to wait: whoever ends
\* the emptiness, or the fullness, notifies.
Justified ==
    \A t \in Task : op[t].st # "none" /\ ~CvMoved(t) =>
        /\ call[t].kind = "pop" => Empty
        /\ call[t].kind = "push" => Full

(* The inductive invariant behind it.                                       *)
IInv == TypeOK /\ Suspension /\ Justified /\ NoIdlePopper

(* A value that is inside while a pop waits leaves the queue, or the        *)
(* waiting pops end.                                                        *)
ValuesMove == (Waiting("pop") # {} /\ ~Empty) ~> (Waiting("pop") = {} \/ Empty)

(* A push that waits beside a free slot gets in, or ends.  False: the wake  *)
(* that a pop sends with kNonFullMask finds no push (futex.hpp:47).         *)
SlotsMove == (Waiting("push") # {} /\ ~Full) ~> (Waiting("push") = {} \/ Full)

BF == INSTANCE BoundedFifo WITH items <- Items, turn <- mWrite, Damaged <- {mTail}

(* The queue is a bounded FIFO: values leave once, in the order in which    *)
(* they came, whichever calls are cancelled or tried, and are what came,    *)
(* but for each (Capacity + 1)-th, which has been behind the array.         *)
ImplementsFifo == BF!Spec
=============================================================================
