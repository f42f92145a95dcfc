------------------------------- MODULE Futex -------------------------------
(***************************************************************************)
(* One futex word and the asynchronous waits on it (platform/futex.hpp     *)
(* over UringOp).  futex_wait only PREPARES a submission entry when it is  *)
(* awaited; the kernel compares the word with the expected value later,    *)
(* when the event loop of the waiter's thread submits, and a wake reaches  *)
(* only the waits that the kernel has queued.  futex_notify is a plain     *)
(* system call.  Every task owns at most one wait.                         *)
(*                                                                         *)
(* A bit mask is the set of the numbers of its bits; the word is left to   *)
(* the module that extends this one.                                       *)
(***************************************************************************)
EXTENDS Naturals

CONSTANT Task              \* the coroutines that use the futex

VARIABLES mFutex,          \* the futex word
          op,              \* op[t]: the UringOp of t's futex_wait
          cancelSqe        \* cancelSqe[t]: a prep_cancel of op[t] is prepared

futexVars == <<mFutex, op, cancelSqe>>

MatchAny == 0 .. 31        \* FUTEX_BITSET_MATCH_ANY

\* none: no wait; prepared: SQE not submitted; queued: asleep in the kernel;
\* woken, again, canceled: the CQE's res is 0, -EAGAIN or -ECANCELED.
Done == {"woken", "again", "canceled"}
OpState == {"none", "prepared", "queued"} \cup Done

WaitOp(st, val, mask) == [st |-> st, val |-> val, mask |-> mask]
NoOp == WaitOp("none", 0, {})

FutexTypeOK(Value, Mask) ==
    /\ mFutex \in Value
    /\ op \in [Task -> [st : OpState, val : Value, mask : SUBSET Mask]]
    /\ cancelSqe \in [Task -> BOOLEAN]

FutexInit(word) ==
    /\ mFutex = word
    /\ op = [t \in Task |-> NoOp]
    /\ cancelSqe = [t \in Task |-> FALSE]

QueuedIn(o, mask) == {t \in Task : o[t].st = "queued" /\ o[t].mask \cap mask # {}}
Queued(mask) == QueuedIn(op, mask)

-----------------------------------------------------------------------------
(* Slips the properties must notice; no specification uses them.            *)
SubmitWaitUnchecked(t) ==  \* sleeps without comparing the word
    /\ op[t].st = "prepared"
    /\ op' = [op EXCEPT ![t].st = "queued"]
    /\ UNCHANGED <<mFutex, cancelSqe>>

SubmitCancelOfWoken(t) ==  \* overwrites the result of a completed wait
    /\ cancelSqe[t]
    /\ op[t].st # "prepared"
    /\ cancelSqe' = [cancelSqe EXCEPT ![t] = FALSE]
    /\ op' = IF op[t].st = "none" THEN op ELSE [op EXCEPT ![t].st = "canceled"]
    /\ UNCHANGED mFutex

-----------------------------------------------------------------------------
(* futex_wait up to its suspension.  An older cancel entry of the same      *)
(* task is ahead in the submission queue, so it will miss the new wait.     *)
PrepWait(t, val, mask) ==
    /\ op' = [op EXCEPT ![t] = WaitOp("prepared", val, mask)]
    /\ cancelSqe' = [cancelSqe EXCEPT ![t] = FALSE]

(* The loop of t's thread submits: the kernel queues the wait, or completes *)
(* it with -EAGAIN because the word is no longer the expected value.        *)
SubmitWait(t) ==
    /\ op[t].st = "prepared"
    /\ op' = [op EXCEPT ![t].st = IF mFutex = op[t].val THEN "queued"
                                                       ELSE "again"]
    /\ UNCHANGED <<mFutex, cancelSqe>>

(* waitEventsFor resumes t with the wait's result.                          *)
Reap(t) ==
    /\ op[t].st \in Done
    /\ op' = [op EXCEPT ![t] = NoOp]
    /\ UNCHANGED cancelSqe

(* The kernel completes some queued wait of the mask, if there is one.      *)
WokenOne(o, mask) ==
    IF QueuedIn(o, mask) = {}
    THEN {o}
    ELSE {[o EXCEPT ![t].st = "woken"] : t \in QueuedIn(o, mask)}

(* futex_notify(futex, count, mask) calls the kernel with (count, mask,     *)
(* flags) where it expects (mask, count, flags).  So the caller's mask is   *)
(* how many are woken: the mask 2 stands for two, and 1 and MatchAny, which *)
(* is -1 to the kernel, for one.  And the caller's count, always 1, is the  *)
(* mask: a wait is found if bit 0 is in its own.                            *)
CountOne == {0}
Nr(mask) == IF mask = {1} THEN 2 ELSE 1

FutexNotify(o, mask) ==
    LET once == WokenOne(o, CountOne)
    IN  IF Nr(mask) = 1 THEN once ELSE UNION {WokenOne(p, CountOne) : p \in once}

(* The CancelCallback of cancelGuard: prepares a cancel entry.  The guard   *)
(* lives exactly as long as the wait.                                       *)
PrepCancel(t) ==
    /\ cancelSqe' = [cancelSqe EXCEPT ![t] = op[t].st # "none"]
    /\ UNCHANGED <<mFutex, op>>

(* The kernel executes the cancel entry.  The wait was prepared before it   *)
(* and is therefore already submitted; a completed one is not found.        *)
SubmitCancel(t) ==
    /\ cancelSqe[t]
    /\ op[t].st # "prepared"
    /\ cancelSqe' = [cancelSqe EXCEPT ![t] = FALSE]
    /\ op' = IF op[t].st = "queued" THEN [op EXCEPT ![t].st = "canceled"] ELSE op
    /\ UNCHANGED mFutex
=============================================================================
