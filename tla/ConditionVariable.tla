------------------------- MODULE ConditionVariable -------------------------
(***************************************************************************)
(* ConditionVariable (generic/condition_variable.hpp): a futex word that   *)
(* counts notifications.  Only its distance from the value that each wait  *)
(* has loaded matters, so mFutex stays 0 and op[t].val is 0 while the      *)
(* counter is still what t has loaded and 1 once it has moved.  This is    *)
(* exact while fewer than 2^32 notifications fall into one wait.           *)
(***************************************************************************)
EXTENDS Futex

\* wait(mask) by t, up to its suspension, on the waits o.
CvWait(o, t, mask) == [o EXCEPT ![t] = WaitOp("prepared", 0, mask)]

\* The loop condition of wait(): the counter has moved since it was loaded.
CvMoved(t) == op[t].val # mFutex

\* mFutex.fetch_add(1): every pending wait has now loaded an older value.
CvAdvance(o) ==
    [t \in Task |-> IF o[t].st = "none" THEN o[t]
                    ELSE WaitOp(o[t].st, 1, o[t].mask)]

\* The kernel wakes in arrival order.  A wait is queued only while its value
\* is current, so the waits of older values are ahead of the others.
First(o, mask) ==
    LET Q == QueuedIn(o, mask)
        Older == {t \in Q : o[t].val # mFutex}
    IN  IF Older # {} THEN Older ELSE Q

CvWokenOne(o, mask) ==
    IF First(o, mask) = {}
    THEN {o}
    ELSE {[o EXCEPT ![t].st = "woken"] : t \in First(o, mask)}

\* notify_one(mask) without another thread in between: futex_notify of one
\* wait, with the arguments where FutexNotify has them.
CvNotifyOne(o, mask) ==
    LET once == CvWokenOne(CvAdvance(o), CountOne)
    IN  IF Nr(mask) = 1 THEN once ELSE UNION {CvWokenOne(p, CountOne) : p \in once}
=============================================================================
