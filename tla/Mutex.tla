------------------------------- MODULE Mutex -------------------------------
(***************************************************************************)
(* BasicMutex and the RAII handle Mutex<T>::Locked (generic/mutex.hpp) on  *)
(* a futex word: coroutines of several event loops, each in its own        *)
(* thread, take the lock with try_lock or lock, and lock() may be          *)
(* cancelled through the token it was called under (co_timeout,            *)
(* when_any).                                                              *)
(***************************************************************************)
EXTENDS Futex

VARIABLES pc,              \* pc[t]: where t is in lock / unlock
          canceled         \* canceled[t]: mCanceled of the token of t's call

vars == <<futexVars, pc, canceled>>

\* idle: outside; exchange: about to try mFutex.exchange(true);
\* waiting: suspended in futex_wait; holding: owns a Locked;
\* notify: in unlock(), after the store and before futex_notify.
PC == {"idle", "exchange", "waiting", "holding", "notify"}

TypeOK ==
    /\ FutexTypeOK({0, 1}, MatchAny)
    /\ pc \in [Task -> PC]
    /\ canceled \in [Task -> BOOLEAN]

Init ==
    /\ FutexInit(0)
    /\ pc = [t \in Task |-> "idle"]
    /\ canceled = [t \in Task |-> FALSE]

Goto(t, l) == pc' = [pc EXCEPT ![t] = l]

-----------------------------------------------------------------------------
(* Slips the properties must notice; no specification uses them.            *)
ResumeAsOwner(t) ==        \* takes the wake for the lock itself
    /\ pc[t] = "waiting"
    /\ Reap(t)
    /\ Goto(t, IF op[t].st = "canceled" THEN "idle" ELSE "holding")
    /\ UNCHANGED <<mFutex, canceled>>

UnlockWithoutStore(t) ==
    /\ pc[t] = "holding"
    /\ Goto(t, "notify")
    /\ UNCHANGED <<futexVars, canceled>>

UnlockWithoutNotify(t) ==
    /\ pc[t] = "holding"
    /\ mFutex' = 0
    /\ Goto(t, "idle")
    /\ UNCHANGED <<op, cancelSqe, canceled>>

-----------------------------------------------------------------------------
TryLock(t) ==
    /\ pc[t] = "idle"
    /\ mFutex' = 1
    /\ IF mFutex = 0 THEN Goto(t, "holding") ELSE UNCHANGED pc
    /\ UNCHANGED <<op, cancelSqe, canceled>>

(* The call of lock(), under a token of its own.                            *)
Lock(t) ==
    /\ pc[t] = "idle"
    /\ Goto(t, "exchange")
    /\ canceled' = [canceled EXCEPT ![t] = FALSE]
    /\ UNCHANGED futexVars

(* One turn of the loop in lock().                                          *)
Exchange(t) ==
    /\ pc[t] = "exchange"
    /\ mFutex' = 1
    /\ IF mFutex = 0
       THEN /\ Goto(t, "holding")
            /\ UNCHANGED <<op, cancelSqe>>
       ELSE /\ Goto(t, "waiting")
            /\ PrepWait(t, 1, MatchAny)
    /\ UNCHANGED canceled

Submit(t) == SubmitWait(t) /\ UNCHANGED <<pc, canceled>>

(* lock() resumes: an error other than EAGAIN is returned to the caller.    *)
Resume(t) ==
    /\ pc[t] = "waiting"
    /\ Reap(t)
    /\ Goto(t, IF op[t].st = "canceled" THEN "idle" ELSE "exchange")
    /\ UNCHANGED <<mFutex, canceled>>

(* unlock(), by hand or by ~Locked: the store, then the system call.        *)
Unlock(t) ==
    /\ pc[t] = "holding"
    /\ mFutex' = 0
    /\ Goto(t, "notify")
    /\ UNCHANGED <<op, cancelSqe, canceled>>

Notify(t) ==
    /\ pc[t] = "notify"
    /\ op' \in FutexNotify(op, MatchAny)
    /\ Goto(t, "idle")
    /\ UNCHANGED <<mFutex, cancelSqe, canceled>>

(* The token of t's lock() is cancelled, once, by the thread of t.          *)
Cancel(t) ==
    /\ pc[t] \in {"exchange", "waiting"}
    /\ ~canceled[t]
    /\ canceled' = [canceled EXCEPT ![t] = TRUE]
    /\ PrepCancel(t)
    /\ UNCHANGED pc

Abort(t) == SubmitCancel(t) /\ UNCHANGED <<pc, canceled>>

Next == \E t \in Task :
    \/ TryLock(t) \/ Lock(t) \/ Exchange(t) \/ Submit(t) \/ Resume(t)
    \/ Unlock(t) \/ Notify(t) \/ Cancel(t) \/ Abort(t)

(* The event loops keep running while they have pending operations, a       *)
(* running coroutine is not pre-empted for ever, and a holder eventually    *)
(* drops its Locked.  Calls and cancellations are never forced.             *)
Fairness == \A t \in Task :
    WF_vars(Exchange(t) \/ Submit(t) \/ Resume(t) \/ Unlock(t) \/ Notify(t)
            \/ Abort(t))

Spec == Init /\ [][Next]_vars /\ Fairness
-----------------------------------------------------------------------------
Holders == {t \in Task : pc[t] = "holding"}

(* No two coroutines own a Locked at the same time, whatever loops, wakes   *)
(* and cancellations do (mutex.hpp:15-33).                                  *)
MutualExclusion == \A t, u \in Task : t \in Holders /\ u \in Holders => t = u

(* The word stays locked only while somebody owns the lock: a cancelled or  *)
(* failed attempt, which has written true itself, never leaves it set.      *)
LockedIsOwned == mFutex = 1 <=> Holders # {}

\* The tasks that will still try the word, or wake a waiter, on their own.
Active == {t \in Task : \/ pc[t] \in {"holding", "notify", "exchange"}
                        \/ op[t].st \in {"woken", "again"}}

(* No wake is lost: while a waiter sleeps in the kernel, some task owns the *)
(* lock, is about to wake a waiter, or is on its way to the word; a cancel  *)
(* never swallows the wake that unlock() sent (mutex.hpp:20-33).            *)
NoLostWakeup == Queued(MatchAny) # {} => Active # {}

\* A task has a wait exactly while it is suspended in it.
Suspension ==
    \A t \in Task : /\ pc[t] = "waiting" <=> op[t].st # "none"
                    /\ pc[t] = "waiting" => op[t].val = 1 /\ op[t].mask = MatchAny

(* The inductive invariant: what the operations keep between them.          *)
IInv == TypeOK /\ Suspension /\ MutualExclusion /\ LockedIsOwned /\ NoLostWakeup

(* lock() never gets stuck as a whole: when coroutines are in lock(), one   *)
(* of the callers obtains the lock, or they have all been cancelled.        *)
Progress == (\E t \in Task : pc[t] \in {"exchange", "waiting"})
            ~> (Holders # {} \/ \A t \in Task : pc[t] = "idle")

\* What the callers of the mutex can tell: who wants it and who has it.
mode == [t \in Task |-> CASE pc[t] = "holding" -> "in"
                          [] pc[t] \in {"exchange", "waiting"} -> "trying"
                          [] OTHER -> "out"]

AL == INSTANCE AbstractLock

(* BasicMutex implements the abstract lock, its liveness included: the lock *)
(* changes hands only through a release, and a free lock that is wanted is  *)
(* eventually taken.                                                        *)
ImplementsLock == AL!Spec
=============================================================================
