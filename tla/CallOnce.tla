------------------------------ MODULE CallOnce ------------------------------
(***************************************************************************)
(* CallOnce (generic/mutex.hpp): call_once() hands a Locked to the first   *)
(* caller, which initialises something, may call set_ready(), and drops    *)
(* the Locked; everyone else gets an empty Locked.  The mutex is the       *)
(* abstract lock that Mutex is shown to implement.  A Locked dropped       *)
(* without set_ready (the initialisation failed) leaves the work to the    *)
(* next caller.                                                            *)
(***************************************************************************)
CONSTANT Caller            \* the coroutines that call call_once

VARIABLES mMutex,          \* mMutex[t]: what the lock is to t
          at,              \* at[t]: where t is in call_once
          mCalled,         \* the flag read without the lock
          failed           \* failed[t]: a wait of t's call was cancelled

M == INSTANCE AbstractLock WITH Task <- Caller, mode <- mMutex

onceVars == <<mMutex, at, mCalled, failed>>

\* start: not called; locking: in mMutex.lock(); check: locked, before the
\* second look at mCalled; init: returned a Locked; dropping: ~Locked is due;
\* done: returned an empty Locked, or finished.
Place == {"start", "locking", "check", "init", "dropping", "done"}

OnceTypeOK ==
    /\ mMutex \in [Caller -> {"out", "trying", "in"}]
    /\ at \in [Caller -> Place]
    /\ mCalled \in BOOLEAN
    /\ failed \in [Caller -> BOOLEAN]

OnceInit ==
    /\ M!Init
    /\ at = [t \in Caller |-> "start"]
    /\ mCalled = FALSE
    /\ failed = [t \in Caller |-> FALSE]

Step(t, l) == at' = [at EXCEPT ![t] = l]
-----------------------------------------------------------------------------
(* Slips the properties must notice; no specification uses them.            *)
CheckTrustsFirstLook(t) ==
    /\ at[t] = "check"
    /\ Step(t, "init")
    /\ UNCHANGED <<mMutex, mCalled, failed>>

DropKeepsLock(t) ==
    /\ at[t] = "dropping"
    /\ Step(t, "done")
    /\ UNCHANGED <<mMutex, mCalled, failed>>

-----------------------------------------------------------------------------
(* The first look, and the call of lock() when it does not return early.    *)
(* The load is relaxed: it may still see false after set_ready.             *)
Call(t) ==
    /\ at[t] = "start"
    /\ \/ mCalled /\ Step(t, "done") /\ UNCHANGED mMutex
       \/ Step(t, "locking") /\ M!Try(t)
    /\ failed' = [failed EXCEPT ![t] = FALSE]
    /\ UNCHANGED mCalled

Locked(t) ==
    /\ at[t] = "locking"
    /\ M!Enter(t)
    /\ Step(t, "check")
    /\ UNCHANGED <<mCalled, failed>>

(* lock() failed because its wait was cancelled.  A token fires once, so    *)
(* the lock() that the loop calls next waits for good.                      *)
LockFailed(t) ==
    /\ at[t] = "locking"
    /\ ~failed[t]
    /\ M!GiveUp(t)
    /\ failed' = [failed EXCEPT ![t] = TRUE]
    /\ UNCHANGED <<at, mCalled>>

Relock(t) ==
    /\ at[t] = "locking"
    /\ M!Try(t)
    /\ UNCHANGED <<at, mCalled, failed>>

(* The second look, under the lock.                                         *)
Check(t) ==
    /\ at[t] = "check"
    /\ Step(t, IF mCalled THEN "dropping" ELSE "init")
    /\ UNCHANGED <<mMutex, mCalled, failed>>

SetReady(t) ==
    /\ at[t] = "init"
    /\ mCalled' = TRUE
    /\ Step(t, "dropping")
    /\ UNCHANGED <<mMutex, failed>>

InitFailed(t) ==
    /\ at[t] = "init"
    /\ Step(t, "dropping")
    /\ UNCHANGED <<mMutex, mCalled, failed>>

Drop(t) ==
    /\ at[t] = "dropping"
    /\ M!Leave(t)
    /\ Step(t, "done")
    /\ UNCHANGED <<mCalled, failed>>

(* A finished caller may ask again.                                         *)
Again(t) ==
    /\ at[t] = "done"
    /\ Step(t, "start")
    /\ UNCHANGED <<mMutex, mCalled, failed>>

OnceNext == \E t \in Caller :
    \/ Call(t) \/ Locked(t) \/ LockFailed(t) \/ Relock(t) \/ Check(t)
    \/ SetReady(t) \/ InitFailed(t) \/ Drop(t) \/ Again(t)

\* The turns of a caller that does not wait for the lock.
Turn(t) == \/ Call(t) \/ Relock(t) \/ Check(t)
           \/ SetReady(t) \/ InitFailed(t) \/ Drop(t)

(* The loops of the callers run, and the lock is as live as AbstractLock.   *)
OnceSpec ==
    /\ OnceInit /\ [][OnceNext]_onceVars
    /\ \A t \in Caller : WF_onceVars(Turn(t))
    /\ WF_onceVars(\E t \in Caller : Locked(t))
-----------------------------------------------------------------------------
(* At most one caller initialises at a time, and none once the work is      *)
(* ready: the two looks at mCalled, one of them unsynchronised, never let a *)
(* second one in (mutex.hpp:167-180).                                       *)
OneInitialiser ==
    \A t, u \in Caller : at[t] = "init" => ~mCalled /\ (at[u] = "init" => t = u)

(* A caller that waits for the lock is answered, or another caller is, even *)
(* when initialisations fail and waits are cancelled.                       *)
CallersMove == (\E t \in Caller : at[t] = "locking")
               ~> (\E t \in Caller : at[t] = "check")

\* The lock is held exactly from the second look to the drop of the Locked.
LockSpan ==
    \A t \in Caller : mMutex[t] = "in" <=> at[t] \in {"check", "init", "dropping"}

(* The inductive invariant behind OneInitialiser: the lock spans every      *)
(* initialisation, so the second look is ordered after any set_ready.       *)
OnceInv ==
    /\ OnceTypeOK
    /\ LockSpan
    /\ \A t, u \in Caller : mMutex[t] = "in" /\ mMutex[u] = "in" => t = u
    /\ OneInitialiser
=============================================================================
