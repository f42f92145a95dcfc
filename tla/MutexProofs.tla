---------------------------- MODULE MutexProofs ----------------------------
(***************************************************************************)
(* Mutex, for every set of tasks: the inductive invariant, the safety      *)
(* properties it implies, and the step simulation of the abstract lock;    *)
(* then CallOnce, for every set of callers, on that lock.                  *)
(***************************************************************************)
EXTENDS Mutex, CallOnce, TLAPS

USE DEF TypeOK, FutexTypeOK, OpState, Done, PC, WaitOp, NoOp, MatchAny,
        Suspension, Holders, Active, Queued, QueuedIn

LEMMA InitInv == Init => IInv
BY DEF Init, FutexInit, IInv, MutualExclusion, LockedIsOwned, NoLostWakeup

\* An attempt either takes a free word, which had no owner, or changes no task.
LEMMA TryLockInv == ASSUME IInv, NEW t \in Task, TryLock(t) PROVE IInv'
<1> USE DEF IInv, TryLock, Goto
<1>1. TypeOK' /\ Suspension'
  OBVIOUS
<1>2. CASE mFutex = 0
  <2>1. Holders' = {t}
    BY <1>2 DEF LockedIsOwned
  <2>2. t \in Active'
    BY <1>2
  <2> QED  BY <1>1, <2>1, <2>2 DEF MutualExclusion, LockedIsOwned, NoLostWakeup
<1>3. CASE mFutex # 0
  <2>1. UNCHANGED <<mFutex, pc, op>>
    BY <1>3
  <2> QED  BY <1>1, <2>1 DEF MutualExclusion, LockedIsOwned, NoLostWakeup
<1> QED  BY <1>2, <1>3

LEMMA LockInv == ASSUME IInv, NEW t \in Task, Lock(t) PROVE IInv'
BY DEF Lock, Goto, futexVars, IInv, MutualExclusion, LockedIsOwned, NoLostWakeup

\* A failed exchange found an owner, who is still active when t goes to sleep.
LEMMA ExchangeInv == ASSUME IInv, NEW t \in Task, Exchange(t) PROVE IInv'
<1> USE DEF IInv, Exchange, Goto
<1>1. TypeOK' /\ Suspension'
  <2>1. CASE mFutex = 0
    BY <2>1
  <2>2. CASE mFutex # 0
    <3>1. op' = [op EXCEPT ![t] = WaitOp("prepared", 1, MatchAny)]
      BY <2>2 DEF PrepWait
    <3>2. TypeOK'
      BY <2>2, <3>1 DEF PrepWait
    <3>3. Suspension'
      BY <2>2, <3>1
    <3> QED  BY <3>2, <3>3
  <2> QED  BY <2>1, <2>2
<1>2. CASE mFutex = 0
  <2>1. Holders' = {t}
    BY <1>2 DEF LockedIsOwned
  <2>2. t \in Active'
    BY <1>2
  <2>3. mFutex' = 1
    OBVIOUS
  <2> QED
    BY <1>1, <2>1, <2>2, <2>3 DEF MutualExclusion, LockedIsOwned, NoLostWakeup
<1>3. CASE mFutex # 0
  <2>1. Holders' = Holders /\ Holders # {} /\ mFutex' = mFutex
    BY <1>3 DEF LockedIsOwned
  <2>2. Holders' \subseteq Active'
    OBVIOUS
  <2> QED  BY <1>1, <2>1, <2>2 DEF MutualExclusion, LockedIsOwned, NoLostWakeup
<1> QED  BY <1>2, <1>3

\* The kernel queues the wait only while the word is locked, hence owned.
LEMMA SubmitInv == ASSUME IInv, NEW t \in Task, Submit(t) PROVE IInv'
<1> USE DEF IInv, Submit, SubmitWait
<1>1. TypeOK' /\ Suspension'
  OBVIOUS
<1>2. Holders' = Holders /\ mFutex' = mFutex
  OBVIOUS
<1>3. NoLostWakeup'
  BY DEF LockedIsOwned, NoLostWakeup
<1> QED  BY <1>1, <1>2, <1>3 DEF MutualExclusion, LockedIsOwned

\* A waiter that was not cancelled goes back to the word and stays active.
LEMMA ResumeInv == ASSUME IInv, NEW t \in Task, Resume(t) PROVE IInv'
<1> USE DEF IInv, Resume, Reap, Goto
<1>1. TypeOK' /\ Suspension'
  OBVIOUS
<1>2. Holders' = Holders /\ mFutex' = mFutex
  OBVIOUS
<1>3. Active \subseteq Active' /\ Queued(MatchAny)' \subseteq Queued(MatchAny)
  OBVIOUS
<1> QED  BY <1>1, <1>2, <1>3 DEF MutualExclusion, LockedIsOwned, NoLostWakeup

LEMMA UnlockInv == ASSUME IInv, NEW t \in Task, Unlock(t) PROVE IInv'
<1> USE DEF IInv, Unlock, Goto
<1>1. TypeOK' /\ Suspension'
  OBVIOUS
<1>2. Holders' = {}
  BY DEF MutualExclusion
<1>3. t \in Active'
  OBVIOUS
<1> QED  BY <1>1, <1>2, <1>3 DEF MutualExclusion, LockedIsOwned, NoLostWakeup

\* unlock() wakes one sleeper: MatchAny asks for one, and every wait of the
\* mutex has bit 0.
LEMMA WakesOne ==
    ASSUME Suspension, NEW t, Notify(t)
    PROVE  \/ Queued(MatchAny) = {} /\ op' = op
           \/ \E u \in Queued(MatchAny) : op' = [op EXCEPT ![u].st = "woken"]
<1>1. 0 \in MatchAny /\ MatchAny # {1}
  OBVIOUS
<1>2. Queued(MatchAny) = QueuedIn(op, CountOne)
  <2>1. \A u \in Task : op[u].st = "queued" => op[u].mask = MatchAny
    BY DEF Suspension
  <2> QED  BY <1>1, <2>1 DEF CountOne
<1>3. op' \in WokenOne(op, CountOne)
  BY <1>1 DEF Notify, FutexNotify, Nr
<1> QED  BY <1>2, <1>3 DEF WokenOne

\* The notifier hands its duty to the waiter it wakes.
LEMMA NotifyInv == ASSUME IInv, NEW t \in Task, Notify(t) PROVE IInv'
<1> USE DEF IInv, Notify, Goto
<1>1. TypeOK' /\ Suspension'
  <2>1. CASE op' = op
    BY <2>1
  <2>2. ASSUME NEW u \in Queued(MatchAny), op' = [op EXCEPT ![u].st = "woken"]
        PROVE  TypeOK' /\ Suspension'
    <3>1. u # t
      OBVIOUS
    <3> QED  BY <2>2, <3>1
  <2> QED  BY <2>1, <2>2, WakesOne
<1>2. Holders' = Holders /\ mFutex' = mFutex
  OBVIOUS
<1>3. NoLostWakeup'
  <2>1. CASE Queued(MatchAny) = {} /\ op' = op
    BY <2>1 DEF NoLostWakeup
  <2>2. ASSUME NEW u \in Queued(MatchAny), op' = [op EXCEPT ![u].st = "woken"]
        PROVE  NoLostWakeup'
    <3>1. u \in Active'
      BY <2>2
    <3> QED  BY <3>1 DEF NoLostWakeup
  <2> QED  BY <2>1, <2>2, WakesOne
<1> QED  BY <1>1, <1>2, <1>3 DEF MutualExclusion, LockedIsOwned

LEMMA CancelInv == ASSUME IInv, NEW t \in Task, Cancel(t) PROVE IInv'
BY DEF Cancel, PrepCancel, IInv, MutualExclusion, LockedIsOwned, NoLostWakeup

\* Only a sleeping wait is cancelled, never one that carries a wake.
LEMMA AbortInv == ASSUME IInv, NEW t \in Task, Abort(t) PROVE IInv'
<1> USE DEF IInv, Abort, SubmitCancel
<1>1. TypeOK' /\ Suspension'
  OBVIOUS
<1>2. Holders' = Holders /\ mFutex' = mFutex
  OBVIOUS
<1>3. Active \subseteq Active' /\ Queued(MatchAny)' \subseteq Queued(MatchAny)
  OBVIOUS
<1> QED  BY <1>1, <1>2, <1>3 DEF MutualExclusion, LockedIsOwned, NoLostWakeup

LEMMA StepInv == IInv /\ [Next]_vars => IInv'
<1> SUFFICES ASSUME IInv, [Next]_vars PROVE IInv'
  OBVIOUS
<1>1. CASE UNCHANGED vars
  BY <1>1 DEF vars, futexVars, IInv, MutualExclusion, LockedIsOwned, NoLostWakeup
<1>2. CASE Next
  BY <1>2, TryLockInv, LockInv, ExchangeInv, SubmitInv, ResumeInv, UnlockInv,
     NotifyInv, CancelInv, AbortInv DEF Next
<1> QED  BY <1>1, <1>2

(* The operations keep the inductive invariant in every interleaving.       *)
THEOREM Invariant == Spec => []IInv
BY InitInv, StepInv, PTL DEF Spec

(* Two coroutines never own the lock together, for any number of tasks.     *)
THEOREM Exclusion == Spec => []MutualExclusion
<1>1. IInv => MutualExclusion
  BY DEF IInv
<1> QED  BY Invariant, <1>1, PTL

(* The word is what its readers take it for: an exchange that finds it set  *)
(* has found an owner.                                                      *)
THEOREM WordIsOwner == Spec => []LockedIsOwned
<1>1. IInv => LockedIsOwned
  BY DEF IInv
<1> QED  BY Invariant, <1>1, PTL

(* A waiter never sleeps on a lock that nobody will release or retry.       *)
THEOREM WakeupsArrive == Spec => []NoLostWakeup
<1>1. IInv => NoLostWakeup
  BY DEF IInv
<1> QED  BY Invariant, <1>1, PTL

-----------------------------------------------------------------------------
LEMMA InitRefines == Init => AL!Init
BY DEF Init, FutexInit, AL!Init, mode

\* Every action is one abstract step, or leaves what the callers see alone.
LEMMA StepRefines == IInv /\ [Next]_vars => [AL!Next]_mode
<1> SUFFICES ASSUME IInv, [Next]_vars PROVE [AL!Next]_mode
  OBVIOUS
<1> USE DEF IInv, mode, AL!Move, Goto
<1>f. mFutex = 0 => AL!Free
  BY DEF LockedIsOwned, AL!Free
<1>0. CASE UNCHANGED vars
  BY <1>0 DEF vars
<1>1. ASSUME NEW t \in Task, TryLock(t) PROVE AL!TryNow(t) \/ UNCHANGED mode
  <2>1. CASE mFutex = 0
    <3>1. pc' = [pc EXCEPT ![t] = "holding"]
      BY <1>1, <2>1 DEF TryLock
    <3>2. mode' = [mode EXCEPT ![t] = "in"] /\ mode[t] = "out"
      BY <1>1, <3>1 DEF TryLock
    <3> QED  BY <1>f, <2>1, <3>2 DEF AL!TryNow
  <2>2. CASE mFutex # 0
    BY <1>1, <2>2 DEF TryLock
  <2> QED  BY <2>1, <2>2
<1>2. ASSUME NEW t \in Task, Lock(t) PROVE AL!Try(t)
  BY <1>2 DEF Lock, AL!Try
<1>3. ASSUME NEW t \in Task, Exchange(t) PROVE AL!Enter(t) \/ UNCHANGED mode
  <2>1. CASE mFutex = 0
    <3>1. pc' = [pc EXCEPT ![t] = "holding"]
      BY <1>3, <2>1 DEF Exchange
    <3>2. mode' = [mode EXCEPT ![t] = "in"] /\ mode[t] = "trying"
      BY <1>3, <3>1 DEF Exchange
    <3> QED  BY <1>f, <2>1, <3>2 DEF AL!Enter
  <2>2. CASE mFutex # 0
    <3>1. pc' = [pc EXCEPT ![t] = "waiting"]
      BY <1>3, <2>2 DEF Exchange
    <3> QED  BY <1>3, <3>1 DEF Exchange
  <2> QED  BY <2>1, <2>2
<1>4. ASSUME NEW t \in Task, Resume(t) PROVE AL!GiveUp(t) \/ UNCHANGED mode
  BY <1>4 DEF Resume, AL!GiveUp
<1>5. ASSUME NEW t \in Task, Unlock(t) PROVE AL!Leave(t)
  BY <1>5 DEF Unlock, AL!Leave
<1>6. ASSUME NEW t \in Task, Notify(t) PROVE UNCHANGED mode
  BY <1>6 DEF Notify
<1>7. ASSUME NEW t \in Task, Submit(t) \/ Cancel(t) \/ Abort(t)
      PROVE  UNCHANGED mode
  BY <1>7 DEF Submit, Cancel, Abort
<1> QED  BY <1>0, <1>1, <1>2, <1>3, <1>4, <1>5, <1>6, <1>7 DEF Next, AL!Next

(* The mutex implements the safety part of the abstract lock: ownership     *)
(* passes from one caller to another only through a release.                *)
THEOREM Refinement == Spec => AL!Init /\ [][AL!Next]_mode
BY Invariant, InitRefines, StepRefines, PTL DEF Spec

-----------------------------------------------------------------------------
(* CallOnce, for every set of callers: at most one initialisation at a      *)
(* time and none after set_ready.                                           *)

USE DEF OnceTypeOK, Place, LockSpan, Step, M!Move

LEMMA FirstCallInv == OnceInit => OnceInv
BY DEF OnceInit, M!Init, OnceInv, OneInitialiser

LEMMA OnceStepKeeps == OnceInv /\ [OnceNext]_onceVars => OnceInv'
<1> SUFFICES ASSUME OnceInv, [OnceNext]_onceVars PROVE OnceInv'
  OBVIOUS
<1> USE DEF OnceInv, OneInitialiser
<1>1. CASE UNCHANGED onceVars
  BY <1>1 DEF onceVars
<1>2. ASSUME NEW t \in Caller, Call(t) PROVE OnceInv'
  BY <1>2 DEF Call, M!Try
<1>3. ASSUME NEW t \in Caller, Locked(t) PROVE OnceInv'
  BY <1>3 DEF Locked, M!Enter, M!Free
<1>4. ASSUME NEW t \in Caller, LockFailed(t) PROVE OnceInv'
  BY <1>4 DEF LockFailed, M!GiveUp
<1>5. ASSUME NEW t \in Caller, Relock(t) PROVE OnceInv'
  BY <1>5 DEF Relock, M!Try
<1>6. ASSUME NEW t \in Caller, Check(t) PROVE OnceInv'
  BY <1>6 DEF Check
<1>7. ASSUME NEW t \in Caller, SetReady(t) PROVE OnceInv'
  BY <1>7 DEF SetReady
<1>8. ASSUME NEW t \in Caller, InitFailed(t) PROVE OnceInv'
  BY <1>8 DEF InitFailed
<1>9. ASSUME NEW t \in Caller, Drop(t) PROVE OnceInv'
  BY <1>9 DEF Drop, M!Leave
<1>10. ASSUME NEW t \in Caller, Again(t) PROVE OnceInv'
  BY <1>10 DEF Again
<1> QED
  BY <1>1, <1>2, <1>3, <1>4, <1>5, <1>6, <1>7, <1>8, <1>9, <1>10 DEF OnceNext

(* Every call of call_once, in every interleaving, keeps the invariant.     *)
THEOREM OnceInvariant == OnceSpec => []OnceInv
BY FirstCallInv, OnceStepKeeps, PTL DEF OnceSpec

(* Two callers never initialise together, and nobody does after set_ready.  *)
THEOREM InitialisedOnce == OnceSpec => []OneInitialiser
<1>1. OnceInv => OneInitialiser
  BY DEF OnceInv
<1> QED  BY OnceInvariant, <1>1, PTL
=============================================================================
